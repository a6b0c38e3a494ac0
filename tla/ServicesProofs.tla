--------------------------- MODULE ServicesProofs ---------------------------
(***************************************************************************)
(* Proofs about the parts of the API that share no state: the rate         *)
(* limiter, the subscribers and the provider integrations; the accounts    *)
(* and sessions are proved in SessionProofs.                               *)
(***************************************************************************)
EXTENDS MCServices, SessionProofs, WellFoundedInduction

----------------------------------------------------------------------------
(***************************************************************************)
(* The rate limiter.                                                       *)
(***************************************************************************)
ClientRecord == [at : {"idle", "count", "expire", "touch", "next"},
                 key : Keys \cup {NoKey}]

\* A request past the authentication is one for a key.
Named == \A c \in Clients : client[c].at # "idle" => client[c].key \in Keys

\* What a step does to the clients: one of them is at another point, for its key.
LEMMA ClientTyped ==
    ASSUME LimiterTypeOK, NEW c \in Clients, NEW here,
           NEW there \in {"idle", "count", "expire", "touch", "next"}, GoOn(c, here, there)
    PROVE  /\ client' \in [Clients -> ClientRecord]
           /\ client[c].at = here
           /\ client'[c].at = there
           /\ there # "idle" => client'[c].key = client[c].key
           /\ \A d \in Clients : d # c => client'[d] = client[d]
<1>0. client \in [Clients -> ClientRecord] /\ IdleClient \in ClientRecord
  BY DEF LimiterTypeOK, ClientRecord, IdleClient
<1> DEFINE new == [client[c] EXCEPT !.at = there]
<1>1. new \in ClientRecord /\ new.at = there /\ new.key = client[c].key
  BY <1>0 DEF ClientRecord
<1>2. /\ client[c].at = here
      /\ client' = [client EXCEPT ![c] = IF there = "idle" THEN IdleClient ELSE new]
  BY DEF GoOn
<1>. HIDE DEF new
<1>3. CASE there = "idle"
  BY <1>0, <1>2, <1>3 DEF IdleClient
<1>4. CASE there # "idle"
  BY <1>0, <1>1, <1>2, <1>4
<1>. QED  BY <1>3, <1>4

\* What an entry that has counted n has let through.
Admitted(n) == IF n <= Limit THEN n ELSE Limit

\* Since its EXPIRE, and at least for the current tick, an entry answers alone for what
\* was let through; before that at most one other entry did.
WindowsFit ==
    \A k \in Keys, a \in Ages :
        /\ recent[k][a] <= Admitted(counter[k]) + Limit
        /\ a = 0 \/ (ttl[k] > 0 /\ a <= Window - ttl[k]) => recent[k][a] <= Admitted(counter[k])

\* The inductive invariant: LimiterTypeOK is not inductive alone, since Stop adds
\* the key of the request to unarmed, nor AdmissionRate without WindowsFit.
LimiterInv == LimiterTypeOK /\ Named /\ CounterExpires /\ WindowsFit

LEMMA LimiterBegins == LimiterInit => LimiterInv
<1>1. LimiterInit => LimiterTypeOK
  BY LimiterAssumption DEF LimiterInit, LimiterTypeOK, IdleClient, Ages
<1>2. LimiterInit => Named /\ CounterExpires
  BY DEF LimiterInit, Named, CounterExpires, IdleClient
<1>3. LimiterInit => WindowsFit
  BY LimiterAssumption DEF LimiterInit, WindowsFit, Admitted, Ages
<1>. QED  BY <1>1, <1>2, <1>3 DEF LimiterInv

\* The limiter's numbers of a key.
LEMMA LimiterNumbers ==
    ASSUME LimiterTypeOK, NEW k \in Keys
    PROVE  /\ counter[k] \in Nat /\ ttl[k] \in 0..Window
           /\ \A a \in Ages : recent[k][a] \in Nat /\ a \in Int
           /\ 0 \in Ages /\ Window - 1 \in Ages
           /\ Limit \in Nat /\ Window \in Nat
BY LimiterAssumption DEF LimiterTypeOK, Ages

LEMMA IncrKeeps ==
    ASSUME LimiterInv, NEW c \in Clients, Incr(c)
    PROVE  LimiterInv'
<1>0. LimiterTypeOK /\ Named /\ CounterExpires /\ WindowsFit
  BY DEF LimiterInv
<1>1. PICK k \in Keys :
         /\ client[c].key = k
         /\ counter[k] < CounterBound
         /\ GoOn(c, "count", IF counter[k] + 1 = 1 THEN "expire"
                             ELSE IF counter[k] + 1 <= Limit THEN "touch" ELSE "idle")
         /\ counter' = [counter EXCEPT ![k] = counter[k] + 1]
         /\ recent' = IF counter[k] + 1 <= Limit
                      THEN [recent EXCEPT ![k] = [a \in Ages |-> recent[k][a] + 1]]
                      ELSE recent
         /\ UNCHANGED <<live, ttl, unarmed>>
  BY DEF Incr
<1> DEFINE there == IF counter[k] + 1 = 1 THEN "expire"
                    ELSE IF counter[k] + 1 <= Limit THEN "touch" ELSE "idle"
<1>2. /\ client' \in [Clients -> ClientRecord] /\ client[c].at = "count"
      /\ client'[c].at = there /\ (there # "idle" => client'[c].key = k)
      /\ \A d \in Clients : d # c => client'[d] = client[d]
  <2>1. there \in {"idle", "count", "expire", "touch", "next"} /\ GoOn(c, "count", there)
    BY <1>1
  <2>. HIDE DEF there
  <2>. QED  BY <1>0, <1>1, <2>1, ClientTyped
<1>3. /\ counter' \in [Keys -> 0..CounterBound] /\ counter'[k] = counter[k] + 1
      /\ counter[k] \in Nat /\ \A l \in Keys : l # k => counter'[l] = counter[l]
  BY <1>0, <1>1, LimiterAssumption DEF LimiterTypeOK
<1>4. /\ recent' \in [Keys -> [Ages -> Nat]]
      /\ \A l \in Keys : l # k => recent'[l] = recent[l]
      /\ \A a \in Ages : recent'[k][a] = IF counter[k] + 1 <= Limit THEN recent[k][a] + 1
                                                                     ELSE recent[k][a]
  <2>1. recent \in [Keys -> [Ages -> Nat]]
    BY <1>0 DEF LimiterTypeOK
  <2> DEFINE row == [a \in Ages |-> recent[k][a] + 1]
  <2>2. row \in [Ages -> Nat] /\ \A a \in Ages : row[a] = recent[k][a] + 1
    BY <2>1
  <2>3. recent' = IF counter[k] + 1 <= Limit THEN [recent EXCEPT ![k] = row] ELSE recent
    BY <1>1
  <2>. HIDE DEF row
  <2>. QED  BY <2>1, <2>2, <2>3
<1>5. LimiterTypeOK'
  BY <1>0, <1>1, <1>2, <1>3, <1>4 DEF LimiterTypeOK, ClientRecord
<1>6. Named'
  BY <1>0, <1>2 DEF Named
<1>7. CounterExpires'
  <2>. SUFFICES ASSUME NEW l \in Keys, counter'[l] > 0, ttl'[l] = 0
                PROVE  \/ l \in unarmed'
                       \/ \E d \in Clients : client'[d].at = "expire" /\ client'[d].key = l
    BY DEF CounterExpires
  <2>1. CASE l = k /\ counter[k] = 0
    <3>1. client'[c].at = "expire" /\ client'[c].key = l
      BY <1>2, <2>1
    <3>. QED  BY <3>1
  <2>2. CASE ~ (l = k /\ counter[k] = 0)
    <3>1. counter[l] > 0 /\ ttl[l] = 0
      BY <1>1, <1>3, <2>2
    <3>2. l \in unarmed \/ \E d \in Clients : client[d].at = "expire" /\ client[d].key = l
      BY <1>0, <3>1 DEF CounterExpires
    <3>. QED  BY <1>1, <1>2, <3>2
  <2>. QED  BY <2>1, <2>2
<1>8. WindowsFit'
  <2>. SUFFICES ASSUME NEW l \in Keys, NEW a \in Ages
                PROVE  /\ recent'[l][a] <= Admitted(counter'[l]) + Limit
                       /\ a = 0 \/ (ttl'[l] > 0 /\ a <= Window - ttl'[l]) =>
                              recent'[l][a] <= Admitted(counter'[l])
    BY DEF WindowsFit
  <2>1. /\ recent[l][a] <= Admitted(counter[l]) + Limit
        /\ a = 0 \/ (ttl[l] > 0 /\ a <= Window - ttl[l]) => recent[l][a] <= Admitted(counter[l])
    BY <1>0 DEF WindowsFit
  <2>2. CASE l # k
    BY <1>1, <1>3, <1>4, <2>1, <2>2
  <2>3. CASE l = k
    <3>1. ttl' = ttl /\ counter'[l] = counter[l] + 1
          /\ recent'[l][a] = IF counter[l] + 1 <= Limit THEN recent[l][a] + 1 ELSE recent[l][a]
      BY <1>1, <1>3, <1>4, <2>3
    <3>2. counter[l] \in Nat /\ recent[l][a] \in Nat /\ Limit \in Nat
      BY <1>0, LimiterNumbers
    <3>3. /\ Admitted(counter'[l]) = IF counter[l] + 1 <= Limit THEN Admitted(counter[l]) + 1
                                                              ELSE Admitted(counter[l])
          /\ Admitted(counter[l]) \in Nat
      BY <3>1, <3>2 DEF Admitted
    <3>. QED  BY <2>1, <3>1, <3>2, <3>3
  <2>. QED  BY <2>2, <2>3
<1>. QED  BY <1>5, <1>6, <1>7, <1>8 DEF LimiterInv

\* EXPIRE arms the entry of its key, or there is none to arm.
LEMMA ExpireKeeps ==
    ASSUME LimiterInv, NEW c \in Clients, Expire(c)
    PROVE  LimiterInv'
<1>0. LimiterTypeOK /\ Named /\ CounterExpires /\ WindowsFit
  BY DEF LimiterInv
<1>1. PICK k \in Keys :
         /\ client[c].key = k
         /\ GoOn(c, "expire", "touch")
         /\ ttl' = IF counter[k] > 0 THEN [ttl EXCEPT ![k] = Window] ELSE ttl
         /\ UNCHANGED <<live, counter, recent, unarmed>>
  BY DEF Expire
<1>2. /\ client' \in [Clients -> ClientRecord] /\ client'[c].at = "touch"
      /\ client'[c].key = k /\ \A d \in Clients : d # c => client'[d] = client[d]
  BY <1>0, <1>1, ClientTyped
<1>3. /\ ttl' \in [Keys -> 0..Window] /\ \A l \in Keys : l # k => ttl'[l] = ttl[l]
      /\ counter[k] > 0 => ttl'[k] > 0
  BY <1>0, <1>1, LimiterAssumption DEF LimiterTypeOK
<1>4. LimiterTypeOK'
  BY <1>0, <1>1, <1>2, <1>3 DEF LimiterTypeOK, ClientRecord
<1>5. Named'
  BY <1>0, <1>2 DEF Named
<1>6. CounterExpires'
  <2>. SUFFICES ASSUME NEW l \in Keys, counter'[l] > 0, ttl'[l] = 0
                PROVE  \/ l \in unarmed'
                       \/ \E d \in Clients : client'[d].at = "expire" /\ client'[d].key = l
    BY DEF CounterExpires
  <2>1. l # k /\ counter[l] > 0 /\ ttl[l] = 0
    BY <1>1, <1>3
  <2>2. l \in unarmed \/ \E d \in Clients : client[d].at = "expire" /\ client[d].key = l
    BY <1>0, <2>1 DEF CounterExpires
  <2>. QED  BY <1>1, <1>2, <2>1, <2>2
<1>7. WindowsFit'
  <2>. SUFFICES ASSUME NEW l \in Keys, NEW a \in Ages
                PROVE  /\ recent'[l][a] <= Admitted(counter'[l]) + Limit
                       /\ a = 0 \/ (ttl'[l] > 0 /\ a <= Window - ttl'[l]) =>
                              recent'[l][a] <= Admitted(counter'[l])
    BY DEF WindowsFit
  <2>1. /\ recent[l][a] <= Admitted(counter[l]) + Limit
        /\ a = 0 \/ (ttl[l] > 0 /\ a <= Window - ttl[l]) => recent[l][a] <= Admitted(counter[l])
    BY <1>0 DEF WindowsFit
  <2>2. a \in Int /\ 0 <= a /\ Window \in Nat
    BY LimiterAssumption DEF Ages
  <2>3. ttl'[l] = ttl[l] \/ ttl'[l] = Window
    BY <1>0, <1>1 DEF LimiterTypeOK
  <2>. QED  BY <1>1, <2>1, <2>2, <2>3
<1>. QED  BY <1>4, <1>5, <1>6, <1>7 DEF LimiterInv

LEMMA ServeKeeps ==
    ASSUME LimiterInv, NEW c \in Clients, TouchAPIKeyLastUsed(c) \/ ServeHTTP(c)
    PROVE  LimiterInv'
<1>0. /\ LimiterTypeOK /\ Named /\ CounterExpires /\ WindowsFit
      /\ UNCHANGED <<live, counter, ttl, recent, unarmed>>
  BY DEF LimiterInv, TouchAPIKeyLastUsed, ServeHTTP
<1>1. /\ client' \in [Clients -> ClientRecord] /\ client[c].at \in {"touch", "next"}
      /\ client'[c].at \in {"next", "idle"}
      /\ client'[c].at # "idle" => client'[c].key = client[c].key
      /\ \A d \in Clients : d # c => client'[d] = client[d]
  BY <1>0, ClientTyped DEF TouchAPIKeyLastUsed, ServeHTTP
<1>2. LimiterTypeOK'
  BY <1>0, <1>1 DEF LimiterTypeOK, ClientRecord
<1>3. Named'
  BY <1>0, <1>1 DEF Named
<1>4. CounterExpires' /\ WindowsFit'
  BY <1>0, <1>1 DEF CounterExpires, WindowsFit
<1>. QED  BY <1>2, <1>3, <1>4 DEF LimiterInv

LEMMA StopKeeps ==
    ASSUME LimiterInv, NEW c \in Clients, Stop(c)
    PROVE  LimiterInv'
<1>0. /\ LimiterTypeOK /\ Named /\ CounterExpires /\ WindowsFit
      /\ UNCHANGED <<live, counter, ttl, recent>>
      /\ unarmed' = IF client[c].at = "expire" THEN unarmed \cup {client[c].key} ELSE unarmed
      /\ client[c].key \in Keys
  BY DEF LimiterInv, Stop, Named
<1>1. /\ client' \in [Clients -> ClientRecord] /\ client'[c].at = "idle"
      /\ \A d \in Clients : d # c => client'[d] = client[d]
  BY <1>0, ClientTyped DEF Stop
<1>2. LimiterTypeOK'
  BY <1>0, <1>1 DEF LimiterTypeOK, ClientRecord
<1>3. Named'
  BY <1>0, <1>1 DEF Named
<1>4. CounterExpires' /\ WindowsFit'
  BY <1>0, <1>1 DEF CounterExpires, WindowsFit
<1>. QED  BY <1>2, <1>3, <1>4 DEF LimiterInv

\* An entry that expires goes together with its count.
LEMMA TickKeeps ==
    ASSUME LimiterInv, Tick
    PROVE  LimiterInv'
<1>0. LimiterTypeOK /\ Named /\ CounterExpires /\ WindowsFit
  BY DEF LimiterInv
<1>1. recent' \in [Keys -> [Ages -> Nat]]
  <2>1. \A a \in Ages : a # 0 => a - 1 \in Ages
    BY LimiterAssumption DEF Ages
  <2>. QED  BY <1>0, <2>1 DEF Tick, LimiterTypeOK
<1>2. /\ counter' \in [Keys -> 0..CounterBound] /\ ttl' \in [Keys -> 0..Window]
      /\ \A k \in Keys : ttl'[k] = 0 => ttl[k] = 0 \/ counter'[k] = 0
      /\ \A k \in Keys : counter'[k] > 0 => counter[k] > 0
  BY <1>0, LimiterAssumption DEF Tick, LimiterTypeOK
<1>3. LimiterTypeOK'
  BY <1>0, <1>1, <1>2 DEF Tick, LimiterTypeOK
<1>4. Named' /\ CounterExpires'
  BY <1>0, <1>2 DEF Tick, Named, CounterExpires
<1>5. WindowsFit'
  <2>. SUFFICES ASSUME NEW k \in Keys, NEW a \in Ages
                PROVE  /\ recent'[k][a] <= Admitted(counter'[k]) + Limit
                       /\ a = 0 \/ (ttl'[k] > 0 /\ a <= Window - ttl'[k]) =>
                              recent'[k][a] <= Admitted(counter'[k])
    BY DEF WindowsFit
  <2>1. /\ counter[k] \in Nat /\ ttl[k] \in Nat /\ ttl[k] <= Window /\ Limit \in Nat /\ Window \in Nat
        /\ a \in Nat /\ a <= Window - 1 /\ Admitted(0) = 0
    BY <1>0, LimiterNumbers DEF Ages, Admitted
  <2>2. /\ recent'[k][a] = IF a = 0 THEN 0 ELSE recent[k][a - 1]
        /\ ttl'[k] = IF ttl[k] > 0 THEN ttl[k] - 1 ELSE 0
        /\ counter'[k] = IF ttl[k] = 1 THEN 0 ELSE counter[k]
    BY DEF Tick
  <2>3. Admitted(counter[k]) \in Nat /\ Admitted(counter[k]) <= Limit
    BY <2>1 DEF Admitted
  <2>4. CASE a = 0
    BY <2>1, <2>2, <2>3, <2>4
  <2>5. CASE a # 0
    <3>1. a - 1 \in Ages /\ recent[k][a - 1] \in Nat
      BY <1>0, <2>1, <2>5, LimiterNumbers DEF Ages
    <3>2. /\ recent[k][a - 1] <= Admitted(counter[k]) + Limit
          /\ ttl[k] > 0 /\ a - 1 <= Window - ttl[k] => recent[k][a - 1] <= Admitted(counter[k])
      BY <1>0, <3>1 DEF WindowsFit
    <3>. QED  BY <2>1, <2>2, <2>3, <2>5, <3>1, <3>2
  <2>. QED  BY <2>4, <2>5
<1>. QED  BY <1>3, <1>4, <1>5 DEF LimiterInv

LEMMA LimiterKept ==
    ASSUME LimiterInv, [LimiterNext]_limiterVars
    PROVE  LimiterInv'
<1>0. LimiterTypeOK /\ Named /\ CounterExpires /\ WindowsFit
  BY DEF LimiterInv
<1>1. ASSUME NEW k \in Keys, CreateKey(k) \/ DeleteKey(k) PROVE LimiterInv'
  BY <1>0, <1>1 DEF CreateKey, DeleteKey, LimiterTypeOK, Named, CounterExpires, WindowsFit, LimiterInv
<1>2. ASSUME NEW c \in Clients, NEW k \in Keys, Authenticate(c, k) PROVE LimiterInv'
  <2>1. /\ client' \in [Clients -> ClientRecord] /\ client'[c].at = "count"
        /\ client'[c].key = k /\ \A d \in Clients : d # c => client'[d] = client[d]
        /\ client[c].at = "idle" /\ UNCHANGED <<live, counter, ttl, recent, unarmed>>
    BY <1>0, <1>2 DEF Authenticate, LimiterTypeOK, ClientRecord
  <2>2. LimiterTypeOK' /\ Named'
    BY <1>0, <2>1 DEF LimiterTypeOK, ClientRecord, Named
  <2>3. CounterExpires' /\ WindowsFit'
    BY <1>0, <2>1 DEF CounterExpires, WindowsFit
  <2>. QED  BY <2>2, <2>3 DEF LimiterInv
<1>3. CASE UNCHANGED limiterVars
  BY <1>0, <1>3 DEF limiterVars, LimiterTypeOK, Named, CounterExpires, WindowsFit, LimiterInv
<1>. QED  BY <1>1, <1>2, <1>3, IncrKeeps, ExpireKeeps, ServeKeeps, StopKeeps, TickKeeps
          DEF LimiterNext

\* A counter of the rate limiter that will never expire is the doing of a request
\* that stopped between INCR and EXPIRE, or is about to get its EXPIRE; and no span of
\* one window lets more than twice the limit through, however late that EXPIRE (Allow in
\* ratelimit.go).
THEOREM LimiterHolds == LimiterSpec => []LimiterSound
<1>1. ASSUME LimiterInv
      PROVE  LimiterSound
  <2>. SUFFICES ASSUME NEW k \in Keys PROVE recent[k][Window - 1] <= 2 * Limit
    BY <1>1 DEF LimiterInv, LimiterSound, AdmissionRate
  <2>1. /\ counter[k] \in Nat /\ Limit \in Nat /\ Window - 1 \in Ages
        /\ recent[k][Window - 1] \in Nat
    BY <1>1, LimiterNumbers DEF LimiterInv
  <2>2. recent[k][Window - 1] <= Admitted(counter[k]) + Limit
    BY <1>1, <2>1 DEF LimiterInv, WindowsFit
  <2>. QED  BY <2>1, <2>2 DEF Admitted
<1>. QED  BY <1>1, LimiterBegins, LimiterKept, PTL DEF LimiterSpec

----------------------------------------------------------------------------
(***************************************************************************)
(* The subscribers and the sends.                                          *)
(***************************************************************************)
LEMMA NothingIsContact ==
    Nothing \in Contacts /\ IdleSender \in SenderRecord /\ NoPerson \in Person
<1>1. Nothing \in Contacts
  BY DEF Nothing, Contacts
<1>2. IdleSender \in SenderRecord
  BY <1>1 DEF IdleSender, SenderRecord
<1>3. NoPerson \in Person
  BY <1>1 DEF NoPerson, Person
<1>. QED  BY <1>1, <1>2, <1>3

LEMMA LiveRowTyped ==
    ASSUME NEW c \in Contacts
    PROVE  /\ LiveRow(c) \in Person /\ LiveRow(c).state = "live"
           /\ LiveRow(c).contact = c /\ LiveRow(c).channels = Reachable(c)
BY DEF LiveRow, Person, Reachable

\* ptr.Coalesce takes each contact from one of two rows.
LEMMA CoalesceTyped ==
    ASSUME NEW to \in Contacts, NEW stored \in Contacts
    PROVE  /\ Coalesce(to, stored) \in Contacts
           /\ \A m \in Media : Coalesce(to, stored)[m] =
                                  IF to[m] # NoContact THEN to[m] ELSE stored[m]
           /\ to # Nothing => Coalesce(to, stored) # Nothing
<1>1. /\ to \in [Media -> (UNION {Addresses[m] : m \in Media}) \cup {NoContact}]
      /\ stored \in [Media -> (UNION {Addresses[m] : m \in Media}) \cup {NoContact}]
      /\ \A m \in Media : to[m] \in Addresses[m] \cup {NoContact}
      /\ \A m \in Media : stored[m] \in Addresses[m] \cup {NoContact}
  BY DEF Contacts
<1>2. \A m \in Media : Coalesce(to, stored)[m] =
                          IF to[m] # NoContact THEN to[m] ELSE stored[m]
  BY DEF Coalesce
<1>3. Coalesce(to, stored) \in Contacts
  BY <1>1 DEF Coalesce, Contacts
<1>4. to # Nothing => \E m \in Media : to[m] # NoContact
  BY <1>1 DEF Nothing
<1>5. to # Nothing => Coalesce(to, stored) # Nothing
  BY <1>2, <1>4 DEF Nothing
<1>. QED  BY <1>2, <1>3, <1>5

\* The users row has an e-mail address.
LEMMA UserContactTyped == UserContact \in Contacts
<1>1. PICK a \in Addresses["email"] : TRUE
  BY SubscribersAssumption
<1> DEFINE c == [m \in Media |-> IF m = "email" THEN a ELSE NoContact]
<1>2. c \in Contacts
  BY <1>1, SubscribersAssumption DEF Contacts
<1>3. Reachable(c) = {"email"}
  BY <1>1, SubscribersAssumption DEF Reachable
<1>. QED  BY <1>2, <1>3 DEF UserContact

\* A send goes on, and the others at work on row i have been overtaken.
LEMMA DisturbMeans ==
    ASSUME SubscriberTypeOK, NEW s \in Senders, NEW new \in SenderRecord, NEW i,
           Disturb(s, new, i)
    PROVE  /\ sender' \in [Senders -> SenderRecord]
           /\ sender'[s] = new
           /\ \A r \in Senders \ {s} :
                 /\ i = 0 \/ sender[r].id # i => sender'[r] = sender[r]
                 /\ i # 0 /\ sender[r].id = i =>
                       sender'[r] = [sender[r] EXCEPT !.disturbed = TRUE]
<1>1. \A r \in Senders : /\ sender[r] \in SenderRecord
                         /\ [sender[r] EXCEPT !.disturbed = TRUE] \in SenderRecord
  BY DEF SubscriberTypeOK, SenderRecord
<1>2. /\ sender' = [r \in Senders |->
            CASE r = s -> new
              [] r # s /\ i # 0 /\ sender[r].id = i -> [sender[r] EXCEPT !.disturbed = TRUE]
              [] OTHER -> sender[r]]
  BY DEF Disturb
<1>3. sender'[s] = new
  BY <1>2
<1>4. ASSUME NEW r \in Senders \ {s}
      PROVE  /\ i = 0 \/ sender[r].id # i => sender'[r] = sender[r]
             /\ i # 0 /\ sender[r].id = i =>
                   sender'[r] = [sender[r] EXCEPT !.disturbed = TRUE]
  BY <1>2
<1>5. sender' \in [Senders -> SenderRecord]
  <2>1. \A r \in Senders : sender'[r] \in SenderRecord
    BY <1>1, <1>3, <1>4
  <2>. QED  BY <1>2, <2>1
<1>. QED  BY <1>3, <1>4, <1>5

\* The contacts of a recipient: each channel of the job has an address, and a
\* recipient nobody else wrote has the addresses the request names.
Reached(q) ==
    \A m \in q.wants :
       /\ q.seen[m] # NoContact
       /\ q.to[m] # NoContact /\ q.kind # "system" /\ ~ q.disturbed => q.seen[m] = q.to[m]

\* A send refers to a row that was created; unless somebody wrote that row since,
\* it is as the send read it, and holds the contacts the request names.
Sending(s) ==
    LET q == sender[s]
    IN  /\ q.at \in {"get", "update", "address"} =>
              q.id \in Persons /\ person[q.id].state # "none"
        /\ q.at \in {"update", "address"} /\ ~ q.disturbed =>
              person[q.id].state = "live" /\ person[q.id].contact = q.seen
        /\ q.at = "update" => q.to # Nothing
        /\ q.at = "address" /\ ~ q.disturbed =>
              \A m \in Media : q.to[m] # NoContact => q.seen[m] = q.to[m]
        /\ q.at = "enqueue" => Reached(q)

SubscriberInv == SubscriberTypeOK /\ \A s \in Senders : Sending(s)

\* What a step of somebody else does to a send.
LEMMA SendingFrame ==
    ASSUME SubscriberTypeOK, NEW r \in Senders, Sending(r),
           \A j \in Persons : person[j].state # "none" => person'[j].state # "none",
           \/ /\ sender'[r] = sender[r]
              /\ \A j \in Persons : sender[r].id = j /\ person[j].state # "none" =>
                    person'[j] = person[j]
           \/ sender'[r] = [sender[r] EXCEPT !.disturbed = TRUE]
    PROVE  Sending(r)'
<1>0. sender[r] \in SenderRecord
  BY DEF SubscriberTypeOK
<1>1. CASE /\ sender'[r] = sender[r]
           /\ \A j \in Persons : sender[r].id = j /\ person[j].state # "none" =>
                 person'[j] = person[j]
  BY <1>1 DEF Sending, Reached
<1>2. CASE sender'[r] = [sender[r] EXCEPT !.disturbed = TRUE]
  <2>1. /\ sender'[r].at = sender[r].at /\ sender'[r].id = sender[r].id
        /\ sender'[r].to = sender[r].to /\ sender'[r].seen = sender[r].seen
        /\ sender'[r].wants = sender[r].wants /\ sender'[r].kind = sender[r].kind
        /\ sender'[r].disturbed
    BY <1>0, <1>2 DEF SenderRecord
  <2>. QED  BY <2>1 DEF Sending, Reached
<1>. QED  BY <1>1, <1>2

\* A step of s that writes row i, or none (0), keeps the sends of the others.
LEMMA OthersKept ==
    ASSUME SubscriberInv, NEW s \in Senders, NEW new \in SenderRecord, NEW i,
           Disturb(s, new, i),
           \A j \in Persons : i = 0 \/ j # i => person'[j] = person[j],
           i # 0 => i \in Persons /\ person'[i].state # "none",
           NEW r \in Senders \ {s}
    PROVE  Sending(r)'
<1>1. SubscriberTypeOK /\ Sending(r)
  BY DEF SubscriberInv
<1>2. /\ i = 0 \/ sender[r].id # i => sender'[r] = sender[r]
      /\ i # 0 /\ sender[r].id = i => sender'[r] = [sender[r] EXCEPT !.disturbed = TRUE]
  BY <1>1, DisturbMeans
<1>3. \A j \in Persons : person[j].state # "none" => person'[j].state # "none"
  OBVIOUS
<1>. QED  BY <1>1, <1>2, <1>3, SendingFrame

\* The same for a step that writes no row.
LEMMA ProceedKeeps ==
    ASSUME SubscriberInv, NEW s \in Senders, NEW new \in SenderRecord, Proceed(s, new),
           person' = person,
           new.at \in {"get", "update", "address"} =>
              new.id \in Persons /\ person[new.id].state # "none",
           new.at \in {"update", "address"} /\ ~ new.disturbed =>
              person[new.id].state = "live" /\ person[new.id].contact = new.seen,
           new.at = "update" => new.to # Nothing,
           new.at = "address" /\ ~ new.disturbed =>
              \A m \in Media : new.to[m] # NoContact => new.seen[m] = new.to[m],
           new.at = "enqueue" => Reached(new)
    PROVE  SubscriberInv'
<1>1. Disturb(s, new, 0) /\ SubscriberTypeOK
  BY DEF Proceed, SubscriberInv
<1>2. sender' \in [Senders -> SenderRecord] /\ sender'[s] = new
  BY <1>1, DisturbMeans
<1>3. SubscriberTypeOK'
  BY <1>1, <1>2 DEF SubscriberTypeOK
<1>4. ASSUME NEW r \in Senders PROVE Sending(r)'
  <2>1. CASE r = s
    BY <1>2, <2>1 DEF Sending, Reached
  <2>2. CASE r # s
    BY <1>1, <2>2, OthersKept
  <2>. QED  BY <2>1, <2>2
<1>. QED  BY <1>3, <1>4 DEF SubscriberInv

LEMMA SubscriberBegins == SubscriberInit => SubscriberInv
<1>. SUFFICES ASSUME SubscriberInit PROVE SubscriberInv
  OBVIOUS
<1>1. SubscriberTypeOK
  BY NothingIsContact DEF SubscriberInit, SubscriberTypeOK, NoPerson
<1>2. \A s \in Senders : Sending(s)
  BY DEF SubscriberInit, Sending, IdleSender
<1>. QED  BY <1>1, <1>2 DEF SubscriberInv

LEMMA LeaveKeeps ==
    ASSUME SubscriberInv, NEW s \in Senders, EnqueuePrepared(s) \/ PrepareFails(s)
    PROVE  SubscriberInv'
<1>1. Proceed(s, IdleSender) /\ person' = person
  BY DEF EnqueuePrepared, PrepareFails
<1>2. IdleSender.at = "idle" /\ IdleSender \in SenderRecord
  BY NothingIsContact DEF IdleSender
<1>. QED  BY <1>1, <1>2, ProceedKeeps

LEMMA PrepareKeeps ==
    ASSUME SubscriberInv, NEW s \in Senders, NEW kind \in {"direct", "workflow", "system"},
           NEW i \in Persons \cup {0}, NEW c \in Contacts, NEW wants \in Asks,
           PrepareJob(s, kind, i, c, wants)
    PROVE  SubscriberInv'
<1> DEFINE new == [IdleSender EXCEPT !.at = IF i = 0 THEN "create" ELSE "get",
                                     !.kind = kind, !.id = i, !.to = c, !.wants = wants]
<1>1. Proceed(s, new) /\ person' = person /\ (i # 0 => person[i].state # "none")
  BY DEF PrepareJob
<1>2. wants \subseteq Media
  BY SubscribersAssumption
<1>3. new \in SenderRecord /\ new.id = i /\ new.at = IF i = 0 THEN "create" ELSE "get"
  BY <1>2, NothingIsContact DEF IdleSender, SenderRecord
<1>. HIDE DEF new
<1>. QED  BY <1>1, <1>3, ProceedKeeps

LEMMA GetKeeps ==
    ASSUME SubscriberInv, NEW s \in Senders, GetSubscriberByID(s)
    PROVE  SubscriberInv'
<1> DEFINE q    == sender[s]
           row  == person[q.id]
           gone == [q EXCEPT !.at = "create", !.disturbed = FALSE]
           got  == [q EXCEPT !.at = IF q.to = Nothing THEN "address" ELSE "update",
                             !.seen = row.contact, !.disturbed = FALSE]
<1>1. /\ q.at = "get" /\ person' = person
      /\ Proceed(s, IF row.state # "live" THEN gone ELSE got)
  BY DEF GetSubscriberByID
<1>2. q \in SenderRecord /\ q.id \in Persons /\ row \in Person /\ row.state # "none"
  BY <1>1 DEF SubscriberInv, SubscriberTypeOK, Sending
<1>3. gone \in SenderRecord /\ gone.at = "create"
  BY <1>2 DEF SenderRecord
<1>4. /\ got \in SenderRecord /\ got.at = IF q.to = Nothing THEN "address" ELSE "update"
      /\ got.id = q.id /\ got.to = q.to /\ got.seen = row.contact
  BY <1>2 DEF SenderRecord, Person
<1>5. CASE row.state # "live"
  <2>1. Proceed(s, gone)
    BY <1>1, <1>5
  <2>. HIDE DEF gone
  <2>. QED  BY <1>1, <1>3, <2>1, ProceedKeeps
<1>6. CASE row.state = "live"
  <2>1. Proceed(s, got)
    BY <1>1, <1>6
  <2>2. q.to = Nothing => \A m \in Media : got.to[m] = NoContact
    BY <1>4 DEF Nothing
  <2>. HIDE DEF got
  <2>3. /\ got.at = "address" => \A m \in Media : got.to[m] = NoContact
        /\ got.at = "update" => got.to # Nothing
    BY <1>4, <2>2
  <2>4. got.id \in Persons /\ person[got.id].state = "live"
        /\ person[got.id].contact = got.seen /\ got.at \in {"address", "update"}
    BY <1>2, <1>4, <1>6
  <2>. HIDE DEF q, row
  <2>. QED  BY <1>1, <1>4, <2>1, <2>3, <2>4, ProceedKeeps
<1>. QED  BY <1>5, <1>6

\* s has written row i with contacts c and read them back.
LEMMA WriteKeeps ==
    ASSUME SubscriberInv, NEW s \in Senders, NEW new \in SenderRecord, NEW i \in Persons,
           NEW c \in Contacts \ {Nothing}, Disturb(s, new, i),
           person' = [person EXCEPT ![i] = LiveRow(c)],
           new.at = "address", new.id = i, new.seen = c,
           \A m \in Media : new.to[m] # NoContact => c[m] = new.to[m]
    PROVE  SubscriberInv'
<1>1. SubscriberTypeOK /\ i # 0
  BY SubscribersAssumption DEF SubscriberInv
<1>2. sender' \in [Senders -> SenderRecord] /\ sender'[s] = new
  BY <1>1, DisturbMeans
<1>3. /\ person' \in [Persons -> Person]
      /\ person'[i] = LiveRow(c) /\ \A j \in Persons : j # i => person'[j] = person[j]
  BY <1>1, LiveRowTyped DEF SubscriberTypeOK
<1>4. SubscriberTypeOK'
  <2>1. /\ person'[i].state = "live" /\ person'[i].contact = c
        /\ person'[i].channels = Reachable(c)
    BY <1>3, LiveRowTyped
  <2>2. ASSUME NEW j \in Persons, person'[j].state # "none"
        PROVE  person'[j].contact # Nothing /\ person'[j].channels = Reachable(person'[j].contact)
    BY <1>1, <1>3, <2>1, <2>2 DEF SubscriberTypeOK
  <2>. QED  BY <1>2, <1>3, <2>2 DEF SubscriberTypeOK
<1>5. person'[i].state = "live" /\ person'[i].contact = c
  BY <1>3, LiveRowTyped
<1>6. ASSUME NEW r \in Senders PROVE Sending(r)'
  <2>1. CASE r = s
    BY <1>2, <1>5, <2>1 DEF Sending
  <2>2. CASE r # s
    BY <1>1, <1>3, <1>5, <2>2, OthersKept
  <2>. QED  BY <2>1, <2>2
<1>. QED  BY <1>4, <1>6 DEF SubscriberInv

LEMMA UpdateKeeps ==
    ASSUME SubscriberInv, NEW s \in Senders, UpdateSubscriber(s)
    PROVE  SubscriberInv'
<1> DEFINE q       == sender[s]
           contact == Coalesce(q.to, q.seen)
           done    == [q EXCEPT !.at = "address", !.seen = contact, !.disturbed = FALSE]
           gone    == [q EXCEPT !.at = "create"]
<1>1. /\ q.at = "update"
      /\ \/ /\ person[q.id].state = "live"
            /\ person' = [person EXCEPT ![q.id] = LiveRow(contact)]
            /\ Disturb(s, done, q.id)
         \/ Proceed(s, gone) /\ person' = person
  BY DEF UpdateSubscriber
<1>2. /\ q \in SenderRecord /\ q.id \in Persons /\ q.to \in Contacts /\ q.seen \in Contacts
  BY <1>1 DEF SubscriberInv, SubscriberTypeOK, Sending, SenderRecord
<1>3. gone \in SenderRecord /\ gone.at = "create"
  BY <1>2 DEF SenderRecord
<1>4. CASE Proceed(s, gone) /\ person' = person
  <2>. HIDE DEF gone
  <2>. QED  BY <1>3, <1>4, ProceedKeeps
<1>5. CASE /\ person[q.id].state = "live"
           /\ person' = [person EXCEPT ![q.id] = LiveRow(contact)]
           /\ Disturb(s, done, q.id)
  <2>1. /\ contact \in Contacts
        /\ \A m \in Media : q.to[m] # NoContact => contact[m] = q.to[m]
    BY <1>2, CoalesceTyped
  <2>2. done \in SenderRecord /\ done.at = "address" /\ done.id = q.id
        /\ done.seen = contact /\ done.to = q.to
    <3>. HIDE DEF contact
    <3>. QED  BY <1>2, <2>1 DEF SenderRecord
  <2>3. contact # Nothing
    <3>1. q.to # Nothing
      BY <1>1 DEF SubscriberInv, Sending
    <3>. QED  BY <1>2, <3>1, CoalesceTyped
  <2>4. /\ contact \in Contacts \ {Nothing}
        /\ \A m \in Media : done.to[m] # NoContact => contact[m] = done.to[m]
    BY <2>1, <2>2, <2>3
  <2>5. Disturb(s, done, q.id) /\ person' = [person EXCEPT ![q.id] = LiveRow(contact)]
    BY <1>5
  <2>. HIDE DEF contact, done, q
  <2>. QED  BY <1>2, <2>2, <2>4, <2>5, WriteKeeps
<1>. QED  BY <1>1, <1>4, <1>5

LEMMA CreateKeeps ==
    ASSUME SubscriberInv, NEW s \in Senders, CreateSubscriber(s)
    PROVE  SubscriberInv'
<1> DEFINE q == sender[s]
<1>1. q \in SenderRecord /\ q.to \in Contacts
  BY DEF SubscriberInv, SubscriberTypeOK, SenderRecord
<1>2. CASE Proceed(s, IdleSender) /\ person' = person
  <2>1. IdleSender.at = "idle" /\ IdleSender \in SenderRecord
    BY NothingIsContact DEF IdleSender
  <2>. QED  BY <1>2, <2>1, ProceedKeeps
<1>3. ASSUME NEW i \in Persons, q.to # Nothing, person' = [person EXCEPT ![i] = LiveRow(q.to)],
             Disturb(s, [q EXCEPT !.at = "address", !.id = i, !.seen = q.to,
                                  !.disturbed = FALSE], i)
      PROVE  SubscriberInv'
  <2> DEFINE new == [q EXCEPT !.at = "address", !.id = i, !.seen = q.to, !.disturbed = FALSE]
             c == q.to
  <2>1. /\ new \in SenderRecord /\ new.at = "address" /\ new.id = i /\ new.seen = c
        /\ \A m \in Media : new.to[m] # NoContact => c[m] = new.to[m]
    BY <1>1 DEF SenderRecord
  <2>2. /\ Disturb(s, new, i) /\ person' = [person EXCEPT ![i] = LiveRow(c)]
        /\ c \in Contacts \ {Nothing}
    BY <1>1, <1>3
  <2>. HIDE DEF new, c, q
  <2>. QED  BY <2>1, <2>2, WriteKeeps
<1>. QED  BY <1>2, <1>3 DEF CreateSubscriber

\* The second read of a workflow send finds what the first left, unless somebody
\* wrote the row in between; a channel without an address is not delivered.
LEMMA AddressKeeps ==
    ASSUME SubscriberInv, NEW s \in Senders, AddressJob(s)
    PROVE  SubscriberInv'
<1> DEFINE q   == sender[s]
           row == person[q.id]
<1>1. /\ q \in SenderRecord /\ q.at = "address" /\ q.id \in Persons /\ row \in Person
      /\ ~ q.disturbed => /\ row.state = "live" /\ row.contact = q.seen
                          /\ \A m \in Media : q.to[m] # NoContact => q.seen[m] = q.to[m]
  BY DEF AddressJob, SubscriberInv, SubscriberTypeOK, Sending
<1>2. ASSUME NEW contact \in Contacts, Proceed(s, Addressed(q, contact)), person' = person,
             q.kind # "system" /\ ~ q.disturbed => contact = q.seen
      PROVE  SubscriberInv'
  <2> DEFINE new == Addressed(q, contact)
  <2>1. /\ new \in SenderRecord /\ new.at = "enqueue" /\ new.seen = contact
        /\ new.wants = q.wants \cap Reachable(contact) /\ new.to = q.to
        /\ new.kind = q.kind /\ new.disturbed = q.disturbed
    BY <1>1 DEF Addressed, SenderRecord
  <2>2. Reached(new)
    <3>. HIDE DEF new
    <3>1. \A m \in new.wants : m \in Media /\ contact[m] # NoContact
      BY <2>1 DEF Reachable
    <3>2. ASSUME NEW m \in new.wants, new.to[m] # NoContact, new.kind # "system",
                 ~ new.disturbed
          PROVE  new.seen[m] = new.to[m]
      <4>1. contact = q.seen /\ m \in Media /\ q.to[m] # NoContact /\ ~ q.disturbed
        BY <1>2, <2>1, <3>1, <3>2
      <4>. QED  BY <1>1, <2>1, <4>1
    <3>. QED  BY <2>1, <3>1, <3>2 DEF Reached
  <2>3. Proceed(s, new)
    BY <1>2
  <2>. HIDE DEF new, q
  <2>. QED  BY <1>2, <2>1, <2>2, <2>3, ProceedKeeps
<1>3. ASSUME Proceed(s, IdleSender), person' = person PROVE SubscriberInv'
  <2>1. IdleSender.at = "idle" /\ IdleSender \in SenderRecord
    BY NothingIsContact DEF IdleSender
  <2>. QED  BY <1>3, <2>1, ProceedKeeps
<1>4. /\ person' = person
      /\ \/ /\ q.kind = "workflow" /\ row.state = "live"
            /\ Proceed(s, Addressed(q, row.contact))
         \/ q.kind = "system" /\ Proceed(s, Addressed(q, UserContact))
         \/ q.kind = "direct" /\ Proceed(s, Addressed(q, q.seen))
         \/ Proceed(s, IdleSender)
  <2>1. AddressJob(s)
    OBVIOUS
  <2>. QED  BY <2>1 DEF AddressJob
<1>5. row.contact \in Contacts /\ q.seen \in Contacts /\ UserContact \in Contacts
  BY <1>1, UserContactTyped DEF Person, SenderRecord
<1>. HIDE DEF q, row
<1>6. CASE q.kind = "workflow" /\ row.state = "live" /\ Proceed(s, Addressed(q, row.contact))
  BY <1>1, <1>2, <1>4, <1>5, <1>6
<1>7. CASE q.kind = "system" /\ Proceed(s, Addressed(q, UserContact))
  BY <1>2, <1>4, <1>5, <1>7
<1>8. CASE q.kind = "direct" /\ Proceed(s, Addressed(q, q.seen))
  BY <1>2, <1>4, <1>5, <1>8
<1>. QED  BY <1>3, <1>4, <1>6, <1>7, <1>8

\* The dashboard creates rows no send knows, and overtakes those that know a row.
LEMMA DashboardKeeps ==
    ASSUME SubscriberInv, NEW i \in Persons, NEW c \in Contacts,
           \/ CreateInDashboard(i, c) \/ UpdateInDashboard(i, c) \/ DeleteInDashboard(i)
    PROVE  SubscriberInv'
<1>0. SubscriberTypeOK /\ person \in [Persons -> Person] /\ sender \in [Senders -> SenderRecord]
  BY DEF SubscriberInv, SubscriberTypeOK
<1>1. \E row \in Person :
         /\ person' = [person EXCEPT ![i] = row]
         /\ row.state # "none" /\ row.contact # Nothing
         /\ row.channels = Reachable(row.contact)
  <2>1. CASE CreateInDashboard(i, c) \/ UpdateInDashboard(i, c)
    BY <2>1, LiveRowTyped DEF CreateInDashboard, UpdateInDashboard
  <2>2. CASE DeleteInDashboard(i)
    <3> DEFINE row == [person[i] EXCEPT !.state = "deleted"]
    <3>1. /\ row \in Person /\ row.state = "deleted" /\ row.contact = person[i].contact
          /\ row.channels = person[i].channels
      BY <1>0 DEF Person
    <3>2. person' = [person EXCEPT ![i] = row] /\ person[i].state # "none"
      BY <2>2 DEF DeleteInDashboard
    <3>3. person[i].contact # Nothing /\ person[i].channels = Reachable(person[i].contact)
      BY <1>0, <3>2 DEF SubscriberTypeOK
    <3>. HIDE DEF row
    <3>. QED  BY <3>1, <3>2, <3>3
  <2>. QED  BY <2>1, <2>2
<1>2. \/ sender' = sender /\ person[i].state = "none"
      \/ Overtake(i)
  BY DEF CreateInDashboard, UpdateInDashboard, DeleteInDashboard, IsNew
<1>3. /\ person' \in [Persons -> Person] /\ person'[i].state # "none"
      /\ \A j \in Persons : j # i => person'[j] = person[j]
      /\ person'[i].contact # Nothing /\ person'[i].channels = Reachable(person'[i].contact)
  BY <1>0, <1>1
<1>4. ASSUME NEW r \in Senders
      PROVE  /\ sender'[r] \in SenderRecord
             /\ \/ /\ sender'[r] = sender[r]
                   /\ sender[r].id = i => person[i].state = "none"
                \/ sender'[r] = [sender[r] EXCEPT !.disturbed = TRUE]
  <2>1. [sender[r] EXCEPT !.disturbed = TRUE] \in SenderRecord /\ sender[r] \in SenderRecord
    BY <1>0 DEF SenderRecord
  <2>2. CASE sender' = sender /\ person[i].state = "none"
    BY <2>1, <2>2
  <2>3. CASE Overtake(i)
    BY <2>1, <2>3 DEF Overtake
  <2>. QED  BY <1>2, <2>2, <2>3
<1>5. sender' \in [Senders -> SenderRecord]
  <2>1. CASE sender' = sender
    BY <1>0, <2>1
  <2>2. CASE Overtake(i)
    BY <1>4, <2>2 DEF Overtake
  <2>. QED  BY <1>2, <2>1, <2>2
<1>6. SubscriberTypeOK'
  BY <1>0, <1>3, <1>5 DEF SubscriberTypeOK
<1>7. ASSUME NEW r \in Senders PROVE Sending(r)'
  <2>1. \A j \in Persons : person[j].state # "none" => person'[j].state # "none"
    BY <1>3
  <2>2. Sending(r)
    BY DEF SubscriberInv
  <2>3. \/ /\ sender'[r] = sender[r]
           /\ \A j \in Persons : sender[r].id = j /\ person[j].state # "none" =>
                 person'[j] = person[j]
        \/ sender'[r] = [sender[r] EXCEPT !.disturbed = TRUE]
    BY <1>3, <1>4
  <2>. QED  BY <1>0, <2>1, <2>2, <2>3, SendingFrame
<1>. QED  BY <1>6, <1>7 DEF SubscriberInv

LEMMA SubscriberKept ==
    ASSUME SubscriberInv, [SubscriberNext]_subscriberVars
    PROVE  SubscriberInv'
<1>1. CASE UNCHANGED subscriberVars
  BY <1>1 DEF subscriberVars, SubscriberInv, SubscriberTypeOK, Sending, Reached
<1>2. ASSUME NEW i \in Persons, DeleteInDashboard(i) PROVE SubscriberInv'
  BY <1>2, NothingIsContact, DashboardKeeps
<1>3. ASSUME NEW s \in Senders, PrepareStep(s) PROVE SubscriberInv'
  BY <1>3, GetKeeps, UpdateKeeps, CreateKeeps, AddressKeeps, LeaveKeeps DEF PrepareStep
<1>. QED  BY <1>1, <1>2, <1>3, PrepareKeeps, DashboardKeeps DEF SubscriberNext

\* Only its own UpdateSubscriber takes a send from its read to its addresses.
LEMMA OnlyOwnUpdate ==
    ASSUME SubscriberInv, SubscriberNext, NEW s \in Senders,
           sender[s].at = "update", sender'[s].at = "address"
    PROVE  UpdateSubscriber(s)
<1>0. /\ SubscriberTypeOK /\ sender \in [Senders -> SenderRecord]
      /\ IdleSender \in SenderRecord /\ IdleSender.at = "idle"
  BY NothingIsContact DEF SubscriberInv, SubscriberTypeOK, IdleSender
<1>1. ASSUME NEW i \in Persons, NEW c \in Contacts,
             CreateInDashboard(i, c) \/ UpdateInDashboard(i, c) \/ DeleteInDashboard(i)
      PROVE  FALSE
  <2>1. sender' = sender \/ Overtake(i)
    BY <1>1 DEF CreateInDashboard, UpdateInDashboard, DeleteInDashboard
  <2>2. sender'[s].at = sender[s].at
    BY <1>0, <2>1 DEF Overtake, SenderRecord
  <2>. QED  BY <2>2
<1>2. ASSUME NEW r \in Senders \ {s}, NEW new \in SenderRecord, NEW i, Disturb(r, new, i)
      PROVE  FALSE
  <2>1. sender'[s] = sender[s] \/ sender'[s] = [sender[s] EXCEPT !.disturbed = TRUE]
    BY <1>0, <1>2, DisturbMeans
  <2>2. sender'[s].at = sender[s].at
    BY <1>0, <2>1 DEF SenderRecord
  <2>. QED  BY <2>2
<1>3. ASSUME NEW r \in Senders, NEW kind \in {"direct", "workflow", "system"},
             NEW i \in Persons \cup {0}, NEW c \in Contacts, NEW wants \in Asks,
             PrepareJob(r, kind, i, c, wants)
      PROVE  FALSE
  <2> DEFINE new == [IdleSender EXCEPT !.at = IF i = 0 THEN "create" ELSE "get",
                                       !.kind = kind, !.id = i, !.to = c, !.wants = wants]
  <2>1. new \in SenderRecord
    BY <1>0, SubscribersAssumption DEF IdleSender, SenderRecord
  <2>2. Disturb(r, new, 0) /\ sender[r].at = "idle"
    BY <1>3 DEF PrepareJob, Proceed
  <2>. HIDE DEF new
  <2>. QED  BY <1>2, <2>1, <2>2
<1>4. ASSUME NEW r \in Senders \ {s}, PrepareStep(r) PROVE FALSE
  <2>1. \E x, i : Disturb(r, x, i)
    BY <1>4, Zenon DEF PrepareStep, GetSubscriberByID, UpdateSubscriber, CreateSubscriber,
                       AddressJob, EnqueuePrepared, PrepareFails, Proceed
  <2>2. PICK x, i : Disturb(r, x, i)
    BY <2>1
  <2>3. sender'[s] = sender[s] \/ sender'[s] = [sender[s] EXCEPT !.disturbed = TRUE]
    BY <2>2 DEF Disturb
  <2>4. sender'[s].at = sender[s].at
    BY <1>0, <2>3 DEF SenderRecord
  <2>. QED  BY <2>4
<1>5. ASSUME PrepareStep(s), ~ UpdateSubscriber(s) PROVE FALSE
  <2>1. PrepareFails(s)
    BY <1>5 DEF PrepareStep, GetSubscriberByID, CreateSubscriber, AddressJob, EnqueuePrepared
  <2>2. Disturb(s, IdleSender, 0)
    BY <2>1 DEF PrepareFails, Proceed
  <2>3. sender'[s] = IdleSender
    BY <1>0, <2>2, DisturbMeans
  <2>. QED  BY <1>0, <2>3
<1>6. ASSUME NEW i \in Persons, DeleteInDashboard(i) PROVE FALSE
  BY <1>1, <1>6, NothingIsContact
<1>7. ASSUME NEW r \in Senders, PrepareStep(r), ~ UpdateSubscriber(s) PROVE FALSE
  BY <1>4, <1>5, <1>7
<1>. QED  BY <1>1, <1>3, <1>6, <1>7 DEF SubscriberNext

\* UpdateSubscriber writes back what was read where the request names nothing, and
\* every statement that writes a row finds it live or gives it a new id.
LEMMA OwnContactsKept ==
    ASSUME SubscriberInv, SubscriberNext
    PROVE  OwnContactsOnly
<1>0. SubscriberTypeOK /\ person \in [Persons -> Person] /\ sender \in [Senders -> SenderRecord]
  BY DEF SubscriberInv, SubscriberTypeOK
<1>1. ASSUME NEW s \in Senders, sender[s].at = "update", sender'[s].at = "address",
             ~ sender[s].disturbed, NEW m \in Media, sender[s].to[m] = NoContact
      PROVE  person'[sender[s].id].contact[m] = person[sender[s].id].contact[m]
  <2> DEFINE q == sender[s]  contact == Coalesce(q.to, q.seen)
  <2>1. UpdateSubscriber(s)
    BY <1>1, OnlyOwnUpdate
  <2>2. /\ q \in SenderRecord /\ q.id \in Persons /\ person[q.id].state = "live"
        /\ person[q.id].contact = q.seen /\ q.to \in Contacts /\ q.seen \in Contacts
    BY <1>0, <1>1 DEF SubscriberInv, Sending, SenderRecord
  <2>3. person' = [person EXCEPT ![q.id] = LiveRow(contact)]
    BY <2>1, <2>2 DEF UpdateSubscriber
  <2>4. contact \in Contacts /\ contact[m] = q.seen[m]
    BY <1>1, <2>2, CoalesceTyped
  <2>5. LiveRow(contact).contact = contact
    BY <2>4, LiveRowTyped
  <2>6. person'[q.id] = LiveRow(contact)
    BY <1>0, <2>2, <2>3
  <2>. HIDE DEF contact
  <2>. QED  BY <2>2, <2>4, <2>5, <2>6
<1>2. ASSUME NEW i \in Persons, person[i].state = "deleted" PROVE person'[i] = person[i]
  <2>1. ASSUME NEW j, NEW row, person' = [person EXCEPT ![j] = row],
               person[j].state # "deleted"
        PROVE  person'[i] = person[i]
    BY <1>0, <1>2, <2>1
  <2>2. ASSUME NEW s \in Senders, PrepareStep(s) PROVE person'[i] = person[i]
    <3>1. \/ person' = person
          \/ \E j, row : person' = [person EXCEPT ![j] = row] /\ person[j].state # "deleted"
      <4>1. CASE UpdateSubscriber(s)
        BY <4>1 DEF UpdateSubscriber
      <4>2. CASE CreateSubscriber(s)
        BY <4>2 DEF CreateSubscriber, IsNew
      <4>3. CASE ~ UpdateSubscriber(s) /\ ~ CreateSubscriber(s)
        BY <2>2, <4>3 DEF PrepareStep, GetSubscriberByID, AddressJob, EnqueuePrepared,
                          PrepareFails
      <4>. QED  BY <4>1, <4>2, <4>3
    <3>. QED  BY <2>1, <3>1
  <2>3. ASSUME NEW j \in Persons, NEW c \in Contacts,
               CreateInDashboard(j, c) \/ UpdateInDashboard(j, c)
        PROVE  person'[i] = person[i]
    BY <2>1, <2>3 DEF CreateInDashboard, UpdateInDashboard, IsNew
  <2>4. ASSUME NEW j \in Persons, DeleteInDashboard(j) PROVE person'[i] = person[i]
    <3>1. person' = [person EXCEPT ![j] = [person[j] EXCEPT !.state = "deleted"]]
          /\ person[j].state # "deleted"
      BY <2>4 DEF DeleteInDashboard
    <3>. QED  BY <2>1, <3>1
  <2>5. ASSUME NEW s \in Senders, NEW kind \in {"direct", "workflow", "system"},
               NEW j \in Persons \cup {0}, NEW c \in Contacts, NEW wants \in Asks,
               PrepareJob(s, kind, j, c, wants)
        PROVE  person'[i] = person[i]
    BY <2>5 DEF PrepareJob
  <2>. QED  BY <2>2, <2>3, <2>4, <2>5 DEF SubscriberNext
<1>. QED  BY <1>1, <1>2 DEF OwnContactsOnly

\* findOrUpdateSubscriber and prepareWorkflowDelivery: a job is enqueued with an
\* address for each of its channels, the one its request names unless somebody else
\* wrote the row meanwhile; a send leaves the contacts it does not name as they
\* were; and no statement changes a row that is deleted.
THEOREM ContactsHold == SubscriberSpec => ContactsSound
<1>1. SubscriberInv => NamedContactsReached
  BY DEF SubscriberInv, Sending, Reached, NamedContactsReached
<1>2. SubscriberInv /\ [SubscriberNext]_subscriberVars => [OwnContactsOnly]_subscriberVars
  BY OwnContactsKept
<1>. QED  BY <1>1, <1>2, SubscriberBegins, SubscriberKept, PTL
          DEF SubscriberSpec, ContactsSound

----------------------------------------------------------------------------
(***************************************************************************)
(* The provider integrations.                                              *)
(***************************************************************************)
RequestRecord == [kind: StateActions \cup {"create", "update", "delete", "none"},
                  at: Stages, id: ProviderIds \cup {0}, name: ProviderNames \cup {"none"},
                  seen: ProviderRow, scan: SUBSET ProviderIds, target: ProviderIds \cup {0}]
Tables == [ProviderIds -> ProviderRow]
Sheets == [ProviderIds -> Written]

\* Row i of the table t for a transaction that has written mine.
Seen(t, mine, i) == IF mine[i] = Unwritten THEN t[i] ELSE mine[i]

\* The statements each kind of request comes to, and the rows it is about.
Routes(r) ==
    /\ r.at # "idle" /\ r.kind # "create" => r.id \in ProviderIds
    /\ r.at = "read" => r.kind \in StateActions \cup {"update"}
    /\ r.at \in {"update", "delete"} => r.kind # "create"
    /\ r.at = "list" => r.kind \in {"create", "disable"}
    /\ r.at \in {"scan", "clear"} => r.kind \in {"disable", "set_primary"}
    /\ r.at = "promote" => r.kind = "disable"
    /\ r.at \in {"state", "commit"} => r.kind \in StateActions
    /\ r.at \in {"scan", "clear", "promote"} /\ r.kind = "disable" => r.target # 0
    /\ r.kind = "disable" /\ r.target # 0 => r.target \in ProviderIds /\ r.target # r.id
    /\ r.at \in {"read", "list"} => r.target = 0

\* A transaction has written nothing before it has cleared the old primary or set the
\* state of its row, and a row it has written satisfies the CHECK.
Writes(r, mine) ==
    /\ r.at \notin {"promote", "state", "commit"} =>
            \A i \in ProviderIds : mine[i] = Unwritten
    /\ \A i \in ProviderIds : mine[i].primary => mine[i].active

\* The row a request makes primary is written before it can commit.
Heirs(r, mine) ==
    /\ r.kind = "disable" /\ r.at \in {"state", "commit"} /\ r.target # 0 =>
            mine[r.target].primary /\ mine[r.target].active
    /\ r.kind = "set_primary" /\ r.at = "commit" =>
            mine[r.id].primary /\ mine[r.id].active

\* One transaction at a time has written a row.
RowLocks ==
    \A v, w \in Writers : v # w =>
        \A i \in ProviderIds : wrote[v][i] = Unwritten \/ wrote[w][i] = Unwritten

\* What a transaction has written clashes neither with what it sees of another row nor
\* with what another transaction has written.
NoClashSeen ==
    \A w \in Writers : \A i, j \in ProviderIds :
        i # j /\ wrote[w][i] # Unwritten => ~Clash(wrote[w][i], Seen(rows, wrote[w], j))
NoClashWritten ==
    \A v, w \in Writers : v # w =>
        \A i, j \in ProviderIds :
            i # j /\ wrote[v][i] # Unwritten /\ wrote[w][j] # Unwritten =>
                ~Clash(wrote[v][i], wrote[w][j])

\* The inductive invariant: that no two committed rows clash follows from the locks and
\* from what the open transactions have written.
IntegrationInv ==
    /\ IntegrationTypeOK
    /\ \A w \in Writers : /\ Routes(request[w])
                          /\ Writes(request[w], wrote[w])
                          /\ Heirs(request[w], wrote[w])
    /\ RowLocks
    /\ NoClashSeen
    /\ NoClashWritten

LEMMA ClashSymmetric ==
    ASSUME NEW r, NEW s, Clash(r, s)
    PROVE  Clash(s, r)
BY DEF Clash, SameChannel, Exists

\* A row whose flag is cleared clashes with no more rows.
LEMMA ClashShrinks ==
    ASSUME NEW q, NEW r, NEW s, r.name = q.name, r.primary => q.primary, Clash(r, s)
    PROVE  Clash(q, s)
BY DEF Clash, SameChannel, Exists

\* Unwritten is no row: a written mark that differs from it is one, and it clashes with
\* no row.
LEMMA UnwrittenApart ==
    /\ Unwritten \notin ProviderRow
    /\ \A r \in ProviderRow : ~Clash(r, Unwritten)
    /\ ~Unwritten.primary
<1>1. Unwritten.name = "unwritten" /\ Unwritten.primary = FALSE
  BY DEF Unwritten
<1>2. \A r \in ProviderRow : r.name # "unwritten"
  BY RequestsAssumption DEF ProviderRow
<1>. QED  BY <1>1, <1>2 DEF Clash

LEMMA SeesIsSeen ==
    ASSUME NEW w, NEW i
    PROVE  Sees(w, i) = Seen(rows, wrote[w], i)
BY DEF Sees, Seen

\* What a transaction sees is a table that keeps the constraints.
LEMMA SeenSound ==
    ASSUME IntegrationInv, NEW w \in Writers, NEW i \in ProviderIds
    PROVE  /\ Seen(rows, wrote[w], i) \in ProviderRow
           /\ Seen(rows, wrote[w], i).primary => Seen(rows, wrote[w], i).active
           /\ \A j \in ProviderIds : i # j =>
                ~Clash(Seen(rows, wrote[w], i), Seen(rows, wrote[w], j))
<1>1. /\ rows \in Tables /\ wrote[w] \in Sheets
      /\ rows[i].primary => rows[i].active
      /\ \A j \in ProviderIds : i # j => ~Clash(rows[i], rows[j])
  BY DEF IntegrationInv, IntegrationTypeOK, Tables, Sheets
<1>2. /\ wrote[w][i].primary => wrote[w][i].active
      /\ \A j \in ProviderIds : i # j /\ wrote[w][i] # Unwritten =>
            ~Clash(wrote[w][i], Seen(rows, wrote[w], j))
      /\ \A j \in ProviderIds : i # j /\ wrote[w][j] # Unwritten =>
            ~Clash(wrote[w][j], Seen(rows, wrote[w], i))
  BY DEF IntegrationInv, Writes, NoClashSeen
<1>3. Seen(rows, wrote[w], i) \in ProviderRow
  BY <1>1 DEF Seen, Tables, Sheets, Written
<1>4. Seen(rows, wrote[w], i).primary => Seen(rows, wrote[w], i).active
  BY <1>1, <1>2 DEF Seen
<1>5. ASSUME NEW j \in ProviderIds, i # j
      PROVE  ~Clash(Seen(rows, wrote[w], i), Seen(rows, wrote[w], j))
  <2>1. CASE wrote[w][i] # Unwritten
    BY <1>2, <1>5, <2>1 DEF Seen
  <2>2. CASE wrote[w][j] # Unwritten
    BY <1>2, <1>5, <2>2, ClashSymmetric DEF Seen
  <2>3. CASE wrote[w][i] = Unwritten /\ wrote[w][j] = Unwritten
    BY <1>1, <1>5, <2>3 DEF Seen
  <2>. QED  BY <2>1, <2>2, <2>3
<1>. QED  BY <1>3, <1>4, <1>5

\* The table t and what w has written keep the constraints, and fit what the other
\* transactions have written.
Fits(w, t, mine) ==
    /\ \A i \in ProviderIds : t[i].primary => t[i].active
    /\ \A i, j \in ProviderIds : i # j => ~Clash(t[i], t[j])
    /\ \A v \in Writers : v # w =>
            \A i \in ProviderIds : wrote[v][i] = Unwritten \/ mine[i] = Unwritten
    /\ \A i, j \in ProviderIds :
            i # j /\ mine[i] # Unwritten => ~Clash(mine[i], Seen(t, mine, j))
    /\ \A v \in Writers : v # w => \A i, j \in ProviderIds :
            i # j /\ wrote[v][i] # Unwritten => ~Clash(wrote[v][i], Seen(t, wrote[v], j))
    /\ \A v \in Writers : v # w => \A i, j \in ProviderIds :
            i # j /\ wrote[v][i] # Unwritten /\ mine[j] # Unwritten =>
                ~Clash(mine[j], wrote[v][i])

\* A step of the transaction of w, in terms of the table t it leaves, of what w has then
\* written and of the request it goes on with.
LEMMA StepKeeps ==
    ASSUME IntegrationInv, NEW w \in Writers,
           NEW r \in RequestRecord, NEW mine \in Sheets, NEW t \in Tables,
           request' = [request EXCEPT ![w] = r],
           wrote' = [wrote EXCEPT ![w] = mine],
           rows' = t,
           overlapped' \subseteq Writers, broken' \subseteq Writers,
           started' \in 0..MaxRequests,
           Routes(r), Writes(r, mine), Heirs(r, mine), Fits(w, t, mine)
    PROVE  IntegrationInv'
<1>0. /\ request \in [Writers -> RequestRecord] /\ wrote \in [Writers -> Sheets]
      /\ \A v \in Writers : /\ Routes(request[v])
                            /\ Writes(request[v], wrote[v])
                            /\ Heirs(request[v], wrote[v])
      /\ RowLocks /\ NoClashSeen /\ NoClashWritten
  BY DEF IntegrationInv, IntegrationTypeOK, RequestRecord, Sheets
<1>1. /\ request' \in [Writers -> RequestRecord] /\ wrote' \in [Writers -> Sheets]
      /\ request'[w] = r /\ wrote'[w] = mine
      /\ \A v \in Writers : v # w => request'[v] = request[v] /\ wrote'[v] = wrote[v]
  BY <1>0
<1>2. IntegrationTypeOK'
  BY <1>1 DEF IntegrationTypeOK, RequestRecord, Sheets, Tables, Fits
<1>3. ASSUME NEW v \in Writers
      PROVE  /\ Routes(request'[v])
             /\ Writes(request'[v], wrote'[v])
             /\ Heirs(request'[v], wrote'[v])
  <2>1. CASE v = w
    BY <1>1, <2>1
  <2>2. CASE v # w
    BY <1>0, <1>1, <2>2
  <2>. QED  BY <2>1, <2>2
<1>4. RowLocks'
  BY <1>0, <1>1 DEF RowLocks, Fits
<1>5. NoClashSeen'
  <2>1. ASSUME NEW v \in Writers, NEW i \in ProviderIds, NEW j \in ProviderIds,
               i # j, wrote'[v][i] # Unwritten
        PROVE  ~Clash(wrote'[v][i], Seen(t, wrote'[v], j))
    <3>1. CASE v = w
      BY <1>1, <2>1, <3>1 DEF Fits
    <3>2. CASE v # w
      BY <1>1, <2>1, <3>2 DEF Fits
    <3>. QED  BY <3>1, <3>2
  <2>. QED  BY <2>1 DEF NoClashSeen
<1>6. NoClashWritten'
  <2>1. ASSUME NEW u \in Writers, NEW v \in Writers, u # v,
               NEW i \in ProviderIds, NEW j \in ProviderIds,
               i # j, wrote'[u][i] # Unwritten, wrote'[v][j] # Unwritten
        PROVE  ~Clash(wrote'[u][i], wrote'[v][j])
    <3>1. CASE u = w
      BY <1>1, <2>1, <3>1 DEF Fits
    <3>2. CASE v = w
      BY <1>1, <2>1, <3>2, ClashSymmetric DEF Fits
    <3>3. CASE u # w /\ v # w
      BY <1>0, <1>1, <2>1, <3>3 DEF NoClashWritten
    <3>. QED  BY <3>1, <3>2, <3>3
  <2>. QED  BY <2>1 DEF NoClashWritten
<1>7. \A v \in Writers : /\ Routes(request[v])'
                         /\ Writes(request[v], wrote[v])'
                         /\ Heirs(request[v], wrote[v])'
  BY <1>3 DEF Routes, Writes, Heirs
<1>. QED  BY <1>2, <1>4, <1>5, <1>6, <1>7 DEF IntegrationInv

\* What the invariant says of the transaction of w.
LEMMA OfWriter ==
    ASSUME IntegrationInv, NEW w \in Writers
    PROVE  /\ rows \in Tables /\ wrote \in [Writers -> Sheets]
           /\ request \in [Writers -> RequestRecord]
           /\ request[w] \in RequestRecord /\ wrote[w] \in Sheets
           /\ overlapped \subseteq Writers /\ broken \subseteq Writers
           /\ started \in 0..MaxRequests
           /\ Routes(request[w]) /\ Writes(request[w], wrote[w]) /\ Heirs(request[w], wrote[w])
           /\ Fits(w, rows, wrote[w])
<1>1. rows \in Tables /\ wrote \in [Writers -> Sheets] /\ request \in [Writers -> RequestRecord]
  BY DEF IntegrationInv, IntegrationTypeOK, RequestRecord, Sheets, Tables
<1>2. /\ overlapped \subseteq Writers /\ broken \subseteq Writers
      /\ started \in 0..MaxRequests
      /\ \A i \in ProviderIds : rows[i].primary => rows[i].active
      /\ \A i, j \in ProviderIds : i # j => ~Clash(rows[i], rows[j])
  BY DEF IntegrationInv, IntegrationTypeOK
<1>3. /\ Routes(request[w]) /\ Writes(request[w], wrote[w]) /\ Heirs(request[w], wrote[w])
      /\ RowLocks /\ NoClashSeen /\ NoClashWritten
  BY DEF IntegrationInv
<1>4. ASSUME NEW v \in Writers, v # w, NEW i \in ProviderIds, NEW j \in ProviderIds,
             i # j, wrote[v][i] # Unwritten, wrote[w][j] # Unwritten
      PROVE  ~Clash(wrote[w][j], wrote[v][i])
  BY <1>3, <1>4 DEF NoClashWritten
<1>5. Fits(w, rows, wrote[w])
  BY <1>2, <1>3, <1>4 DEF RowLocks, NoClashSeen, Fits
<1>. QED  BY <1>1, <1>2, <1>3, <1>5

\* A step that reads: nothing is written, and the request goes on with r.
LEMMA ReadKeeps ==
    ASSUME IntegrationInv, NEW w \in Writers, NEW r \in RequestRecord,
           request' = [request EXCEPT ![w] = r], UNCHANGED <<rows, wrote>>,
           overlapped' \subseteq Writers, broken' \subseteq Writers,
           started' \in 0..MaxRequests,
           Routes(r), Writes(r, wrote[w]), Heirs(r, wrote[w])
    PROVE  IntegrationInv'
<1>1. rows \in Tables /\ wrote[w] \in Sheets /\ rows' = rows /\ Fits(w, rows, wrote[w])
  BY OfWriter
<1>2. wrote' = [wrote EXCEPT ![w] = wrote[w]]
  BY OfWriter
<1>. QED  BY <1>1, <1>2, StepKeeps

\* The transaction of w ends without a trace.
LEMMA NothingWritten == [i \in ProviderIds |-> Unwritten] \in Sheets
BY DEF Sheets, Written

LEMMA NoOpRoutes ==
    /\ NoOp \in RequestRecord /\ Routes(NoOp)
    /\ \A mine : (\A i \in ProviderIds : mine[i] = Unwritten) =>
            Writes(NoOp, mine) /\ Heirs(NoOp, mine)
<1>1. NoOp \in RequestRecord /\ Routes(NoOp)
  BY DEF NoOp, RequestRecord, Stages, NoRow, ProviderRow, Routes
<1>2. NoOp.kind = "none" /\ NoOp.at = "idle"
  BY DEF NoOp
<1>. QED  BY <1>1, <1>2, UnwrittenApart DEF Writes, Heirs

LEMMA RollbackKeeps ==
    ASSUME IntegrationInv, NEW w \in Writers, Rollback(w), broken' \subseteq Writers
    PROVE  IntegrationInv'
<1> DEFINE blank == [i \in ProviderIds |-> Unwritten]
<1>1. /\ request' = [request EXCEPT ![w] = NoOp] /\ wrote' = [wrote EXCEPT ![w] = blank]
      /\ rows' = rows /\ overlapped' = overlapped /\ started' = started
  BY DEF Rollback, CloseRequest
<1>3. blank \in Sheets /\ \A i \in ProviderIds : blank[i] = Unwritten
  BY NothingWritten
<1>. HIDE DEF blank
<1>4. NoOp \in RequestRecord /\ Routes(NoOp) /\ Writes(NoOp, blank) /\ Heirs(NoOp, blank)
  BY <1>3, NoOpRoutes
<1>5. overlapped' \subseteq Writers /\ started' \in 0..MaxRequests /\ rows \in Tables
  BY <1>1, OfWriter
<1>6. Fits(w, rows, blank)
  BY <1>3, OfWriter DEF Fits
<1>. QED  BY <1>1, <1>3, <1>4, <1>5, <1>6, StepKeeps

\* What another transaction has written clashes with no row that w sees, but for the
\* rows the other one is rewriting.
LEMMA SeenApart ==
    ASSUME IntegrationInv, NEW w \in Writers, NEW v \in Writers, v # w,
           NEW i \in ProviderIds, NEW j \in ProviderIds, i # j,
           wrote[v][i] # Unwritten, wrote[v][j] = Unwritten
    PROVE  ~Clash(wrote[v][i], Seen(rows, wrote[w], j))
<1>1. Fits(w, rows, wrote[w])
  BY OfWriter
<1>2. CASE wrote[w][j] # Unwritten
  BY <1>1, <1>2, ClashSymmetric DEF Fits, Seen
<1>3. CASE wrote[w][j] = Unwritten
  BY <1>1, <1>3 DEF Fits, Seen
<1>. QED  BY <1>2, <1>3

\* A row that may be written at once and violates nothing can be added to what w has
\* written.
LEMMA RowFits ==
    ASSUME IntegrationInv, NEW w \in Writers, NEW i \in ProviderIds, NEW row \in ProviderRow,
           ~Waits(w, i, row), ~Violates(w, i, row)
    PROVE  /\ ~Locked(w, i)
           /\ row.primary => row.active
           /\ \A j \in ProviderIds : i # j => ~Clash(row, Seen(rows, wrote[w], j))
           /\ \A v \in Writers, j \in ProviderIds : v # w /\ i # j =>
                 /\ ~Clash(row, wrote[v][j])
                 /\ wrote[v][j] # Unwritten => ~Clash(row, rows[j])
<1>1. /\ ~Locked(w, i)
      /\ \A j \in ProviderIds \ {i} : Locked(w, j) =>
            /\ ~Clash(row, rows[j])
            /\ \A v \in Writers \ {w} : ~Clash(row, wrote[v][j])
  BY DEF Waits
<1>2. /\ row.primary => row.active
      /\ \A j \in ProviderIds \ {i} : ~Locked(w, j) => ~Clash(row, Sees(w, j))
  BY DEF Violates, ProviderRow
<1>3. Fits(w, rows, wrote[w])
  BY OfWriter
<1>4. ASSUME NEW j \in ProviderIds, i # j
      PROVE  ~Clash(row, Seen(rows, wrote[w], j))
  <2>1. CASE Locked(w, j)
    <3>1. wrote[w][j] = Unwritten
      BY <1>3, <2>1 DEF Locked, Fits
    <3>. QED  BY <1>1, <1>4, <2>1, <3>1 DEF Seen
  <2>2. CASE ~Locked(w, j)
    BY <1>2, <1>4, <2>2, SeesIsSeen
  <2>. QED  BY <2>1, <2>2
<1>5. ASSUME NEW v \in Writers, NEW j \in ProviderIds, v # w, i # j
      PROVE  /\ ~Clash(row, wrote[v][j])
             /\ wrote[v][j] # Unwritten => ~Clash(row, rows[j])
  <2>1. CASE wrote[v][j] # Unwritten
    BY <1>1, <1>5, <2>1 DEF Locked
  <2>2. CASE wrote[v][j] = Unwritten
    BY <2>2, UnwrittenApart
  <2>. QED  BY <2>1, <2>2
<1>. QED  BY <1>1, <1>2, <1>4, <1>5

LEMMA WrittenFits ==
    ASSUME IntegrationInv, NEW w \in Writers, NEW i \in ProviderIds, NEW row \in ProviderRow,
           ~Waits(w, i, row), ~Violates(w, i, row)
    PROVE  /\ [wrote[w] EXCEPT ![i] = row] \in Sheets
           /\ Fits(w, rows, [wrote[w] EXCEPT ![i] = row])
<1> DEFINE mine == [wrote[w] EXCEPT ![i] = row]
<1>1. /\ wrote[w] \in Sheets /\ rows \in Tables /\ Fits(w, rows, wrote[w])
  BY OfWriter
<1>2. /\ mine \in Sheets /\ mine[i] = row
      /\ \A j \in ProviderIds : j # i => mine[j] = wrote[w][j]
  BY <1>1 DEF Sheets, Written
<1>3. /\ \A v \in Writers : v # w => wrote[v][i] = Unwritten
      /\ \A j \in ProviderIds : i # j => ~Clash(row, Seen(rows, wrote[w], j))
      /\ \A v \in Writers, j \in ProviderIds : v # w /\ i # j => ~Clash(row, wrote[v][j])
  BY RowFits DEF Locked
<1>. HIDE DEF mine
<1>4. ASSUME NEW v \in Writers, v # w, NEW j \in ProviderIds
      PROVE  wrote[v][j] = Unwritten \/ mine[j] = Unwritten
  BY <1>1, <1>2, <1>3, <1>4 DEF Fits
<1>5. ASSUME NEW j \in ProviderIds, NEW k \in ProviderIds, j # k, mine[j] # Unwritten
      PROVE  ~Clash(mine[j], Seen(rows, mine, k))
  <2>1. CASE j = i
    BY <1>2, <1>3, <1>5, <2>1 DEF Seen
  <2>2. CASE k = i
    <3>1. Seen(rows, mine, k) = row
      BY <1>2, <2>2, UnwrittenApart DEF Seen
    <3>2. Seen(rows, wrote[w], j) = mine[j]
      BY <1>2, <1>5, <2>2 DEF Seen
    <3>3. ~Clash(row, mine[j])
      BY <1>3, <1>5, <2>2, <3>2
    <3>. QED  BY <3>1, <3>3, ClashSymmetric
  <2>3. CASE j # i /\ k # i
    BY <1>1, <1>2, <1>5, <2>3 DEF Fits, Seen
  <2>. QED  BY <2>1, <2>2, <2>3
<1>6. ASSUME NEW v \in Writers, v # w, NEW j \in ProviderIds, NEW k \in ProviderIds,
             j # k, wrote[v][j] # Unwritten, mine[k] # Unwritten
      PROVE  ~Clash(mine[k], wrote[v][j])
  <2>1. CASE k = i
    BY <1>2, <1>3, <1>6, <2>1
  <2>2. CASE k # i
    BY <1>1, <1>2, <1>6, <2>2 DEF Fits
  <2>. QED  BY <2>1, <2>2
<1>7. Fits(w, rows, mine)
  BY <1>1, <1>4, <1>5, <1>6 DEF Fits
<1>. QED  BY <1>2, <1>7 DEF mine

\* A statement of a transaction that writes row for i and goes on at there.
LEMMA WriteRowKeeps ==
    ASSUME IntegrationInv, NEW w \in Writers, NEW i \in ProviderIds, NEW row \in ProviderRow,
           NEW there \in {"promote", "state", "commit"}, WriteRow(w, i, row, there),
           \A q \in RequestRecord, mine \in Sheets :
               /\ q = [request[w] EXCEPT !.at = there]
               /\ mine[i] = row
               /\ \A j \in ProviderIds : j # i => mine[j] = wrote[w][j]
               => Routes(q) /\ Heirs(q, mine)
    PROVE  IntegrationInv'
<1>1. CASE Violates(w, i, row)
  BY <1>1, RollbackKeeps, OfWriter DEF WriteRow
<1>2. CASE ~Violates(w, i, row)
  <2> DEFINE q == [request[w] EXCEPT !.at = there]
             mine == [wrote[w] EXCEPT ![i] = row]
  <2>1. /\ wrote' = [wrote EXCEPT ![w][i] = row]
        /\ request' = [request EXCEPT ![w].at = there]
        /\ rows' = rows /\ overlapped' = overlapped /\ broken' = broken
        /\ started' = started /\ ~Waits(w, i, row)
    BY <1>2 DEF WriteRow
  <2>2. wrote' = [wrote EXCEPT ![w] = mine] /\ request' = [request EXCEPT ![w] = q]
    BY <2>1, OfWriter
  <2>3. /\ q \in RequestRecord /\ q.at = there
    BY OfWriter DEF RequestRecord, Stages
  <2>4. mine \in Sheets /\ Fits(w, rows, mine)
    BY <1>2, <2>1, WrittenFits
  <2>5. /\ mine[i] = row
        /\ \A j \in ProviderIds : j # i => mine[j] = wrote[w][j]
    BY OfWriter DEF Sheets
  <2>6. Routes(q) /\ Heirs(q, mine)
    BY <2>3, <2>4, <2>5
  <2>. HIDE DEF q, mine
  <2>7. row.primary => row.active
    BY <1>2 DEF Violates, ProviderRow
  <2>8. Writes(q, mine)
    BY <2>3, <2>5, <2>7, OfWriter DEF Writes
  <2>9. /\ rows \in Tables /\ overlapped' \subseteq Writers /\ broken' \subseteq Writers
        /\ started' \in 0..MaxRequests
    BY <2>1, OfWriter
  <2>. QED  BY <2>1, <2>2, <2>3, <2>4, <2>6, <2>8, <2>9, StepKeeps
<1>. QED  BY <1>1, <1>2

LEMMA SetStateKeeps ==
    ASSUME IntegrationInv, NEW w \in Writers, NEW i \in ProviderIds,
           NEW active \in BOOLEAN, NEW primary \in BOOLEAN,
           NEW there \in {"promote", "state", "commit"},
           SetState(w, i, active, primary, there),
           \A q \in RequestRecord, mine \in Sheets :
               /\ q = [request[w] EXCEPT !.at = there]
               /\ mine[i].active = active /\ mine[i].primary = primary
               /\ \A j \in ProviderIds : j # i => mine[j] = wrote[w][j]
               => Routes(q) /\ Heirs(q, mine)
    PROVE  IntegrationInv'
<1> DEFINE row == [Sees(w, i) EXCEPT !.active = active, !.primary = primary]
<1>1. CASE WriteRow(w, i, row, there)
  <2>1. Sees(w, i) \in ProviderRow
    BY SeesIsSeen, SeenSound
  <2>2. row \in ProviderRow /\ row.active = active /\ row.primary = primary
    BY <2>1 DEF ProviderRow
  <2>. HIDE DEF row
  <2>. QED  BY <1>1, <2>2, WriteRowKeeps
<1>2. CASE Rollback(w) /\ UNCHANGED broken
  BY <1>2, RollbackKeeps, OfWriter
<1>. QED  BY <1>1, <1>2 DEF SetState

LEMMA PromoteKeeps ==
    ASSUME IntegrationInv, NEW w \in Writers, Promote(w)
    PROVE  IntegrationInv'
<1> DEFINE i == request[w].target
           on == TRUE
           there == "state"
<1>1. /\ request[w].at = "promote" /\ SetState(w, i, on, on, there)
      /\ request[w] \in RequestRecord /\ Routes(request[w])
  BY OfWriter DEF Promote
<1>2. /\ i \in ProviderIds /\ i # request[w].id /\ request[w].kind = "disable"
      /\ request[w].id \in ProviderIds
  BY <1>1 DEF Routes
<1>3. ASSUME NEW q \in RequestRecord, NEW mine \in Sheets,
             q = [request[w] EXCEPT !.at = there],
             mine[i].active = on, mine[i].primary = on,
             \A j \in ProviderIds : j # i => mine[j] = wrote[w][j]
      PROVE  Routes(q) /\ Heirs(q, mine)
  <2>1. q.kind = "disable" /\ q.id = request[w].id /\ q.target = i /\ q.at = "state"
    BY <1>1, <1>2, <1>3 DEF RequestRecord
  <2>. QED  BY <1>2, <1>3, <2>1 DEF Routes, Heirs, StateActions
<1>4. on \in BOOLEAN /\ there \in {"promote", "state", "commit"}
  OBVIOUS
<1>. HIDE DEF i, on, there
<1>. QED  BY <1>1, <1>2, <1>3, <1>4, SetStateKeeps

LEMMA WriteStateKeeps ==
    ASSUME IntegrationInv, NEW w \in Writers, WriteState(w)
    PROVE  IntegrationInv'
<1> DEFINE i == request[w].id
           active == request[w].kind # "disable"
           primary == CASE request[w].kind = "enable"  -> request[w].seen.primary
                        [] request[w].kind = "disable" -> FALSE
                        [] OTHER                       -> TRUE
<1>1. /\ request[w].at = "state" /\ SetState(w, i, active, primary, "commit")
      /\ request[w] \in RequestRecord /\ Routes(request[w]) /\ Heirs(request[w], wrote[w])
  BY OfWriter DEF WriteState
<1>2. /\ i \in ProviderIds /\ request[w].kind \in StateActions
      /\ request[w].kind = "disable" /\ request[w].target # 0 =>
            /\ request[w].target \in ProviderIds /\ request[w].target # i
            /\ wrote[w][request[w].target].primary /\ wrote[w][request[w].target].active
  BY <1>1 DEF Routes, Heirs, StateActions
<1>3. active \in BOOLEAN /\ primary \in BOOLEAN
  BY <1>1 DEF RequestRecord, ProviderRow
<1>4. ASSUME NEW q \in RequestRecord, NEW mine \in Sheets,
             q = [request[w] EXCEPT !.at = "commit"],
             mine[i].active = active, mine[i].primary = primary,
             \A j \in ProviderIds : j # i => mine[j] = wrote[w][j]
      PROVE  Routes(q) /\ Heirs(q, mine)
  <2>1. /\ q.kind = request[w].kind /\ q.id = i /\ q.target = request[w].target
        /\ q.at = "commit"
    BY <1>1, <1>4 DEF RequestRecord
  <2>2. Routes(q)
    BY <1>1, <1>2, <2>1 DEF Routes
  <2>3. Heirs(q, mine)
    BY <1>2, <1>4, <2>1 DEF Heirs
  <2>. QED  BY <2>2, <2>3
<1>. HIDE DEF i, active, primary
<1>. QED  BY <1>1, <1>2, <1>3, <1>4, SetStateKeeps

LEMMA ClearPrimaryKeeps ==
    ASSUME IntegrationInv, NEW w \in Writers, ClearPrimary(w)
    PROVE  IntegrationInv'
<1> DEFINE there == IF request[w].kind = "disable" THEN "promote" ELSE "state"
           q == [request[w] EXCEPT !.at = there]
           cleared == {i \in request[w].scan : Sees(w, i).primary}
           mine == [i \in ProviderIds |-> IF i \in request[w].scan /\ Sees(w, i).primary
                                          THEN [Sees(w, i) EXCEPT !.primary = FALSE]
                                          ELSE wrote[w][i]]
<1>1. /\ request[w].at = "clear" /\ \A i \in request[w].scan : ~Locked(w, i)
      /\ wrote' = [wrote EXCEPT ![w] = mine]
      /\ request' = [request EXCEPT ![w].at = there]
      /\ rows' = rows /\ overlapped' = overlapped /\ broken' = broken /\ started' = started
  BY DEF ClearPrimary
<1>2. /\ request[w] \in RequestRecord /\ wrote[w] \in Sheets /\ rows \in Tables
      /\ request \in [Writers -> RequestRecord] /\ Fits(w, rows, wrote[w])
      /\ Routes(request[w]) /\ Writes(request[w], wrote[w])
      /\ overlapped' \subseteq Writers /\ broken' \subseteq Writers
      /\ started' \in 0..MaxRequests
  BY <1>1, OfWriter
<1>3. \A i \in ProviderIds : wrote[w][i] = Unwritten
  BY <1>1, <1>2 DEF Writes
<1>4. cleared \subseteq ProviderIds /\ \A i \in cleared : ~Locked(w, i)
  BY <1>1, <1>2 DEF RequestRecord
<1>5. /\ q \in RequestRecord /\ request' = [request EXCEPT ![w] = q]
      /\ q.at = there /\ q.kind = request[w].kind /\ q.id = request[w].id
      /\ q.target = request[w].target
  BY <1>1, <1>2 DEF RequestRecord, Stages
<1>6. Routes(q)
  BY <1>1, <1>2, <1>5 DEF Routes, StateActions
<1>7. ASSUME NEW i \in cleared
      PROVE  /\ mine[i] \in ProviderRow /\ mine[i].primary = FALSE
             /\ mine[i].name = Seen(rows, wrote[w], i).name
  <2>1. Sees(w, i) = Seen(rows, wrote[w], i) /\ Sees(w, i) \in ProviderRow
    BY <1>4, SeesIsSeen, SeenSound
  <2> DEFINE row == [Sees(w, i) EXCEPT !.primary = FALSE]
  <2>2. row \in ProviderRow /\ row.primary = FALSE /\ row.name = Sees(w, i).name
    BY <2>1 DEF ProviderRow
  <2>3. mine[i] = row
    BY <1>4
  <2>. HIDE DEF mine, row
  <2>. QED  BY <2>1, <2>2, <2>3
<1>8. \A i \in ProviderIds \ cleared : mine[i] = Unwritten
  BY <1>3
<1>9. mine \in Sheets
  BY <1>7, <1>8 DEF Sheets, Written
<1>. HIDE DEF mine, cleared
<1>10. ASSUME NEW i \in ProviderIds, mine[i] # Unwritten, NEW s, Clash(mine[i], s)
       PROVE  Clash(Seen(rows, wrote[w], i), s)
  <2>1. mine[i].primary = FALSE /\ mine[i].name = Seen(rows, wrote[w], i).name
    BY <1>7, <1>8, <1>10
  <2>. HIDE DEF Seen
  <2>. QED  BY <1>10, <2>1, ClashShrinks
<1>11. ASSUME NEW v \in Writers, v # w, NEW i \in ProviderIds
       PROVE  wrote[v][i] = Unwritten \/ mine[i] = Unwritten
  BY <1>4, <1>8, <1>11 DEF Locked
<1>12. ASSUME NEW i \in ProviderIds, NEW j \in ProviderIds, i # j, mine[i] # Unwritten
       PROVE  ~Clash(mine[i], Seen(rows, mine, j))
  <2>0. /\ ~Clash(Seen(rows, wrote[w], i), Seen(rows, wrote[w], j))
        /\ ~Clash(Seen(rows, wrote[w], j), Seen(rows, wrote[w], i))
    BY <1>12, SeenSound
  <2>1. CASE mine[j] = Unwritten
    <3>1. Seen(rows, mine, j) = Seen(rows, wrote[w], j)
      BY <1>3, <2>1 DEF Seen
    <3>. QED  BY <1>10, <1>12, <2>0, <3>1
  <2>2. CASE mine[j] # Unwritten
    <3>1. Seen(rows, mine, j) = mine[j]
      BY <2>2 DEF Seen
    <3>2. Clash(mine[i], mine[j]) => Clash(mine[j], Seen(rows, wrote[w], i))
      BY <1>10, <1>12, ClashSymmetric
    <3>3. Clash(mine[j], Seen(rows, wrote[w], i)) =>
             Clash(Seen(rows, wrote[w], j), Seen(rows, wrote[w], i))
      BY <1>10, <2>2
    <3>. QED  BY <2>0, <3>1, <3>2, <3>3
  <2>. QED  BY <2>1, <2>2
<1>13. ASSUME NEW v \in Writers, v # w, NEW i \in ProviderIds, NEW j \in ProviderIds,
              i # j, wrote[v][i] # Unwritten, mine[j] # Unwritten
       PROVE  ~Clash(mine[j], wrote[v][i])
  <2>1. wrote[v][j] = Unwritten
    BY <1>11, <1>13
  <2>2. ~Clash(Seen(rows, wrote[w], j), wrote[v][i])
    BY <1>13, <2>1, SeenApart, ClashSymmetric
  <2>. QED  BY <1>10, <1>13, <2>2
<1>14. Fits(w, rows, mine)
  BY <1>2, <1>11, <1>12, <1>13 DEF Fits
<1>15. ASSUME NEW i \in ProviderIds
       PROVE  ~mine[i].primary
  BY <1>7, <1>8, UnwrittenApart
<1>. HIDE DEF q
<1>16. Writes(q, mine) /\ Heirs(q, mine)
  <2>1. q.at \in {"promote", "state"}
    BY <1>5
  <2>2. ~(q.kind = "disable" /\ q.at \in {"state", "commit"})
    BY <1>5
  <2>. QED  BY <1>15, <2>1, <2>2 DEF Writes, Heirs
<1>. QED  BY <1>1, <1>2, <1>5, <1>6, <1>9, <1>14, <1>16, StepKeeps

LEMMA CommitStateKeeps ==
    ASSUME IntegrationInv, NEW w \in Writers, CommitState(w)
    PROVE  IntegrationInv'
<1> DEFINE t == [i \in ProviderIds |-> Sees(w, i)]
           blank == [i \in ProviderIds |-> Unwritten]
<1>1. /\ rows' = t /\ wrote' = [wrote EXCEPT ![w] = blank]
      /\ request' = [request EXCEPT ![w] = NoOp]
      /\ overlapped' = overlapped /\ broken' = broken /\ started' = started
  BY DEF CommitState, CloseRequest
<1>2. /\ Fits(w, rows, wrote[w]) /\ overlapped' \subseteq Writers
      /\ broken' \subseteq Writers /\ started' \in 0..MaxRequests
  BY <1>1, OfWriter
<1>3. \A i \in ProviderIds : t[i] = Seen(rows, wrote[w], i)
  BY SeesIsSeen
<1>4. t \in Tables
  BY SeesIsSeen, SeenSound DEF Tables
<1>5. blank \in Sheets /\ \A i \in ProviderIds : blank[i] = Unwritten
  BY NothingWritten
<1>. HIDE DEF t, blank
<1>6. ASSUME NEW i \in ProviderIds
      PROVE  /\ t[i].primary => t[i].active
             /\ \A j \in ProviderIds : i # j => ~Clash(t[i], t[j])
  BY <1>3, SeenSound
<1>7. ASSUME NEW v \in Writers, v # w, NEW i \in ProviderIds, NEW j \in ProviderIds,
             i # j, wrote[v][i] # Unwritten
      PROVE  ~Clash(wrote[v][i], Seen(t, wrote[v], j))
  <2>1. CASE wrote[v][j] = Unwritten
    <3>1. Seen(t, wrote[v], j) = Seen(rows, wrote[w], j)
      BY <1>3, <2>1 DEF Seen
    <3>. QED  BY <1>7, <2>1, <3>1, SeenApart
  <2>2. CASE wrote[v][j] # Unwritten
    <3>1. Seen(t, wrote[v], j) = Seen(rows, wrote[v], j)
      BY <2>2 DEF Seen
    <3>. QED  BY <1>2, <1>7, <3>1 DEF Fits
  <2>. QED  BY <2>1, <2>2
<1>8. Fits(w, t, blank)
  BY <1>5, <1>6, <1>7 DEF Fits
<1>9. NoOp \in RequestRecord /\ Routes(NoOp) /\ Writes(NoOp, blank) /\ Heirs(NoOp, blank)
  BY <1>5, NoOpRoutes
<1>. QED  BY <1>1, <1>2, <1>4, <1>5, <1>8, <1>9, StepKeeps

\* A table in which one unlocked row has changed.
LEMMA RowChanges ==
    ASSUME IntegrationInv, NEW w \in Writers, request[w].at \notin {"promote", "state", "commit"},
           NEW i \in ProviderIds, NEW row \in ProviderRow, ~Locked(w, i),
           row.primary => row.active,
           \A j \in ProviderIds : i # j => ~Clash(row, rows[j]),
           \A v \in Writers, j \in ProviderIds : v # w /\ i # j => ~Clash(row, wrote[v][j]),
           request' = [request EXCEPT ![w] = NoOp], rows' = [rows EXCEPT ![i] = row],
           wrote' = wrote, overlapped' \subseteq Writers, broken' \subseteq Writers,
           started' \in 0..MaxRequests
    PROVE  IntegrationInv'
<1> DEFINE t == [rows EXCEPT ![i] = row]
           mine == wrote[w]
<1>1. /\ rows \in Tables /\ wrote' = [wrote EXCEPT ![w] = mine] /\ mine \in Sheets
      /\ Fits(w, rows, mine) /\ Writes(request[w], mine)
  BY OfWriter
<1>2. /\ t \in Tables /\ t[i] = row /\ \A j \in ProviderIds : j # i => t[j] = rows[j]
  BY <1>1 DEF Tables
<1>3. /\ \A j \in ProviderIds : mine[j] = Unwritten
      /\ \A v \in Writers : v # w => wrote[v][i] = Unwritten
  BY <1>1 DEF Writes, Locked
<1>. HIDE DEF t
<1>4. ASSUME NEW j \in ProviderIds
      PROVE  t[j].primary => t[j].active
  BY <1>1, <1>2 DEF Fits
<1>5. ASSUME NEW j \in ProviderIds, NEW k \in ProviderIds, j # k
      PROVE  ~Clash(t[j], t[k])
  BY <1>1, <1>2, <1>5, ClashSymmetric DEF Fits
<1>6. ASSUME NEW v \in Writers, v # w, NEW j \in ProviderIds, NEW k \in ProviderIds,
             j # k, wrote[v][j] # Unwritten
      PROVE  ~Clash(wrote[v][j], Seen(t, wrote[v], k))
  <2>1. CASE k = i
    <3>1. Seen(t, wrote[v], k) = row
      BY <1>2, <1>3, <1>6, <2>1 DEF Seen
    <3>. QED  BY <1>6, <2>1, <3>1, ClashSymmetric
  <2>2. CASE k # i
    <3>1. Seen(t, wrote[v], k) = Seen(rows, wrote[v], k)
      BY <1>2, <2>2 DEF Seen
    <3>. QED  BY <1>1, <1>6, <3>1 DEF Fits
  <2>. QED  BY <2>1, <2>2
<1>. HIDE DEF mine
<1>7. Fits(w, t, mine)
  BY <1>3, <1>4, <1>5, <1>6 DEF Fits
<1>8. NoOp \in RequestRecord /\ Routes(NoOp) /\ Writes(NoOp, mine) /\ Heirs(NoOp, mine)
  BY <1>3, NoOpRoutes
<1>9. rows' = t
  BY DEF t
<1>. QED  BY <1>1, <1>2, <1>7, <1>8, <1>9, StepKeeps

LEMMA WriteNowKeeps ==
    ASSUME IntegrationInv, NEW w \in Writers, request[w].at \notin {"promote", "state", "commit"},
           NEW i \in ProviderIds, NEW row \in ProviderRow, WriteNow(w, i, row)
    PROVE  IntegrationInv'
<1>1. /\ ~Waits(w, i, row) /\ request' = [request EXCEPT ![w] = NoOp]
      /\ wrote' = wrote /\ overlapped' = overlapped /\ started' = started
  BY DEF WriteNow, CloseRequest
<1>2. /\ overlapped' \subseteq Writers /\ started' \in 0..MaxRequests /\ broken \subseteq Writers
      /\ Writes(request[w], wrote[w])
  BY <1>1, OfWriter
<1>3. CASE Violates(w, i, row)
  <2>1. rows' = rows /\ broken' \subseteq Writers
    BY <1>2, <1>3 DEF WriteNow
  <2>2. /\ NoOp \in RequestRecord /\ Routes(NoOp)
        /\ Writes(NoOp, wrote[w]) /\ Heirs(NoOp, wrote[w])
    BY <1>2, NoOpRoutes DEF Writes
  <2>. QED  BY <1>1, <1>2, <2>1, <2>2, ReadKeeps
<1>4. CASE ~Violates(w, i, row)
  <2>1. rows' = [rows EXCEPT ![i] = row] /\ broken' \subseteq Writers
    BY <1>2, <1>4 DEF WriteNow
  <2>2. \A j \in ProviderIds : Seen(rows, wrote[w], j) = rows[j]
    BY <1>2 DEF Writes, Seen
  <2>3. /\ ~Locked(w, i) /\ (row.primary => row.active)
        /\ \A j \in ProviderIds : i # j => ~Clash(row, rows[j])
        /\ \A v \in Writers, j \in ProviderIds : v # w /\ i # j => ~Clash(row, wrote[v][j])
    BY <1>1, <1>4, <2>2, RowFits
  <2>. QED  BY <1>1, <1>2, <2>1, <2>3, RowChanges
<1>. QED  BY <1>3, <1>4

\* A set of naturals that is not empty has a least member.
LEMMA LeastRow ==
    ASSUME NEW F \in SUBSET ProviderIds, F # {}
    PROVE  \E i \in F : \A j \in F : i <= j
<1> DEFINE Less == {ss \in Nat \X Nat : ss[1] < ss[2]}
<1>1. F \subseteq Nat
  BY ProvidersAssumption
<1>2. IsWellFoundedOn(Less, Nat)
  BY NatLessThanWellFounded DEF OpToRel
<1>3. PICK i \in F : \A j \in F : <<j, i>> \notin Less
  <2>. HIDE DEF Less
  <2>. QED  BY <1>1, <1>2, WFMin
<1>4. ASSUME NEW j \in F
      PROVE  i <= j
  <2>1. i \in Nat /\ j \in Nat /\ ~(j < i)
    BY <1>1, <1>3
  <2>. QED  BY <2>1
<1>. QED  BY <1>4

LEMMA NextRowChosen ==
    ASSUME NEW t, FreeRows(t) # {}
    PROVE  /\ NextRow(t) \in FreeRows(t) /\ NextRow(t) \in ProviderIds
           /\ \A j \in FreeRows(t) : NextRow(t) <= j
<1>1. FreeRows(t) \in SUBSET ProviderIds
  BY DEF FreeRows
<1>2. \E i \in FreeRows(t) : \A j \in FreeRows(t) : i <= j
  BY <1>1, LeastRow
<1>. QED  BY <1>1, <1>2 DEF NextRow

LEMMA InsertRowKeeps ==
    ASSUME IntegrationInv, NEW w \in Writers, InsertRow(w)
    PROVE  IntegrationInv'
<1>1. /\ request[w].at = "insert" /\ NextRow(rows) \in ProviderIds
      /\ WriteNow(w, NextRow(rows), request[w].seen)
  BY NextRowChosen DEF InsertRow
<1>2. request[w].seen \in ProviderRow
  BY OfWriter DEF RequestRecord
<1>. QED  BY <1>1, <1>2, WriteNowKeeps

\* The request of w is over, and nothing else has changed.
LEMMA CloseKeeps ==
    ASSUME IntegrationInv, NEW w \in Writers, request[w].at \notin {"promote", "state", "commit"},
           request' = [request EXCEPT ![w] = NoOp],
           UNCHANGED <<rows, wrote, overlapped, broken, started>>
    PROVE  IntegrationInv'
<1>1. \A i \in ProviderIds : wrote[w][i] = Unwritten
  BY OfWriter DEF Writes
<1>2. /\ NoOp \in RequestRecord /\ Routes(NoOp)
      /\ Writes(NoOp, wrote[w]) /\ Heirs(NoOp, wrote[w])
  BY <1>1, NoOpRoutes
<1>3. overlapped' \subseteq Writers /\ broken' \subseteq Writers /\ started' \in 0..MaxRequests
  BY OfWriter
<1>. QED  BY <1>2, <1>3, ReadKeeps

LEMMA UpdateRowKeeps ==
    ASSUME IntegrationInv, NEW w \in Writers, UpdateRow(w)
    PROVE  IntegrationInv'
<1> DEFINE i == request[w].id
           row == [rows[i] EXCEPT !.name = request[w].name]
<1>1. request[w].at = "update" /\ request[w] \in RequestRecord /\ Routes(request[w])
  BY OfWriter DEF UpdateRow
<1>2. CASE Exists(rows[i]) /\ WriteNow(w, i, row)
  <2>1. i \in ProviderIds
    BY <1>1 DEF Routes
  <2>2. rows[i] \in ProviderRow /\ request[w].name \in ProviderNames \cup {"none"}
    BY <1>1, <2>1, OfWriter DEF Tables, RequestRecord
  <2>3. row \in ProviderRow
    BY <2>2 DEF ProviderRow
  <2>. HIDE DEF row, i
  <2>. QED  BY <1>1, <1>2, <2>1, <2>3, WriteNowKeeps
<1>3. CASE request' = [request EXCEPT ![w] = NoOp]
           /\ UNCHANGED <<rows, wrote, overlapped, broken, started>>
  BY <1>1, <1>3, CloseKeeps
<1>. QED  BY <1>2, <1>3 DEF UpdateRow, CloseRequest

LEMMA DeleteRowKeeps ==
    ASSUME IntegrationInv, NEW w \in Writers, DeleteRow(w)
    PROVE  IntegrationInv'
<1> DEFINE i == request[w].id
<1>1. /\ request[w].at = "delete" /\ ~Locked(w, i)
      /\ request' = [request EXCEPT ![w] = NoOp] /\ rows' = [rows EXCEPT ![i] = NoRow]
      /\ wrote' = wrote /\ overlapped' = overlapped /\ broken' = broken /\ started' = started
      /\ Routes(request[w])
  BY OfWriter DEF DeleteRow, CloseRequest
<1>2. i \in ProviderIds
  BY <1>1 DEF Routes
<1>3. /\ NoRow \in ProviderRow /\ ~NoRow.primary /\ ~Exists(NoRow)
  BY DEF NoRow, ProviderRow, Exists
<1>4. \A s : ~Clash(NoRow, s)
  BY <1>3 DEF Clash
<1>5. overlapped' \subseteq Writers /\ broken' \subseteq Writers /\ started' \in 0..MaxRequests
  BY <1>1, OfWriter
<1>. HIDE DEF i
<1>. QED  BY <1>1, <1>2, <1>3, <1>4, <1>5, RowChanges

\* A statement that only reads, at which w has written nothing and after which it has
\* not set the state of its row.
LEMMA LookKeeps ==
    ASSUME IntegrationInv, NEW w \in Writers, NEW r \in RequestRecord,
           request[w].at \in {"read", "list", "scan"},
           request' = [request EXCEPT ![w] = r], Routes(r),
           r.at # "commit", r.at = "state" /\ r.kind = "disable" => r.target = 0,
           UNCHANGED <<rows, wrote, overlapped, broken, started>>
    PROVE  IntegrationInv'
<1>1. \A i \in ProviderIds : wrote[w][i] = Unwritten
  BY OfWriter DEF Writes
<1>2. Writes(r, wrote[w]) /\ Heirs(r, wrote[w])
  BY <1>1, UnwrittenApart DEF Writes, Heirs
<1>3. overlapped' \subseteq Writers /\ broken' \subseteq Writers /\ started' \in 0..MaxRequests
  BY OfWriter
<1>. QED  BY <1>2, <1>3, ReadKeeps

LEMMA ReadRowKeeps ==
    ASSUME IntegrationInv, NEW w \in Writers, ReadRow(w)
    PROVE  IntegrationInv'
<1> DEFINE row == rows[request[w].id]
           there == CASE request[w].kind = "update" -> "update"
                      [] request[w].kind = "enable" -> "state"
                      [] request[w].kind = "set_primary" -> "scan"
                      [] OTHER -> IF row.primary THEN "list" ELSE "state"
           r == [request[w] EXCEPT !.seen = row, !.at = there]
<1>1. /\ request[w].at = "read" /\ request[w] \in RequestRecord /\ Routes(request[w])
      /\ request \in [Writers -> RequestRecord]
      /\ UNCHANGED <<rows, wrote, overlapped, broken, started>>
  BY OfWriter DEF ReadRow
<1>2. request' = [request EXCEPT ![w] = IF ~Exists(row) THEN NoOp ELSE r]
  BY <1>1 DEF ReadRow
<1>3. CASE ~Exists(row)
  BY <1>1, <1>2, <1>3, CloseKeeps
<1>4. CASE Exists(row)
  <2>1. /\ request[w].id \in ProviderIds /\ request[w].kind \in StateActions \cup {"update"}
        /\ request[w].target = 0
    BY <1>1 DEF Routes, StateActions
  <2>2. row \in ProviderRow
    BY <2>1, OfWriter DEF Tables
  <2>3. /\ there \in {"update", "state", "scan", "list"}
        /\ there = "update" => request[w].kind = "update"
        /\ there = "state" => request[w].kind \in {"enable", "disable"}
        /\ there = "scan" => request[w].kind = "set_primary"
        /\ there = "list" => request[w].kind = "disable"
    BY <2>1 DEF StateActions
  <2>. HIDE DEF there, row
  <2>4. /\ r \in RequestRecord /\ r.kind = request[w].kind /\ r.id = request[w].id
        /\ r.at = there /\ r.target = 0
    BY <1>1, <2>1, <2>2, <2>3 DEF RequestRecord, Stages
  <2>. HIDE DEF r
  <2>5. Routes(r)
    BY <2>1, <2>3, <2>4 DEF Routes, StateActions
  <2>6. request' = [request EXCEPT ![w] = r]
    BY <1>2, <1>4
  <2>. QED  BY <1>1, <2>3, <2>4, <2>5, <2>6, LookKeeps
<1>. QED  BY <1>3, <1>4

\* There is a fallback to promote: a primary one, or the oldest.
LEMMA FallbackChosen ==
    ASSUME NEW F \in SUBSET ProviderIds, F # {}, NEW t
    PROVE  \E i \in F : \A j \in F : t[i].primary \/ (~t[j].primary /\ i <= j)
<1>1. CASE \E i \in F : t[i].primary
  BY <1>1
<1>2. CASE \A i \in F : ~t[i].primary
  BY <1>2, LeastRow
<1>. QED  BY <1>1, <1>2

LEMMA ListFallbacksKeeps ==
    ASSUME IntegrationInv, NEW w \in Writers, ListFallbacks(w)
    PROVE  IntegrationInv'
<1> DEFINE F == Fallbacks(w)
           heir == CHOOSE i \in F : \A j \in F : rows[i].primary \/ (~rows[j].primary /\ i <= j)
           r == [request[w] EXCEPT !.at = "scan", !.target = heir]
<1>1. /\ request[w].at = "list" /\ request[w].kind = "disable"
      /\ request[w] \in RequestRecord /\ Routes(request[w])
      /\ UNCHANGED <<rows, wrote, overlapped, broken, started>>
      /\ request' = [request EXCEPT ![w] = IF F = {} THEN NoOp ELSE r]
  BY OfWriter DEF ListFallbacks
<1>2. F \in SUBSET ProviderIds /\ request[w].id \notin F /\ request[w].id \in ProviderIds
  BY <1>1 DEF Fallbacks, Routes
<1>3. CASE F = {}
  BY <1>1, <1>3, CloseKeeps
<1>4. CASE F # {}
  <2>0. \E i \in F : \A j \in F : rows[i].primary \/ (~rows[j].primary /\ i <= j)
    <3>. HIDE DEF F
    <3>. QED  BY <1>2, <1>4, FallbackChosen
  <2>1. heir \in F
    <3>. HIDE DEF F
    <3>. QED  BY <2>0
  <2>2. heir \in ProviderIds /\ heir # request[w].id /\ heir # 0
    BY <1>2, <2>1, ProvidersAssumption
  <2>. HIDE DEF heir, F
  <2>3. /\ r \in RequestRecord /\ r.kind = "disable" /\ r.id = request[w].id
        /\ r.at = "scan" /\ r.target = heir
    BY <1>1, <2>2 DEF RequestRecord, Stages
  <2>4. request' = [request EXCEPT ![w] = r]
    BY <1>1, <1>4
  <2>. HIDE DEF r
  <2>5. Routes(r)
    BY <1>2, <2>2, <2>3 DEF Routes
  <2>. QED  BY <1>1, <2>3, <2>4, <2>5, LookKeeps
<1>. QED  BY <1>3, <1>4

LEMMA ScanPrimaryKeeps ==
    ASSUME IntegrationInv, NEW w \in Writers, ScanPrimary(w)
    PROVE  IntegrationInv'
<1> DEFINE found == {i \in ProviderIds : /\ Sees(w, i).primary
                                         /\ SameChannel(Sees(w, i), request[w].seen)}
           r == [request[w] EXCEPT !.at = "clear", !.scan = found]
<1>1. /\ request[w].at = "scan" /\ request[w] \in RequestRecord /\ Routes(request[w])
      /\ request \in [Writers -> RequestRecord]
      /\ UNCHANGED <<rows, wrote, overlapped, broken, started>>
      /\ request' = [request EXCEPT ![w].at = "clear", ![w].scan = found]
  BY OfWriter DEF ScanPrimary
<1>2. found \in SUBSET ProviderIds
  OBVIOUS
<1>. HIDE DEF found
<1>3. /\ r \in RequestRecord /\ r.kind = request[w].kind /\ r.id = request[w].id
      /\ r.at = "clear" /\ r.target = request[w].target
  BY <1>1, <1>2 DEF RequestRecord, Stages
<1>4. request' = [request EXCEPT ![w] = r]
  BY <1>1
<1>. HIDE DEF r
<1>5. Routes(r)
  BY <1>1, <1>3 DEF Routes
<1>. QED  BY <1>1, <1>3, <1>4, <1>5, LookKeeps

LEMMA ListChannelKeeps ==
    ASSUME IntegrationInv, NEW w \in Writers, ListChannel(w)
    PROVE  IntegrationInv'
<1> DEFINE first == ~\E i \in ProviderIds :
                        rows[i].active /\ ChannelOf[rows[i].name] = ChannelOf[request[w].name]
           row == [name |-> request[w].name, active |-> first, primary |-> first]
           r == [request[w] EXCEPT !.at = "insert", !.seen = row]
<1>1. /\ request[w].at = "list" /\ request[w].kind = "create"
      /\ request[w] \in RequestRecord /\ Routes(request[w])
      /\ request \in [Writers -> RequestRecord]
      /\ UNCHANGED <<rows, wrote, overlapped, broken, started>>
      /\ request' = [request EXCEPT ![w].at = "insert", ![w].seen = row]
  BY OfWriter DEF ListChannel
<1>2. first \in BOOLEAN /\ request[w].name \in ProviderNames \cup {"none"}
  BY <1>1 DEF RequestRecord
<1>. HIDE DEF first
<1>3. row \in ProviderRow
  BY <1>2 DEF ProviderRow
<1>. HIDE DEF row
<1>4. /\ r \in RequestRecord /\ r.kind = "create" /\ r.id = request[w].id
      /\ r.at = "insert" /\ r.target = request[w].target
  BY <1>1, <1>3 DEF RequestRecord, Stages
<1>5. request' = [request EXCEPT ![w] = r]
  BY <1>1
<1>. HIDE DEF r
<1>6. Routes(r)
  BY <1>1, <1>4 DEF Routes
<1>. QED  BY <1>1, <1>4, <1>5, <1>6, LookKeeps

LEMMA StartKeeps ==
    ASSUME IntegrationInv, NEW w \in Writers,
           NEW kind \in StateActions \cup {"create", "update", "delete"},
           NEW at \in {"read", "list", "delete"}, NEW id \in ProviderIds \cup {0},
           NEW name \in ProviderNames \cup {"none"},
           kind # "create" => id \in ProviderIds,
           at = "read" => kind \in StateActions \cup {"update"},
           at = "list" => kind = "create", at = "delete" => kind = "delete",
           StartRequest(w, kind, at, id, name)
    PROVE  IntegrationInv'
<1> DEFINE r == [NoOp EXCEPT !.kind = kind, !.at = at, !.id = id, !.name = name]
<1>1. /\ request[w].at = "idle" /\ started < MaxRequests /\ started' = started + 1
      /\ request' = [request EXCEPT ![w] = r] /\ UNCHANGED <<rows, wrote>>
      /\ overlapped' = IF Busy = {} THEN overlapped \ {w} ELSE overlapped \cup Busy \cup {w}
      /\ broken' = broken \ {w}
  BY DEF StartRequest
<1>2. /\ overlapped \subseteq Writers /\ broken \subseteq Writers /\ started \in 0..MaxRequests
      /\ \A i \in ProviderIds : wrote[w][i] = Unwritten
  BY <1>1, OfWriter DEF Writes
<1>3. overlapped' \subseteq Writers /\ broken' \subseteq Writers /\ started' \in 0..MaxRequests
  <2>1. Busy \subseteq Writers
    BY DEF Busy
  <2>2. overlapped' \subseteq Writers
    BY <1>1, <1>2, <2>1
  <2>3. started' \in 0..MaxRequests
    BY <1>1, <1>2, RequestsAssumption
  <2>. QED  BY <1>1, <1>2, <2>2, <2>3
<1>4. /\ r \in RequestRecord /\ r.kind = kind /\ r.at = at /\ r.id = id /\ r.target = 0
  BY DEF NoOp, RequestRecord, Stages, NoRow, ProviderRow
<1>. HIDE DEF r
<1>5. Routes(r)
  BY <1>4 DEF Routes, StateActions
<1>6. Writes(r, wrote[w]) /\ Heirs(r, wrote[w])
  BY <1>2, <1>4, UnwrittenApart DEF Writes, Heirs
<1>. QED  BY <1>1, <1>3, <1>4, <1>5, <1>6, ReadKeeps

LEMMA IntegrationBegins == IntegrationInit => IntegrationInv
<1>. SUFFICES ASSUME IntegrationInit PROVE IntegrationInv
  OBVIOUS
<1>1. /\ rows \in Tables /\ Connected(rows)
      /\ \A i \in ProviderIds : ~Exists(rows[i]) => rows[i] = NoRow
  BY DEF IntegrationInit, ConnectedTables, Tables
<1>2. /\ request = [w \in Writers |-> NoOp]
      /\ wrote = [w \in Writers |-> [i \in ProviderIds |-> Unwritten]]
      /\ overlapped = {} /\ broken = {} /\ started = 0
  BY DEF IntegrationInit
<1>3. ASSUME NEW i \in ProviderIds
      PROVE  rows[i].primary => rows[i].active
  <2>1. CASE Exists(rows[i])
    BY <1>1, <2>1 DEF Connected
  <2>2. CASE ~Exists(rows[i])
    BY <1>1, <2>2 DEF NoRow
  <2>. QED  BY <2>1, <2>2
<1>4. ASSUME NEW i \in ProviderIds, NEW j \in ProviderIds, i < j
      PROVE  ~Clash(rows[i], rows[j])
  <2>. SUFFICES ASSUME Exists(rows[i]), Exists(rows[j]) PROVE ~Clash(rows[i], rows[j])
    BY DEF Clash
  <2>1. i # j /\ rows[j].name # rows[i].name
    BY <1>1, <1>4, ProvidersAssumption DEF Connected
  <2>2. SameChannel(rows[i], rows[j]) => ~rows[j].primary
    <3>1. SameChannel(rows[i], rows[j]) =>
              i \in {k \in ProviderIds : k < j /\ SameChannel(rows[j], rows[k])}
      BY <1>4 DEF SameChannel
    <3>. QED  BY <1>1, <3>1 DEF Connected
  <2>. QED  BY <2>1, <2>2 DEF Clash
<1>5. ASSUME NEW i \in ProviderIds, NEW j \in ProviderIds, i # j
      PROVE  ~Clash(rows[i], rows[j])
  <2>1. i < j \/ j < i
    BY <1>5, ProvidersAssumption
  <2>. QED  BY <1>4, <2>1, ClashSymmetric
<1>6. NoOp \in RequestRecord /\ [i \in ProviderIds |-> Unwritten] \in Sheets
  BY NoOpRoutes, NothingWritten
<1>7. IntegrationTypeOK
  BY <1>1, <1>2, <1>3, <1>5, <1>6, RequestsAssumption
  DEF IntegrationTypeOK, RequestRecord, Sheets, Tables
<1>8. ASSUME NEW w \in Writers
      PROVE  Routes(request[w]) /\ Writes(request[w], wrote[w]) /\ Heirs(request[w], wrote[w])
  BY <1>2, NoOpRoutes
<1>9. RowLocks /\ NoClashSeen /\ NoClashWritten
  BY <1>2 DEF RowLocks, NoClashSeen, NoClashWritten
<1>. QED  BY <1>7, <1>8, <1>9 DEF IntegrationInv

LEMMA RequestKeeps ==
    ASSUME IntegrationInv, NEW w \in Writers, ProviderRequest(w)
    PROVE  IntegrationInv'
<1>1. ASSUME NEW a \in StateActions, NEW i \in ProviderIds, UpdateState(w, a, i)
      PROVE  IntegrationInv'
  <2>1. StartRequest(w, a, "read", i, "none")
    BY <1>1 DEF UpdateState
  <2>. QED  BY <2>1, StartKeeps
<1>2. ASSUME NEW n \in ProviderNames, CreateProvider(w, n)
      PROVE  IntegrationInv'
  <2>1. StartRequest(w, "create", "list", 0, n)
    BY <1>2 DEF CreateProvider
  <2>. QED  BY <2>1, StartKeeps
<1>3. ASSUME NEW i \in ProviderIds, NEW n \in ProviderNames, UpdateProvider(w, i, n)
      PROVE  IntegrationInv'
  <2>1. StartRequest(w, "update", "read", i, n)
    BY <1>3 DEF UpdateProvider
  <2>. QED  BY <2>1, StartKeeps
<1>4. ASSUME NEW i \in ProviderIds, DeleteProvider(w, i)
      PROVE  IntegrationInv'
  <2>1. StartRequest(w, "delete", "delete", i, "none")
    BY <1>4 DEF DeleteProvider
  <2>. QED  BY <2>1, StartKeeps
<1>. QED  BY <1>1, <1>2, <1>3, <1>4 DEF ProviderRequest

LEMMA AbortKeeps ==
    ASSUME IntegrationInv, NEW w \in Writers, AbortRequest(w)
    PROVE  IntegrationInv'
BY RollbackKeeps, OfWriter DEF AbortRequest

LEMMA IntegrationKept ==
    ASSUME IntegrationInv, [IntegrationNext]_integrationVars
    PROVE  IntegrationInv'
<1>1. ASSUME NEW w \in Writers, ProviderStatement(w)
      PROVE  IntegrationInv'
  BY <1>1, ReadRowKeeps, ListFallbacksKeeps, ScanPrimaryKeeps, ClearPrimaryKeeps,
     PromoteKeeps, WriteStateKeeps, CommitStateKeeps, ListChannelKeeps, InsertRowKeeps,
     UpdateRowKeeps, DeleteRowKeeps
  DEF ProviderStatement
<1>2. CASE UNCHANGED integrationVars
  <2>0. /\ UNCHANGED rows /\ UNCHANGED request /\ UNCHANGED wrote
        /\ UNCHANGED overlapped /\ UNCHANGED broken /\ UNCHANGED started
    BY <1>2 DEF integrationVars
  <2>1. IntegrationTypeOK'
    BY <2>0 DEF IntegrationInv, IntegrationTypeOK
  <2>2. ASSUME NEW w \in Writers
        PROVE  (Routes(request[w]) /\ Writes(request[w], wrote[w]) /\ Heirs(request[w], wrote[w]))'
    <3>1. Routes(request[w])'
      BY <2>0 DEF IntegrationInv, Routes
    <3>2. Writes(request[w], wrote[w])'
      BY <2>0 DEF IntegrationInv, Writes
    <3>3. Heirs(request[w], wrote[w])'
      BY <2>0 DEF IntegrationInv, Heirs
    <3>. QED  BY <3>1, <3>2, <3>3
  <2>3. RowLocks'
    BY <2>0 DEF IntegrationInv, RowLocks
  <2>4. NoClashSeen'
    BY <2>0 DEF IntegrationInv, NoClashSeen, Seen
  <2>5. NoClashWritten'
    BY <2>0 DEF IntegrationInv, NoClashWritten
  <2>. QED  BY <2>1, <2>2, <2>3, <2>4, <2>5 DEF IntegrationInv
<1>. QED  BY <1>1, <1>2, RequestKeeps, AbortKeeps DEF IntegrationNext

\* Whatever requests overlap, the committed table keeps its constraints: no two rows have
\* the same name or are primary for the same channel, and a primary row is active.  The
\* row locks and the wait of a statement for the writer of a conflicting row are enough
\* for that (UpdateState and its statements, Create, Update, Delete).
THEOREM TablesSound == IntegrationSpec => []IntegrationTypeOK
<1>1. IntegrationInv /\ [IntegrationNext]_integrationVars => IntegrationInv'
  BY IntegrationKept
<1>2. IntegrationInv => IntegrationTypeOK
  BY DEF IntegrationInv
<1>. QED  BY <1>1, <1>2, IntegrationBegins, PTL DEF IntegrationSpec

\* A request is written, ended or left alone by the step of another one only where that
\* one is not this one: at its commit it is its own step that ends it.
LEMMA CommitPromotes ==
    ASSUME IntegrationInv, NEW v \in Writers, NEW w \in Writers,
           ProviderRequest(v) \/ ProviderStatement(v) \/ AbortRequest(v),
           request[w].at = "commit", rows' # rows, request'[w].at = "idle"
    PROVE  /\ request[w].kind = "set_primary" =>
                rows'[request[w].id].primary /\ rows'[request[w].id].active
           /\ request[w].kind = "disable" /\ request[w].target # 0 =>
                rows'[request[w].target].primary /\ rows'[request[w].target].active
<1>1. request \in [Writers -> RequestRecord] /\ Routes(request[w]) /\ Heirs(request[w], wrote[w])
  BY OfWriter
<1>2. \E r : request' = [request EXCEPT ![v] = r]
  <2>1. ASSUME ProviderRequest(v)
        PROVE  \E r : request' = [request EXCEPT ![v] = r]
    BY <2>1, Zenon DEF ProviderRequest, UpdateState, CreateProvider, UpdateProvider,
                       DeleteProvider, StartRequest
  <2>2. ASSUME NEW i, NEW row, NEW there, WriteRow(v, i, row, there)
        PROVE  \E r : request' = [request EXCEPT ![v] = r]
    BY <1>1, <2>2 DEF WriteRow, Rollback, CloseRequest
  <2>3. ASSUME NEW i, NEW row, WriteNow(v, i, row)
        PROVE  \E r : request' = [request EXCEPT ![v] = r]
    BY <2>3, Zenon DEF WriteNow, CloseRequest
  <2>4. ASSUME Rollback(v)
        PROVE  \E r : request' = [request EXCEPT ![v] = r]
    BY <2>4, Zenon DEF Rollback, CloseRequest
  <2>5. ASSUME ReadRow(v) \/ ListFallbacks(v) \/ ScanPrimary(v) \/ ClearPrimary(v)
               \/ CommitState(v) \/ ListChannel(v) \/ DeleteRow(v)
        PROVE  \E r : request' = [request EXCEPT ![v] = r]
    BY <1>1, <2>5 DEF ReadRow, ListFallbacks, ScanPrimary, ClearPrimary, CommitState,
                      ListChannel, DeleteRow, CloseRequest
  <2>6. ASSUME Promote(v) \/ WriteState(v) \/ InsertRow(v) \/ UpdateRow(v)
        PROVE  \E r : request' = [request EXCEPT ![v] = r]
    BY <2>2, <2>3, <2>4, <2>6, Zenon
    DEF Promote, WriteState, SetState, InsertRow, UpdateRow, CloseRequest
  <2>. QED  BY <2>1, <2>4, <2>5, <2>6 DEF ProviderStatement, AbortRequest
<1>3. v = w
  <2>1. CASE v # w
    BY <1>1, <1>2, <2>1
  <2>. QED  BY <2>1
<1>4. CommitState(w)
  <2>1. ~ProviderRequest(w)
    BY DEF ProviderRequest, UpdateState, CreateProvider, UpdateProvider, DeleteProvider,
           StartRequest
  <2>2. ~AbortRequest(w)
    BY DEF AbortRequest, Rollback
  <2>. QED
    BY <1>3, <2>1, <2>2 DEF ProviderStatement, ReadRow, ListFallbacks, ScanPrimary,
       ClearPrimary, Promote, WriteState, ListChannel, InsertRow, UpdateRow, DeleteRow
<1>5. ASSUME NEW i \in ProviderIds, wrote[w][i].primary, wrote[w][i].active
      PROVE  rows'[i].primary /\ rows'[i].active
  <2>1. rows'[i] = wrote[w][i]
    BY <1>4, <1>5, UnwrittenApart DEF CommitState, Sees
  <2>. QED  BY <1>5, <2>1
<1>6. /\ request[w].kind = "set_primary" => request[w].id \in ProviderIds
      /\ request[w].kind = "disable" /\ request[w].target # 0 =>
            request[w].target \in ProviderIds
  BY <1>1 DEF Routes
<1>. QED  BY <1>1, <1>5, <1>6 DEF Heirs

\* A disable that promoted a fallback commits with the fallback primary and active, and a
\* set_primary with its row: no other request slips in between the clearing of the old
\* primary and the commit (updateState, promotePrimary in service.go).
THEOREM PrimaryWins == IntegrationSpec => PrimarySucceeds
<1>1. IntegrationInv /\ [IntegrationNext]_integrationVars => IntegrationInv'
  BY IntegrationKept
<1> DEFINE heir(w) == CASE request[w].kind = "set_primary" -> request[w].id
                        [] request[w].kind = "disable"     -> request[w].target
                        [] OTHER                           -> 0
           P == \A w \in Writers : request[w].at = "commit" /\ rows' # rows =>
                    (request'[w].at = "idle" /\ heir(w) # 0 =>
                        \E i \in ProviderIds : i = heir(w) /\ rows'[i].primary /\ rows'[i].active)
<1>2. ASSUME IntegrationInv, [IntegrationNext]_integrationVars
      PROVE  [P]_integrationVars
  <2>. SUFFICES ASSUME NEW w \in Writers, request[w].at = "commit", rows' # rows,
                       request'[w].at = "idle", heir(w) # 0
                PROVE  \E i \in ProviderIds : i = heir(w) /\ rows'[i].primary /\ rows'[i].active
    OBVIOUS
  <2>1. PICK v \in Writers : ProviderRequest(v) \/ ProviderStatement(v) \/ AbortRequest(v)
    BY <1>2 DEF IntegrationNext, integrationVars
  <2>2. /\ request[w].kind = "set_primary" =>
                rows'[request[w].id].primary /\ rows'[request[w].id].active
        /\ request[w].kind = "disable" /\ request[w].target # 0 =>
                rows'[request[w].target].primary /\ rows'[request[w].target].active
    BY <1>2, <2>1, CommitPromotes
  <2>3. Routes(request[w])
    BY <1>2, OfWriter
  <2>. QED  BY <2>2, <2>3 DEF Routes
<1>3. IntegrationSpec => [][P]_integrationVars
  <2>. HIDE DEF P
  <2>. QED  BY <1>1, <1>2, IntegrationBegins, PTL DEF IntegrationSpec
<1>. QED  BY <1>3 DEF PrimarySucceeds

\* The table t with the primary rows of the channel of i cleared.
Cleared(t, i) ==
    [k \in ProviderIds |-> IF t[k].primary /\ SameChannel(t[k], t[i])
                           THEN [t[k] EXCEPT !.primary = FALSE] ELSE t[k]]

\* What the statements of r have made of the table t so far.
Reaches(r, t) ==
    CASE r.at = "promote" \/ (r.at = "state" /\ r.kind = "set_primary") -> Cleared(t, r.id)
      [] r.at = "state" /\ r.kind = "disable" /\ r.target # 0 ->
            [Cleared(t, r.id) EXCEPT ![r.target] = [t[r.target] EXCEPT !.active = TRUE,
                                                                       !.primary = TRUE]]
      [] r.at = "commit" -> Outcome(t, r.kind, r.id, r.name)
      [] OTHER -> t

\* No active row of the channel of this provider.
FirstOf(t, name) ==
    ~\E j \in ProviderIds : t[j].active /\ ChannelOf[t[j].name] = ChannelOf[name]

\* The request r is on its way to its outcome: what it has read of t is still so, and
\* with what it has written it sees exactly what its statements come to.
Along(r, t, mine) ==
    /\ r.kind = "create" => r.name \in ProviderNames
    /\ r.at = "insert" =>
            r.kind = "create" /\ r.seen = [name |-> r.name, active |-> FirstOf(t, r.name),
                                           primary |-> FirstOf(t, r.name)]
    /\ r.at = "update" => r.kind = "update"
    /\ r.at = "delete" => r.kind = "delete"
    /\ r.kind \in StateActions /\ r.at # "read" => Exists(t[r.id]) /\ r.seen = t[r.id]
    /\ r.kind = "disable" /\ r.at # "read" => (t[r.id].primary <=> r.at = "list" \/ r.target # 0)
    /\ r.kind = "disable" /\ r.target # 0 =>
            r.target = Heir(t, r.id) /\ \E j \in Others(t, r.id) : t[j].active
    /\ r.at = "clear" =>
            r.scan = {k \in ProviderIds : t[k].primary /\ SameChannel(t[k], t[r.id])}
    /\ r.at = "commit" => Allowed(t, r.kind, r.id, r.name)
    /\ \A k \in ProviderIds : Seen(t, mine, k) = Reaches(r, t)[k]

\* The invariant of a request that no other one has overlapped.
Lone(w) == request[w].kind # "none" /\ w \notin overlapped
SerialInv ==
    /\ \A w \in Writers : request[w].at = "idle" => request[w].kind = "none"
    /\ \A w \in Writers : Lone(w) =>
            /\ \A v \in Writers : v # w => request[v].at = "idle"
            /\ w \notin broken
            /\ Along(request[w], rows, wrote[w])

\* A step of the request of w changes the table only to its outcome, fails on an index
\* only where it has to, and leaves the request on its way or over.
StepsWell(w) ==
    LET allowed == Allowed(rows, request[w].kind, request[w].id, request[w].name)
    IN  /\ w \in broken' => ~allowed
        /\ rows' # rows =>
              allowed /\ rows' = Outcome(rows, request[w].kind, request[w].id, request[w].name)
        /\ request'[w].kind # "none" =>
              rows' = rows /\ w \notin broken' /\ Along(request'[w], rows, wrote'[w])

\* A request that no other one overlaps finds no lock and sees the table it has made.
LEMMA LoneSees ==
    ASSUME IntegrationInv, SerialInv, NEW w \in Writers, Lone(w)
    PROVE  /\ request[w].at # "idle" /\ w \notin broken
           /\ Along(request[w], rows, wrote[w])
           /\ \A i \in ProviderIds : ~Locked(w, i)
           /\ \A i \in ProviderIds : Sees(w, i) = Reaches(request[w], rows)[i]
<1>1. /\ request[w].at # "idle" /\ w \notin broken
      /\ Along(request[w], rows, wrote[w])
      /\ \A v \in Writers : v # w => request[v].at = "idle"
  BY DEF SerialInv, Lone
<1>2. \A v \in Writers, i \in ProviderIds : v # w => wrote[v][i] = Unwritten
  BY <1>1 DEF IntegrationInv, Writes
<1>. QED  BY <1>1, <1>2, SeesIsSeen DEF Locked, Along

\* Two rows with the same fields are one row.
LEMMA SameRow ==
    ASSUME NEW r \in ProviderRow, NEW s \in ProviderRow,
           r.name = s.name, r.active <=> s.active, r.primary <=> s.primary
    PROVE  r = s
BY DEF ProviderRow

\* A statement that goes on with r and writes nothing, where w had written nothing.
LEMMA LookAlong ==
    ASSUME IntegrationInv, SerialInv, NEW w \in Writers, Lone(w),
           request[w].at \in {"read", "list", "scan"}, NEW r \in RequestRecord,
           request' = [request EXCEPT ![w] = r], UNCHANGED <<rows, wrote, broken>>,
           r.kind # "none" =>
               /\ \A mine : (\A k \in ProviderIds : mine[k] = Unwritten) => Along(r, rows, mine)
    PROVE  StepsWell(w)
<1>1. \A i \in ProviderIds : wrote[w][i] = Unwritten
  BY OfWriter DEF Writes
<1>2. request'[w] = r /\ wrote'[w] = wrote[w] /\ rows' = rows /\ broken' = broken
  BY OfWriter
<1>3. w \notin broken
  BY LoneSees
<1>. QED  BY <1>1, <1>2, <1>3 DEF StepsWell

LEMMA ReadRowAlong ==
    ASSUME IntegrationInv, SerialInv, NEW w \in Writers, Lone(w), ReadRow(w)
    PROVE  StepsWell(w)
<1> DEFINE row == rows[request[w].id]
           there == CASE request[w].kind = "update" -> "update"
                      [] request[w].kind = "enable" -> "state"
                      [] request[w].kind = "set_primary" -> "scan"
                      [] OTHER -> IF row.primary THEN "list" ELSE "state"
           r == [request[w] EXCEPT !.seen = row, !.at = there]
<1>1. /\ request[w].at = "read" /\ request[w] \in RequestRecord /\ Routes(request[w])
      /\ request \in [Writers -> RequestRecord]
      /\ UNCHANGED <<rows, wrote, broken>>
  BY OfWriter DEF ReadRow
<1>2. request' = [request EXCEPT ![w] = IF ~Exists(row) THEN NoOp ELSE r]
  BY <1>1 DEF ReadRow
<1>3. CASE ~Exists(row)
  <2>1. NoOp.kind = "none" /\ NoOp \in RequestRecord
    BY NoOpRoutes DEF NoOp
  <2>. QED  BY <1>1, <1>2, <1>3, <2>1, LookAlong
<1>4. CASE Exists(row)
  <2>1. /\ request[w].id \in ProviderIds /\ request[w].kind \in StateActions \cup {"update"}
        /\ request[w].target = 0
    BY <1>1 DEF Routes, StateActions
  <2>2. row \in ProviderRow
    BY <2>1, OfWriter DEF Tables
  <2>3. /\ there \in {"update", "state", "scan", "list"}
        /\ there = "update" => request[w].kind = "update"
        /\ request[w].kind = "set_primary" => there = "scan"
        /\ request[w].kind = "update" => there = "update"
        /\ request[w].kind = "disable" => (there = "list" <=> row.primary)
    BY <2>1 DEF StateActions
  <2>. HIDE DEF there
  <2>4. /\ r \in RequestRecord /\ r.kind = request[w].kind /\ r.id = request[w].id
        /\ r.at = there /\ r.target = 0 /\ r.seen = row
    <3>. HIDE DEF row
    <3>. QED  BY <1>1, <2>1, <2>2, <2>3 DEF RequestRecord, Stages
  <2>. HIDE DEF r
  <2>5. request' = [request EXCEPT ![w] = r]
    BY <1>2, <1>4
  <2>6. Reaches(r, rows) = rows
    BY <2>1, <2>3, <2>4 DEF Reaches, StateActions
  <2>7. \A mine : (\A k \in ProviderIds : mine[k] = Unwritten) => Along(r, rows, mine)
    BY <1>4, <2>1, <2>3, <2>4, <2>6 DEF Along, StateActions, Seen
  <2>. QED  BY <1>1, <2>4, <2>5, <2>7, LookAlong
<1>. QED  BY <1>3, <1>4

\* The oldest active other row of the channel is one row.
LEMMA HeirIs ==
    ASSUME NEW t \in Tables, NEW i \in ProviderIds, \E j \in Others(t, i) : t[j].active
    PROVE  /\ Heir(t, i) \in Others(t, i) /\ t[Heir(t, i)].active
           /\ \A k \in Others(t, i) : t[k].active => Heir(t, i) <= k
<1> DEFINE F == {j \in Others(t, i) : t[j].active}
<1>1. F \in SUBSET ProviderIds /\ F # {}
  BY DEF Others
<1>2. \E j \in F : \A k \in F : j <= k
  <2>. HIDE DEF F
  <2>. QED  BY <1>1, LeastRow
<1>3. \E j \in Others(t, i) : t[j].active /\ \A k \in Others(t, i) : t[k].active => j <= k
  BY <1>2
<1>. QED  BY <1>3 DEF Heir

LEMMA ListFallbacksAlong ==
    ASSUME IntegrationInv, SerialInv, NEW w \in Writers, Lone(w), ListFallbacks(w)
    PROVE  StepsWell(w)
<1> DEFINE F == Fallbacks(w)
           id == request[w].id
           heir == CHOOSE i \in F : \A j \in F : rows[i].primary \/ (~rows[j].primary /\ i <= j)
           r == [request[w] EXCEPT !.at = "scan", !.target = heir]
<1>1. /\ request[w].at = "list" /\ request[w].kind = "disable"
      /\ request[w] \in RequestRecord /\ Routes(request[w]) /\ rows \in Tables
      /\ UNCHANGED <<rows, wrote, broken>>
      /\ request' = [request EXCEPT ![w] = IF F = {} THEN NoOp ELSE r]
  BY OfWriter DEF ListFallbacks
<1>2. /\ id \in ProviderIds /\ Exists(rows[id]) /\ request[w].seen = rows[id]
      /\ rows[id].primary
  BY <1>1, LoneSees DEF Routes, Along, StateActions
<1>3. F = {j \in Others(rows, id) : rows[j].active} /\ F \in SUBSET ProviderIds
  BY <1>2 DEF Fallbacks, Others
<1>4. \A j \in F : j # id /\ ~rows[j].primary /\ j \in Nat /\ j # 0 /\ j \in ProviderIds
  <2>1. ASSUME NEW j \in F
        PROVE  j \in ProviderIds /\ j # id /\ SameChannel(rows[j], rows[id])
    BY <1>2 DEF Fallbacks
  <2>2. ASSUME NEW j \in F, rows[j].primary
        PROVE  Clash(rows[j], rows[id])
    BY <1>2, <2>1, <2>2 DEF Clash, SameChannel
  <2>. QED  BY <1>2, <2>1, <2>2, ProvidersAssumption DEF IntegrationInv, IntegrationTypeOK
<1>5. CASE F = {}
  <2>1. NoOp.kind = "none" /\ NoOp \in RequestRecord
    BY NoOpRoutes DEF NoOp
  <2>. QED  BY <1>1, <1>5, <2>1, LookAlong
<1>6. CASE F # {}
  <2>1. \E i \in F : \A j \in F : rows[i].primary \/ (~rows[j].primary /\ i <= j)
    <3>. HIDE DEF F
    <3>. QED  BY <1>3, <1>6, FallbackChosen
  <2>2. heir \in F /\ \A j \in F : rows[heir].primary \/ (~rows[j].primary /\ heir <= j)
    <3>. HIDE DEF F
    <3>. QED  BY <2>1
  <2>. HIDE DEF heir
  <2>3. \E j \in Others(rows, id) : rows[j].active
    BY <1>3, <1>6
  <2>4. /\ Heir(rows, id) \in F /\ \A k \in F : Heir(rows, id) <= k
    BY <1>1, <1>2, <1>3, <2>3, HeirIs
  <2>5. heir = Heir(rows, id)
    <3>. HIDE DEF F
    <3>1. heir <= Heir(rows, id) /\ Heir(rows, id) <= heir
      BY <1>4, <2>2, <2>4
    <3>. QED  BY <1>4, <2>2, <2>4, <3>1
  <2>6. heir \in ProviderIds /\ heir # 0
    BY <1>4, <2>2
  <2>. HIDE DEF F
  <2>7. /\ r \in RequestRecord /\ r.kind = "disable" /\ r.id = id
        /\ r.at = "scan" /\ r.target = heir /\ r.seen = rows[id]
    BY <1>1, <1>2, <2>6 DEF RequestRecord, Stages
  <2>8. request' = [request EXCEPT ![w] = r]
    BY <1>1, <1>6
  <2>. HIDE DEF r
  <2>9. Reaches(r, rows) = rows
    BY <2>7 DEF Reaches
  <2>10. \A mine : (\A k \in ProviderIds : mine[k] = Unwritten) => Along(r, rows, mine)
    BY <1>2, <2>3, <2>5, <2>6, <2>7, <2>9 DEF Along, StateActions, Seen
  <2>. QED  BY <1>1, <2>7, <2>8, <2>10, LookAlong
<1>. QED  BY <1>5, <1>6

LEMMA ScanPrimaryAlong ==
    ASSUME IntegrationInv, SerialInv, NEW w \in Writers, Lone(w), ScanPrimary(w)
    PROVE  StepsWell(w)
<1> DEFINE id == request[w].id
           found == {i \in ProviderIds : /\ Sees(w, i).primary
                                         /\ SameChannel(Sees(w, i), request[w].seen)}
           r == [request[w] EXCEPT !.at = "clear", !.scan = found]
<1>1. /\ request[w].at = "scan" /\ request[w] \in RequestRecord /\ Routes(request[w])
      /\ request \in [Writers -> RequestRecord] /\ UNCHANGED <<rows, wrote, broken>>
      /\ request' = [request EXCEPT ![w].at = "clear", ![w].scan = found]
  BY OfWriter DEF ScanPrimary
<1>2. /\ Along(request[w], rows, wrote[w]) /\ request[w].kind \in {"disable", "set_primary"}
      /\ \A i \in ProviderIds : Sees(w, i) = Reaches(request[w], rows)[i]
  BY <1>1, LoneSees DEF Routes
<1>3. Exists(rows[id]) /\ request[w].seen = rows[id]
  BY <1>1, <1>2 DEF Along, StateActions
<1>4. Reaches(request[w], rows) = rows
  BY <1>1 DEF Reaches
<1>5. found = {k \in ProviderIds : rows[k].primary /\ SameChannel(rows[k], rows[id])}
  BY <1>2, <1>3, <1>4
<1>6. found \in SUBSET ProviderIds
  OBVIOUS
<1>. HIDE DEF found
<1>7. /\ r \in RequestRecord /\ r.kind = request[w].kind /\ r.id = id /\ r.name = request[w].name
      /\ r.at = "clear" /\ r.target = request[w].target /\ r.seen = request[w].seen
      /\ r.scan = found
  BY <1>1, <1>6 DEF RequestRecord, Stages
<1>8. request' = [request EXCEPT ![w] = r]
  BY <1>1
<1>. HIDE DEF r
<1>9. Reaches(r, rows) = rows
  BY <1>7 DEF Reaches
<1>10. \A mine : (\A k \in ProviderIds : mine[k] = Unwritten) => Along(r, rows, mine)
  BY <1>1, <1>2, <1>3, <1>5, <1>7, <1>9 DEF Along, StateActions, Seen
<1>. QED  BY <1>1, <1>7, <1>8, <1>10, LookAlong

\* A row of the cleared table has the name of the row it was, and its flag only in
\* another channel.
LEMMA ClearedRow ==
    ASSUME NEW t \in Tables, NEW i \in ProviderIds, NEW k \in ProviderIds
    PROVE  /\ Cleared(t, i) \in Tables
           /\ Cleared(t, i)[k] \in ProviderRow
           /\ Cleared(t, i)[k].name = t[k].name /\ Cleared(t, i)[k].active = t[k].active
           /\ Cleared(t, i)[k].primary <=> t[k].primary /\ ~SameChannel(t[k], t[i])
<1>1. \A j \in ProviderIds : /\ Cleared(t, i)[j] \in ProviderRow
                             /\ Cleared(t, i)[j].name = t[j].name
                             /\ Cleared(t, i)[j].active = t[j].active
                             /\ Cleared(t, i)[j].primary <=> t[j].primary /\ ~SameChannel(t[j], t[i])
  <2>. SUFFICES ASSUME NEW j \in ProviderIds
                PROVE  /\ Cleared(t, i)[j] \in ProviderRow
                       /\ Cleared(t, i)[j].name = t[j].name
                       /\ Cleared(t, i)[j].active = t[j].active
                       /\ Cleared(t, i)[j].primary <=> t[j].primary /\ ~SameChannel(t[j], t[i])
    OBVIOUS
  <2>1. t[j] \in ProviderRow
    BY DEF Tables
  <2>2. CASE t[j].primary /\ SameChannel(t[j], t[i])
    <3>1. Cleared(t, i)[j] = [t[j] EXCEPT !.primary = FALSE]
      BY <2>2 DEF Cleared
    <3>. QED  BY <2>1, <2>2, <3>1 DEF ProviderRow
  <2>3. CASE ~(t[j].primary /\ SameChannel(t[j], t[i]))
    <3>1. Cleared(t, i)[j] = t[j]
      BY <2>3 DEF Cleared
    <3>. QED  BY <2>1, <2>3, <3>1
  <2>. QED  BY <2>2, <2>3
<1>2. Cleared(t, i) \in Tables
  BY <1>1 DEF Cleared, Tables
<1>. QED  BY <1>1, <1>2

LEMMA ClearPrimaryAlong ==
    ASSUME IntegrationInv, SerialInv, NEW w \in Writers, Lone(w), ClearPrimary(w)
    PROVE  StepsWell(w)
<1> DEFINE id == request[w].id
           there == IF request[w].kind = "disable" THEN "promote" ELSE "state"
           r == [request[w] EXCEPT !.at = there]
           mine == [i \in ProviderIds |-> IF i \in request[w].scan /\ Sees(w, i).primary
                                          THEN [Sees(w, i) EXCEPT !.primary = FALSE]
                                          ELSE wrote[w][i]]
<1>1. /\ request[w].at = "clear" /\ request[w] \in RequestRecord /\ Routes(request[w])
      /\ request \in [Writers -> RequestRecord] /\ wrote \in [Writers -> Sheets]
      /\ rows \in Tables /\ UNCHANGED <<rows, broken>>
      /\ wrote' = [wrote EXCEPT ![w] = mine]
      /\ request' = [request EXCEPT ![w].at = there]
  BY OfWriter DEF ClearPrimary
<1>2. /\ Along(request[w], rows, wrote[w]) /\ request[w].kind \in {"disable", "set_primary"}
      /\ \A i \in ProviderIds : Sees(w, i) = Reaches(request[w], rows)[i]
      /\ w \notin broken /\ id \in ProviderIds
  BY <1>1, LoneSees DEF Routes
<1>3. \A i \in ProviderIds : wrote[w][i] = Unwritten
  BY <1>1, OfWriter DEF Writes
<1>4. Reaches(request[w], rows) = rows
  BY <1>1 DEF Reaches
<1>5. /\ Exists(rows[id]) /\ request[w].seen = rows[id]
      /\ request[w].scan = {k \in ProviderIds : rows[k].primary /\ SameChannel(rows[k], rows[id])}
      /\ request[w].kind = "disable" => (rows[id].primary <=> request[w].target # 0)
  BY <1>1, <1>2 DEF Along, StateActions
<1>6. ASSUME NEW k \in ProviderIds
      PROVE  Seen(rows, mine, k) = Cleared(rows, id)[k]
  <2>1. CASE rows[k].primary /\ SameChannel(rows[k], rows[id])
    <3>1. mine[k] = [rows[k] EXCEPT !.primary = FALSE]
      BY <1>2, <1>4, <1>5, <2>1
    <3>2. mine[k] = Cleared(rows, id)[k]
      BY <2>1, <3>1 DEF Cleared
    <3>. HIDE DEF mine, id
    <3>3. mine[k] \in ProviderRow
      BY <1>1, <1>2, <3>2, ClearedRow
    <3>4. mine[k] # Unwritten
      BY <3>3, UnwrittenApart
    <3>. QED  BY <3>2, <3>4 DEF Seen
  <2>2. CASE ~(rows[k].primary /\ SameChannel(rows[k], rows[id]))
    <3>1. mine[k] = Unwritten
      BY <1>3, <1>5, <2>2
    <3>2. Cleared(rows, id)[k] = rows[k]
      BY <2>2 DEF Cleared
    <3>. HIDE DEF mine
    <3>. QED  BY <3>1, <3>2 DEF Seen
  <2>. QED  BY <2>1, <2>2
<1>. HIDE DEF mine
<1>7. /\ r \in RequestRecord /\ r.kind = request[w].kind /\ r.id = id /\ r.name = request[w].name
      /\ r.at = there /\ r.target = request[w].target /\ r.seen = request[w].seen
  BY <1>1 DEF RequestRecord, Stages
<1>8. request'[w] = r /\ wrote'[w] = mine /\ rows' = rows /\ w \notin broken'
  BY <1>1, <1>2
<1>. HIDE DEF r
<1>9. Reaches(r, rows) = Cleared(rows, id)
  BY <1>2, <1>7 DEF Reaches
<1>10. there \in {"promote", "state"}
  OBVIOUS
<1>11. Along(r, rows, mine)
  <2>. HIDE DEF there
  <2>. QED  BY <1>1, <1>2, <1>5, <1>6, <1>7, <1>9, <1>10 DEF Along, StateActions
<1>. QED  BY <1>8, <1>11 DEF StepsWell

\* A write that a transaction makes alone, of a row that clashes with none of the others.
LEMMA WriteAlong ==
    ASSUME IntegrationInv, SerialInv, NEW w \in Writers, Lone(w), NEW i \in ProviderIds,
           NEW active \in BOOLEAN, NEW primary \in BOOLEAN, NEW there \in {"state", "commit"},
           SetState(w, i, active, primary, there), Exists(Sees(w, i)), primary => active,
           NEW r, r = [request[w] EXCEPT !.at = there],
           \A row \in ProviderRow :
               row.name = Sees(w, i).name /\ row.active = active /\ row.primary = primary =>
                   /\ \A j \in ProviderIds : j # i => ~Clash(row, Sees(w, j))
                   /\ \A mine :
                        (\A k \in ProviderIds :
                            Seen(rows, mine, k) = IF k = i THEN row ELSE Sees(w, k))
                        => Along(r, rows, mine)
    PROVE  StepsWell(w)
<1> DEFINE row == [Sees(w, i) EXCEPT !.active = active, !.primary = primary]
           mine == [wrote[w] EXCEPT ![i] = row]
<1>1. WriteRow(w, i, row, there)
  BY DEF SetState
<1>2. Sees(w, i) \in ProviderRow
  BY SeesIsSeen, SeenSound
<1>3. row \in ProviderRow /\ row.name = Sees(w, i).name /\ row.active = active /\ row.primary = primary
  BY <1>2 DEF ProviderRow
<1>. HIDE DEF row
<1>4. /\ \A j \in ProviderIds : j # i => ~Clash(row, Sees(w, j))
      /\ \A m : (\A k \in ProviderIds : Seen(rows, m, k) = IF k = i THEN row ELSE Sees(w, k))
              => Along(r, rows, m)
  BY <1>3
<1>5. ~Violates(w, i, row)
  BY <1>3, <1>4 DEF Violates
<1>6. /\ wrote' = [wrote EXCEPT ![w][i] = row] /\ request' = [request EXCEPT ![w].at = there]
      /\ rows' = rows /\ broken' = broken
  BY <1>1, <1>5 DEF WriteRow
<1>7. wrote'[w] = mine /\ request'[w] = r
  BY <1>6, OfWriter
<1>8. mine[i] = row /\ \A j \in ProviderIds : j # i => mine[j] = wrote[w][j]
  BY OfWriter DEF Sheets
<1>9. w \notin broken'
  BY <1>6, LoneSees
<1>. HIDE DEF mine
<1>10. \A k \in ProviderIds : Seen(rows, mine, k) = IF k = i THEN row ELSE Sees(w, k)
  BY <1>3, <1>8, UnwrittenApart, SeesIsSeen DEF Seen
<1>11. Along(r, rows, mine)
  BY <1>4, <1>10
<1>. QED  BY <1>6, <1>7, <1>9, <1>11 DEF StepsWell

\* What a state action comes to is a table, row by row.
LEMMA OutcomeRows ==
    ASSUME NEW t \in Tables, NEW kind \in StateActions, NEW i \in ProviderIds, NEW name
    PROVE  Outcome(t, kind, i, name) = [k \in ProviderIds |-> Outcome(t, kind, i, name)[k]]
<1>1. CASE kind = "enable"
  BY <1>1 DEF Outcome, Tables
<1>2. CASE kind = "disable"
  BY <1>2 DEF Outcome, Tables
<1>3. CASE kind = "set_primary"
  BY <1>3 DEF Outcome
<1>. QED  BY <1>1, <1>2, <1>3 DEF StateActions

\* No two rows of the table clash.
LEMMA RowsApart ==
    ASSUME IntegrationInv, NEW i \in ProviderIds
    PROVE  /\ rows \in Tables /\ rows[i] \in ProviderRow
           /\ rows[i].primary => rows[i].active
           /\ \A j \in ProviderIds : j # i =>
                /\ rows[j] \in ProviderRow
                /\ Exists(rows[i]) /\ Exists(rows[j]) => rows[i].name # rows[j].name
                /\ SameChannel(rows[i], rows[j]) => ~(rows[i].primary /\ rows[j].primary)
<1>1. /\ rows \in Tables /\ rows[i] \in ProviderRow
      /\ rows[i].primary => rows[i].active
      /\ \A j \in ProviderIds : j # i => rows[j] \in ProviderRow /\ ~Clash(rows[i], rows[j])
  BY DEF IntegrationInv, IntegrationTypeOK, Tables
<1>. QED  BY <1>1 DEF Clash, SameChannel

LEMMA PromoteAlong ==
    ASSUME IntegrationInv, SerialInv, NEW w \in Writers, Lone(w), Promote(w)
    PROVE  StepsWell(w)
<1> DEFINE id == request[w].id
           h == request[w].target
           on == TRUE
           there == "state"
           r == [request[w] EXCEPT !.at = there]
<1>1. /\ request[w].at = "promote" /\ SetState(w, h, on, on, there)
      /\ request[w] \in RequestRecord /\ Routes(request[w]) /\ rows \in Tables
  BY OfWriter DEF Promote
<1>2. /\ Along(request[w], rows, wrote[w]) /\ request[w].kind = "disable"
      /\ \A i \in ProviderIds : Sees(w, i) = Reaches(request[w], rows)[i]
      /\ id \in ProviderIds /\ h # 0 /\ h \in ProviderIds
  BY <1>1, LoneSees DEF Routes
<1>3. /\ Exists(rows[id]) /\ request[w].seen = rows[id] /\ rows[id].primary
      /\ h = Heir(rows, id) /\ \E j \in Others(rows, id) : rows[j].active
  BY <1>1, <1>2 DEF Along, StateActions
<1>4. h # id /\ SameChannel(rows[h], rows[id]) /\ rows[h].active
  BY <1>1, <1>2, <1>3, HeirIs DEF Others
<1>5. Reaches(request[w], rows) = Cleared(rows, id)
  BY <1>1 DEF Reaches
<1>6. \A i \in ProviderIds : Sees(w, i) = Cleared(rows, id)[i]
  BY <1>2, <1>5
<1>7. r.kind = "disable" /\ r.id = id /\ r.at = "state" /\ r.target = h /\ r.seen = rows[id]
  BY <1>1, <1>2, <1>3 DEF RequestRecord
<1>. HIDE DEF h, id
<1>8. Exists(Sees(w, h))
  BY <1>1, <1>2, <1>4, <1>6, ClearedRow DEF SameChannel, Exists
<1>9. ASSUME NEW row \in ProviderRow, row.name = Sees(w, h).name,
             row.active = on, row.primary = on
      PROVE  /\ \A j \in ProviderIds : j # h => ~Clash(row, Sees(w, j))
             /\ \A mine : (\A k \in ProviderIds :
                              Seen(rows, mine, k) = IF k = h THEN row ELSE Sees(w, k))
                          => Along(r, rows, mine)
  <2>. HIDE DEF r
  <2>1. row.name = rows[h].name
    BY <1>1, <1>2, <1>6, <1>9, ClearedRow
  <2>2. ASSUME NEW j \in ProviderIds, j # h
        PROVE  ~Clash(row, Sees(w, j))
    <3>1. /\ Sees(w, j).name = rows[j].name
          /\ Sees(w, j).primary => ~SameChannel(rows[j], rows[id])
      BY <1>1, <1>2, <1>6, <2>2, ClearedRow
    <3>2. Exists(rows[h]) /\ Exists(rows[j]) => rows[h].name # rows[j].name
      BY <1>2, <2>2, RowsApart
    <3>. QED  BY <1>4, <2>1, <3>1, <3>2 DEF Clash, SameChannel, Exists
  <2> DEFINE s == [rows[h] EXCEPT !.active = TRUE, !.primary = TRUE]
  <2>3. row = s
    <3>1. rows[h] \in ProviderRow
      BY <1>1, <1>2 DEF Tables
    <3>2. s \in ProviderRow /\ s.name = rows[h].name /\ s.active = TRUE /\ s.primary = TRUE
      BY <3>1 DEF ProviderRow
    <3>. HIDE DEF s
    <3>. QED  BY <1>9, <2>1, <3>2, SameRow
  <2>4. Reaches(r, rows) = [Cleared(rows, id) EXCEPT ![h] = s]
    BY <1>2, <1>7 DEF Reaches
  <2>. HIDE DEF s
  <2>5. \A k \in ProviderIds : Reaches(r, rows)[k] = IF k = h THEN row ELSE Sees(w, k)
    <3>1. Cleared(rows, id) \in Tables
      BY <1>1, <1>2, ClearedRow
    <3>. QED  BY <1>6, <2>3, <2>4, <3>1 DEF Tables
  <2>. QED  BY <1>2, <1>3, <1>7, <2>2, <2>5 DEF Along, StateActions
<1>10. on \in BOOLEAN /\ there \in {"state", "commit"} /\ r = [request[w] EXCEPT !.at = there]
  OBVIOUS
<1>. HIDE DEF r, on, there
<1>. QED  BY <1>1, <1>2, <1>8, <1>9, <1>10, WriteAlong

LEMMA EnableAlong ==
    ASSUME IntegrationInv, SerialInv, NEW w \in Writers, Lone(w), WriteState(w),
           request[w].kind = "enable"
    PROVE  StepsWell(w)
<1> DEFINE id == request[w].id
           on == TRUE
           there == "commit"
           r == [request[w] EXCEPT !.at = there]
<1>1. /\ request[w].at = "state" /\ request[w] \in RequestRecord /\ rows \in Tables
      /\ Routes(request[w]) /\ SetState(w, id, on, request[w].seen.primary, there)
  BY OfWriter DEF WriteState
<1>2. /\ Along(request[w], rows, wrote[w]) /\ id \in ProviderIds
      /\ \A i \in ProviderIds : Sees(w, i) = Reaches(request[w], rows)[i]
  BY <1>1, LoneSees DEF Routes
<1>3. Exists(rows[id]) /\ request[w].seen = rows[id]
  BY <1>1, <1>2 DEF Along, StateActions
<1>4. \A i \in ProviderIds : Sees(w, i) = rows[i]
  BY <1>1, <1>2 DEF Reaches
<1>5. r.kind = "enable" /\ r.id = id /\ r.at = "commit" /\ r.seen = rows[id]
  BY <1>1, <1>3 DEF RequestRecord
<1>6. rows[id].primary \in BOOLEAN /\ rows[id] \in ProviderRow
  BY <1>1, <1>2 DEF Tables, ProviderRow
<1>. HIDE DEF id
<1>7. ASSUME NEW row \in ProviderRow, row.name = Sees(w, id).name,
             row.active = on, row.primary = rows[id].primary
      PROVE  /\ \A j \in ProviderIds : j # id => ~Clash(row, Sees(w, j))
             /\ \A mine : (\A k \in ProviderIds :
                              Seen(rows, mine, k) = IF k = id THEN row ELSE Sees(w, k))
                          => Along(r, rows, mine)
  <2>. HIDE DEF r
  <2>1. \A j \in ProviderIds : j # id => ~Clash(row, Sees(w, j))
    BY <1>2, <1>4, <1>7, RowsApart DEF Clash, SameChannel, Exists
  <2> DEFINE s == [rows[id] EXCEPT !.active = TRUE]
  <2>2. row = s
    <3>1. s \in ProviderRow /\ s.name = rows[id].name /\ s.active = TRUE
          /\ s.primary = rows[id].primary
      BY <1>6 DEF ProviderRow
    <3>. HIDE DEF s
    <3>. QED  BY <1>2, <1>4, <1>7, <3>1, SameRow
  <2>3. Reaches(r, rows) = [rows EXCEPT ![id] = s]
    BY <1>1, <1>2, <1>5 DEF Reaches, Outcome, Tables
  <2>. HIDE DEF s
  <2>4. \A k \in ProviderIds : Reaches(r, rows)[k] = IF k = id THEN row ELSE Sees(w, k)
    BY <1>1, <1>4, <2>2, <2>3 DEF Tables
  <2>5. Allowed(rows, r.kind, r.id, r.name)
    BY <1>3, <1>5 DEF Allowed
  <2>. QED  BY <1>3, <1>5, <2>1, <2>4, <2>5 DEF Along
<1>8. Exists(Sees(w, id))
  BY <1>2, <1>3, <1>4
<1>9. on \in BOOLEAN /\ there \in {"state", "commit"} /\ r = [request[w] EXCEPT !.at = there]
      /\ SetState(w, id, on, rows[id].primary, there) /\ (rows[id].primary => on)
  BY <1>1, <1>3
<1>. HIDE DEF r, on, there
<1>. QED  BY <1>2, <1>6, <1>7, <1>8, <1>9, WriteAlong

LEMMA DisableAlong ==
    ASSUME IntegrationInv, SerialInv, NEW w \in Writers, Lone(w), WriteState(w),
           request[w].kind = "disable"
    PROVE  StepsWell(w)
<1> DEFINE id == request[w].id
           h == request[w].target
           off == FALSE
           there == "commit"
           r == [request[w] EXCEPT !.at = there]
           o == [rows[id] EXCEPT !.active = FALSE, !.primary = FALSE]
           s == [rows[h] EXCEPT !.active = TRUE, !.primary = TRUE]
<1>1. /\ request[w].at = "state" /\ request[w] \in RequestRecord /\ rows \in Tables
      /\ Routes(request[w]) /\ SetState(w, id, off, off, there)
  BY OfWriter DEF WriteState
<1>2. /\ Along(request[w], rows, wrote[w]) /\ id \in ProviderIds
      /\ \A i \in ProviderIds : Sees(w, i) = Reaches(request[w], rows)[i]
      /\ h # 0 => h \in ProviderIds /\ h # id
  BY <1>1, LoneSees DEF Routes
<1>3. /\ Exists(rows[id]) /\ request[w].seen = rows[id]
      /\ rows[id].primary <=> h # 0
      /\ h # 0 => h = Heir(rows, id) /\ \E j \in Others(rows, id) : rows[j].active
  BY <1>1, <1>2 DEF Along, StateActions
<1>4. h # 0 => SameChannel(rows[h], rows[id]) /\ rows[h].active
  BY <1>1, <1>2, <1>3, HeirIs DEF Others
<1>5. /\ h = 0 => Reaches(request[w], rows) = rows
      /\ h # 0 => Reaches(request[w], rows) = [Cleared(rows, id) EXCEPT ![h] = s]
  BY <1>1 DEF Reaches
<1>6. /\ rows[id] \in ProviderRow /\ o \in ProviderRow
      /\ o.name = rows[id].name /\ o.active = FALSE /\ o.primary = FALSE
  BY <1>1, <1>2 DEF Tables, ProviderRow
<1>7. h # 0 => /\ rows[h] \in ProviderRow /\ s \in ProviderRow
               /\ s.name = rows[h].name /\ s.active = TRUE /\ s.primary = TRUE
  BY <1>1, <1>2 DEF Tables, ProviderRow
<1>8. r.kind = "disable" /\ r.id = id /\ r.at = "commit" /\ r.target = h /\ r.seen = rows[id]
  BY <1>1, <1>3 DEF RequestRecord
<1>9. /\ h = 0 => Outcome(rows, "disable", id, r.name) = [rows EXCEPT ![id] = o]
      /\ h # 0 => Outcome(rows, "disable", id, r.name) =
                        [[rows EXCEPT ![id] = o] EXCEPT ![h].primary = TRUE]
  BY <1>3 DEF Outcome
<1>. HIDE DEF id, h, o, s
<1>10. ASSUME h # 0, NEW k \in ProviderIds
       PROVE  Sees(w, k) = IF k = h THEN s
                           ELSE IF k = id THEN [rows[id] EXCEPT !.primary = FALSE]
                           ELSE rows[k]
  <2>1. SameChannel(rows[id], rows[id])
    BY <1>3 DEF SameChannel
  <2>2. k # id => ~(rows[k].primary /\ SameChannel(rows[k], rows[id]))
    BY <1>2, <1>3, <1>10, RowsApart DEF SameChannel
  <2>3. Cleared(rows, id)[k] = IF k = id THEN [rows[id] EXCEPT !.primary = FALSE] ELSE rows[k]
    BY <1>3, <1>10, <2>1, <2>2 DEF Cleared
  <2>4. Cleared(rows, id) \in Tables
    BY <1>1, <1>2, ClearedRow
  <2>5. Sees(w, k) = IF k = h THEN s ELSE Cleared(rows, id)[k]
    BY <1>2, <1>5, <1>10, <2>4 DEF Tables
  <2>. QED  BY <2>3, <2>5
<1>11. h = 0 => \A k \in ProviderIds : Sees(w, k) = rows[k]
  BY <1>2, <1>5
<1>12. Sees(w, id).name = rows[id].name
  <2>1. [rows[id] EXCEPT !.primary = FALSE].name = rows[id].name
    BY <1>6 DEF ProviderRow
  <2>2. CASE h = 0
    BY <1>2, <1>11, <2>2
  <2>3. CASE h # 0
    <3>1. Sees(w, id) = [rows[id] EXCEPT !.primary = FALSE]
      BY <1>2, <1>10, <2>3
    <3>. QED  BY <2>1, <3>1
  <2>. QED  BY <2>2, <2>3
<1>13. \A j \in ProviderIds : j # id => Sees(w, j).name = rows[j].name
  BY <1>7, <1>10, <1>11
<1>14. ASSUME NEW k \in ProviderIds
       PROVE  Outcome(rows, "disable", id, r.name)[k] = IF k = id THEN o ELSE Sees(w, k)
  <2>. HIDE DEF r
  <2>1. CASE h = 0
    BY <1>1, <1>2, <1>9, <1>11, <2>1 DEF Tables
  <2>2. CASE h # 0
    <3> DEFINE d == [rows EXCEPT ![id] = o]
    <3>1. /\ d \in Tables /\ d[id] = o /\ \A j \in ProviderIds : j # id => d[j] = rows[j]
      BY <1>1, <1>2, <1>6 DEF Tables
    <3>2. Outcome(rows, "disable", id, r.name) = [d EXCEPT ![h].primary = TRUE]
      BY <1>9, <2>2
    <3>. HIDE DEF d
    <3>3. [d EXCEPT ![h].primary = TRUE][k] =
             IF k = h THEN [d[h] EXCEPT !.primary = TRUE] ELSE d[k]
      BY <1>2, <2>2, <3>1 DEF Tables
    <3>4. [rows[h] EXCEPT !.primary = TRUE] = s
      <4> DEFINE q == [rows[h] EXCEPT !.primary = TRUE]
      <4>1. q \in ProviderRow /\ q.name = rows[h].name /\ q.active = rows[h].active /\ q.primary = TRUE
        BY <1>7, <2>2 DEF ProviderRow
      <4>. HIDE DEF q
      <4>2. q = s
        BY <1>4, <1>7, <2>2, <4>1, SameRow
      <4>. QED  BY <4>2 DEF q
    <3>5. h # id /\ h \in ProviderIds /\ d[h] = rows[h]
      BY <1>2, <2>2, <3>1
    <3>6. CASE k = h
      BY <1>10, <2>2, <3>2, <3>3, <3>4, <3>5, <3>6
    <3>7. CASE k # h
      BY <1>10, <2>2, <3>1, <3>2, <3>3, <3>7
    <3>. QED  BY <3>6, <3>7
  <2>. QED  BY <2>1, <2>2
<1>15. ASSUME NEW row \in ProviderRow, row.name = Sees(w, id).name,
              row.active = off, row.primary = off
       PROVE  /\ \A j \in ProviderIds : j # id => ~Clash(row, Sees(w, j))
              /\ \A mine : (\A k \in ProviderIds :
                               Seen(rows, mine, k) = IF k = id THEN row ELSE Sees(w, k))
                           => Along(r, rows, mine)
  <2>. HIDE DEF r
  <2>1. ASSUME NEW j \in ProviderIds, j # id
        PROVE  ~Clash(row, Sees(w, j))
    <3>1. Exists(rows[j]) => rows[id].name # rows[j].name
      BY <1>2, <1>3, <2>1, RowsApart
    <3>. QED  BY <1>12, <1>13, <1>15, <2>1, <3>1 DEF Clash, Exists
  <2>2. row = o
    BY <1>6, <1>12, <1>15, SameRow
  <2>3. \A k \in ProviderIds : Reaches(r, rows)[k] = IF k = id THEN row ELSE Sees(w, k)
    BY <1>8, <1>14, <2>2 DEF Reaches
  <2>4. Allowed(rows, "disable", id, r.name)
    BY <1>3 DEF Allowed
  <2>. QED  BY <1>3, <1>8, <2>1, <2>3, <2>4 DEF Along
<1>16. off \in BOOLEAN /\ there \in {"state", "commit"} /\ r = [request[w] EXCEPT !.at = there]
       /\ Exists(Sees(w, id))
  BY <1>3, <1>12 DEF Exists
<1>. HIDE DEF r, off, there
<1>. QED  BY <1>1, <1>2, <1>15, <1>16, WriteAlong

LEMMA SetPrimaryAlong ==
    ASSUME IntegrationInv, SerialInv, NEW w \in Writers, Lone(w), WriteState(w),
           request[w].kind = "set_primary"
    PROVE  StepsWell(w)
<1> DEFINE id == request[w].id
           on == TRUE
           there == "commit"
           r == [request[w] EXCEPT !.at = there]
           o == [rows[id] EXCEPT !.active = TRUE, !.primary = TRUE]
<1>1. /\ request[w].at = "state" /\ request[w] \in RequestRecord /\ rows \in Tables
      /\ Routes(request[w]) /\ SetState(w, id, on, on, there)
  BY OfWriter DEF WriteState
<1>2. /\ Along(request[w], rows, wrote[w]) /\ id \in ProviderIds
      /\ \A i \in ProviderIds : Sees(w, i) = Reaches(request[w], rows)[i]
  BY <1>1, LoneSees DEF Routes
<1>3. /\ Exists(rows[id]) /\ request[w].seen = rows[id]
  BY <1>1, <1>2 DEF Along, StateActions
<1>4. \A i \in ProviderIds : Sees(w, i) = Cleared(rows, id)[i]
  BY <1>1, <1>2 DEF Reaches
<1>5. /\ rows[id] \in ProviderRow /\ o \in ProviderRow
      /\ o.name = rows[id].name /\ o.active = TRUE /\ o.primary = TRUE
  BY <1>1, <1>2 DEF Tables, ProviderRow
<1>6. /\ r.kind = "set_primary" /\ r.id = id /\ r.at = "commit" /\ r.seen = rows[id]
      /\ r.target = request[w].target
  BY <1>1, <1>3 DEF RequestRecord
<1>7. \A k \in ProviderIds : Outcome(rows, "set_primary", id, r.name)[k] =
            IF k = id THEN o
            ELSE IF k \in Others(rows, id) THEN [rows[k] EXCEPT !.primary = FALSE] ELSE rows[k]
  <2>. HIDE DEF r
  <2>. QED  BY DEF Outcome
<1>. HIDE DEF id, o
<1>8. ASSUME NEW k \in ProviderIds, k # id
      PROVE  Outcome(rows, "set_primary", id, r.name)[k] = Sees(w, k)
  <2>. HIDE DEF r
  <2>1. CASE k \in Others(rows, id)
    <3> DEFINE q == [rows[k] EXCEPT !.primary = FALSE]
    <3>1. rows[k] \in ProviderRow /\ SameChannel(rows[k], rows[id])
      BY <1>1, <2>1 DEF Tables, Others
    <3>2. q \in ProviderRow /\ q.name = rows[k].name /\ q.active = rows[k].active /\ q.primary = FALSE
      BY <3>1 DEF ProviderRow
    <3>3. Outcome(rows, "set_primary", id, r.name)[k] = q
      BY <1>7, <1>8, <2>1
    <3>. HIDE DEF q
    <3>4. q = Cleared(rows, id)[k]
      <4>1. /\ Cleared(rows, id)[k] \in ProviderRow
            /\ Cleared(rows, id)[k].name = rows[k].name
            /\ Cleared(rows, id)[k].active = rows[k].active
            /\ ~Cleared(rows, id)[k].primary
        BY <1>1, <1>2, <3>1, ClearedRow
      <4>. QED  BY <3>2, <4>1, SameRow
    <3>. QED  BY <1>4, <3>3, <3>4
  <2>2. CASE k \notin Others(rows, id)
    <3>1. ~SameChannel(rows[k], rows[id])
      BY <1>8, <2>2 DEF Others
    <3>2. Cleared(rows, id)[k] = rows[k]
      BY <3>1 DEF Cleared
    <3>. QED  BY <1>4, <1>7, <1>8, <2>2, <3>2
  <2>. QED  BY <2>1, <2>2
<1>9. \A j \in ProviderIds : /\ Sees(w, j).name = rows[j].name
                             /\ Sees(w, j).primary => ~SameChannel(rows[j], rows[id])
  BY <1>1, <1>2, <1>4, ClearedRow
<1>10. ASSUME NEW row \in ProviderRow, row.name = Sees(w, id).name,
              row.active = on, row.primary = on
       PROVE  /\ \A j \in ProviderIds : j # id => ~Clash(row, Sees(w, j))
              /\ \A mine : (\A k \in ProviderIds :
                               Seen(rows, mine, k) = IF k = id THEN row ELSE Sees(w, k))
                           => Along(r, rows, mine)
  <2>. HIDE DEF r
  <2>1. ASSUME NEW j \in ProviderIds, j # id
        PROVE  ~Clash(row, Sees(w, j))
    <3>1. Exists(rows[j]) => rows[id].name # rows[j].name
      BY <1>2, <1>3, <2>1, RowsApart
    <3>2. /\ Sees(w, j).name = rows[j].name /\ row.name = rows[id].name
          /\ Sees(w, j).primary => ~SameChannel(rows[j], rows[id])
      BY <1>2, <1>9, <1>10
    <3>. QED  BY <3>1, <3>2 DEF Clash, Exists, SameChannel
  <2>2. row = o
    BY <1>2, <1>5, <1>9, <1>10, SameRow
  <2>3. \A k \in ProviderIds : Reaches(r, rows)[k] = IF k = id THEN row ELSE Sees(w, k)
    BY <1>2, <1>6, <1>7, <1>8, <2>2 DEF Reaches
  <2>4. Allowed(rows, "set_primary", id, r.name)
    BY <1>3 DEF Allowed
  <2>. QED  BY <1>3, <1>6, <2>1, <2>3, <2>4 DEF Along, StateActions
<1>11. on \in BOOLEAN /\ there \in {"state", "commit"} /\ r = [request[w] EXCEPT !.at = there]
       /\ Exists(Sees(w, id))
  BY <1>2, <1>3, <1>9 DEF Exists
<1>. HIDE DEF r, on, there
<1>. QED  BY <1>1, <1>2, <1>10, <1>11, WriteAlong

LEMMA CommitStateAlong ==
    ASSUME IntegrationInv, SerialInv, NEW w \in Writers, Lone(w), CommitState(w)
    PROVE  StepsWell(w)
<1> DEFINE r == request[w]
<1>1. /\ r.at = "commit" /\ rows' = [i \in ProviderIds |-> Sees(w, i)]
      /\ request' = [request EXCEPT ![w] = NoOp] /\ broken' = broken
  BY DEF CommitState, CloseRequest
<1>2. /\ Along(r, rows, wrote[w]) /\ w \notin broken
      /\ \A i \in ProviderIds : Sees(w, i) = Reaches(r, rows)[i]
  BY LoneSees
<1>3. r.kind \in StateActions /\ r.id \in ProviderIds /\ rows \in Tables
      /\ request \in [Writers -> RequestRecord]
  BY <1>1, OfWriter DEF Routes, StateActions
<1>4. Reaches(r, rows) = Outcome(rows, r.kind, r.id, r.name)
  <2>. HIDE DEF r
  <2>. QED  BY <1>1 DEF Reaches
<1>5. Allowed(rows, r.kind, r.id, r.name)
  BY <1>1, <1>2 DEF Along
<1>6. request'[w].kind = "none"
  BY <1>1, <1>3 DEF NoOp
<1>. HIDE DEF r
<1>7. rows' = Outcome(rows, r.kind, r.id, r.name)
  <2>1. rows' = [i \in ProviderIds |-> Outcome(rows, r.kind, r.id, r.name)[i]]
    BY <1>1, <1>2, <1>4
  <2>. QED  BY <1>3, <2>1, OutcomeRows
<1>. QED  BY <1>1, <1>2, <1>5, <1>6, <1>7 DEF StepsWell, r

LEMMA ListChannelAlong ==
    ASSUME IntegrationInv, SerialInv, NEW w \in Writers, Lone(w), ListChannel(w)
    PROVE  StepsWell(w)
<1> DEFINE first == FirstOf(rows, request[w].name)
           row == [name |-> request[w].name, active |-> first, primary |-> first]
           r == [request[w] EXCEPT !.at = "insert", !.seen = row]
<1>1. /\ request[w].at = "list" /\ request[w].kind = "create"
      /\ request[w] \in RequestRecord /\ request \in [Writers -> RequestRecord]
      /\ UNCHANGED <<rows, wrote, broken>>
      /\ request' = [request EXCEPT ![w].at = "insert", ![w].seen = row]
  BY OfWriter DEF ListChannel, FirstOf
<1>2. first \in BOOLEAN /\ request[w].name \in ProviderNames
  BY <1>1, LoneSees DEF FirstOf, Along
<1>3. row \in ProviderRow
  <2>. HIDE DEF first
  <2>. QED  BY <1>2 DEF ProviderRow
<1>4. row = [name |-> request[w].name, active |-> FirstOf(rows, request[w].name),
             primary |-> FirstOf(rows, request[w].name)]
  OBVIOUS
<1>. HIDE DEF row, first
<1>5. /\ r \in RequestRecord /\ r.kind = "create" /\ r.name = request[w].name
      /\ r.at = "insert" /\ r.seen = row
  BY <1>1, <1>3 DEF RequestRecord, Stages
<1>6. request' = [request EXCEPT ![w] = r]
  BY <1>1
<1>. HIDE DEF r
<1>7. Reaches(r, rows) = rows
  BY <1>5 DEF Reaches
<1>8. \A mine : (\A k \in ProviderIds : mine[k] = Unwritten) => Along(r, rows, mine)
  BY <1>2, <1>4, <1>5, <1>7 DEF Along, StateActions, Seen
<1>. QED  BY <1>1, <1>5, <1>6, <1>8, LookAlong

\* A statement outside a transaction, made alone: what the unique indexes refuse is what
\* clashes with a committed row.
LEMMA NowAlone ==
    ASSUME IntegrationInv, SerialInv, NEW w \in Writers, Lone(w),
           request[w].at \in {"insert", "update"},
           NEW i \in ProviderIds, NEW row \in ProviderRow, row.primary => row.active,
           WriteNow(w, i, row)
    PROVE  /\ request'[w].kind = "none" /\ w \notin broken
           /\ \/ /\ \A j \in ProviderIds \ {i} : ~Clash(row, rows[j])
                 /\ rows' = [rows EXCEPT ![i] = row] /\ broken' = broken
              \/ /\ \E j \in ProviderIds \ {i} : Clash(row, rows[j])
                 /\ rows' = rows
<1>1. /\ \A j \in ProviderIds : ~Locked(w, j) /\ Sees(w, j) = rows[j]
      /\ w \notin broken
  BY LoneSees DEF Reaches
<1>2. request' = [request EXCEPT ![w] = NoOp] /\ request \in [Writers -> RequestRecord]
  BY OfWriter DEF WriteNow, CloseRequest
<1>3. request'[w].kind = "none"
  BY <1>2 DEF NoOp
<1>4. Violates(w, i, row) <=> \E j \in ProviderIds \ {i} : Clash(row, rows[j])
  BY <1>1 DEF Violates
<1>. QED  BY <1>1, <1>3, <1>4 DEF WriteNow

LEMMA InsertRowAlong ==
    ASSUME IntegrationInv, SerialInv, NEW w \in Writers, Lone(w), InsertRow(w)
    PROVE  StepsWell(w)
<1> DEFINE i == NextRow(rows)
           name == request[w].name
           row == request[w].seen
           first == FirstOf(rows, name)
<1>1. /\ request[w].at = "insert" /\ request[w] \in RequestRecord /\ rows \in Tables
      /\ FreeRows(rows) # {} /\ WriteNow(w, i, row)
  BY OfWriter DEF InsertRow
<1>2. /\ Along(request[w], rows, wrote[w])
      /\ i \in ProviderIds /\ i \in FreeRows(rows)
  BY <1>1, LoneSees, NextRowChosen
<1>3. /\ request[w].kind = "create" /\ name \in ProviderNames
      /\ row = [name |-> name, active |-> first, primary |-> first]
  BY <1>1, <1>2 DEF Along
<1>4. /\ row \in ProviderRow /\ row.name = name
      /\ row.active = first /\ row.primary = first
  BY <1>1, <1>3 DEF RequestRecord
<1>5. name # "none"
  BY <1>3, ProvidersAssumption
<1>6. ~Exists(rows[i])
  <2>. HIDE DEF i
  <2>1. i >= i
    BY <1>2, ProvidersAssumption
  <2>. QED  BY <1>2, <2>1 DEF FreeRows
<1>7. /\ request'[w].kind = "none" /\ w \notin broken
      /\ \/ /\ \A j \in ProviderIds \ {i} : ~Clash(row, rows[j])
            /\ rows' = [rows EXCEPT ![i] = row] /\ broken' = broken
         \/ /\ \E j \in ProviderIds \ {i} : Clash(row, rows[j])
            /\ rows' = rows
  BY <1>1, <1>2, <1>4, NowAlone
<1>8. Allowed(rows, "create", request[w].id, name) <=> \A j \in ProviderIds : rows[j].name # name
  BY <1>1 DEF Allowed, StateActions
<1>9. Outcome(rows, "create", request[w].id, name) = [rows EXCEPT ![i] = row]
  BY <1>3 DEF Outcome, FirstOf
<1>10. \A j \in ProviderIds : Clash(row, rows[j]) <=> rows[j].name = name
  <2>. SUFFICES ASSUME NEW j \in ProviderIds PROVE Clash(row, rows[j]) <=> rows[j].name = name
    OBVIOUS
  <2>1. rows[j].primary => rows[j].active
    BY RowsApart
  <2>2. ~(row.primary /\ rows[j].primary /\ SameChannel(row, rows[j]))
    BY <1>4, <2>1 DEF FirstOf, SameChannel
  <2>. HIDE DEF row, name
  <2>. QED  BY <1>4, <1>5, <2>2 DEF Clash, Exists
<1>11. rows[i].name # name
  BY <1>5, <1>6 DEF Exists
<1>. HIDE DEF i, name, row
<1>12. CASE \E j \in ProviderIds \ {i} : Clash(row, rows[j])
  BY <1>3, <1>7, <1>8, <1>10, <1>12 DEF StepsWell, name
<1>13. CASE \A j \in ProviderIds \ {i} : ~Clash(row, rows[j])
  <2>1. Allowed(rows, "create", request[w].id, name)
    BY <1>8, <1>10, <1>11, <1>13
  <2>2. rows' = Outcome(rows, "create", request[w].id, name) /\ w \notin broken'
    BY <1>7, <1>9, <1>13
  <2>. QED  BY <1>3, <1>7, <2>1, <2>2 DEF StepsWell, name
<1>. QED  BY <1>12, <1>13

LEMMA UpdateRowAlong ==
    ASSUME IntegrationInv, SerialInv, NEW w \in Writers, Lone(w), UpdateRow(w)
    PROVE  StepsWell(w)
<1> DEFINE i == request[w].id
           name == request[w].name
           row == [rows[i] EXCEPT !.name = name]
<1>1. /\ request[w].at = "update" /\ request[w] \in RequestRecord /\ rows \in Tables
      /\ Routes(request[w]) /\ request \in [Writers -> RequestRecord]
  BY OfWriter DEF UpdateRow
<1>2. /\ Along(request[w], rows, wrote[w]) /\ w \notin broken /\ i \in ProviderIds
  BY <1>1, LoneSees DEF Routes
<1>3. request[w].kind = "update"
  BY <1>1, <1>2 DEF Along
<1>4. CASE ~Exists(rows[i]) /\ CloseRequest(w) /\ UNCHANGED <<rows, wrote, broken>>
  <2>1. request'[w].kind = "none"
    BY <1>1, <1>4 DEF CloseRequest, NoOp
  <2>. QED  BY <1>2, <1>4, <2>1 DEF StepsWell
<1>5. CASE Exists(rows[i]) /\ WriteNow(w, i, row)
  <2>1. /\ rows[i] \in ProviderRow /\ name \in ProviderNames \cup {"none"}
        /\ rows[i].primary => rows[i].active
    BY <1>1, <1>2, RowsApart DEF RequestRecord
  <2>2. row \in ProviderRow /\ row.active = rows[i].active /\ row.primary = rows[i].primary
    BY <2>1 DEF ProviderRow
  <2>3. /\ Allowed(rows, "update", i, name) <=>
              \A j \in ProviderIds \ {i} : ~Clash(row, rows[j])
        /\ Outcome(rows, "update", i, name) = [rows EXCEPT ![i] = row]
    BY <1>5 DEF Allowed, Outcome, StateActions
  <2>. HIDE DEF row, i
  <2>4. /\ request'[w].kind = "none" /\ w \notin broken
        /\ \/ /\ \A j \in ProviderIds \ {i} : ~Clash(row, rows[j])
              /\ rows' = [rows EXCEPT ![i] = row] /\ broken' = broken
           \/ /\ \E j \in ProviderIds \ {i} : Clash(row, rows[j])
              /\ rows' = rows
    BY <1>1, <1>2, <1>5, <2>1, <2>2, NowAlone
  <2>. QED  BY <1>3, <2>3, <2>4 DEF StepsWell, i
<1>. QED  BY <1>4, <1>5 DEF UpdateRow

LEMMA DeleteRowAlong ==
    ASSUME IntegrationInv, SerialInv, NEW w \in Writers, Lone(w), DeleteRow(w)
    PROVE  StepsWell(w)
<1>1. /\ request[w].at = "delete" /\ rows' = [rows EXCEPT ![request[w].id] = NoRow]
      /\ request' = [request EXCEPT ![w] = NoOp] /\ broken' = broken
      /\ request \in [Writers -> RequestRecord]
  BY OfWriter DEF DeleteRow, CloseRequest
<1>2. request[w].kind = "delete" /\ w \notin broken
  BY <1>1, LoneSees DEF Along
<1>3. request'[w].kind = "none"
  BY <1>1 DEF NoOp
<1>4. /\ Allowed(rows, "delete", request[w].id, request[w].name)
      /\ Outcome(rows, "delete", request[w].id, request[w].name) = rows'
  BY <1>1 DEF Allowed, Outcome, StateActions
<1>. QED  BY <1>1, <1>2, <1>3, <1>4 DEF StepsWell

LEMMA AbortAlong ==
    ASSUME IntegrationInv, SerialInv, NEW w \in Writers, Lone(w), AbortRequest(w)
    PROVE  StepsWell(w)
<1>1. /\ request' = [request EXCEPT ![w] = NoOp] /\ rows' = rows /\ broken' = broken
      /\ request \in [Writers -> RequestRecord] /\ w \notin broken
  BY OfWriter, LoneSees DEF AbortRequest, Rollback, CloseRequest
<1>2. request'[w].kind = "none"
  BY <1>1 DEF NoOp
<1>. QED  BY <1>1, <1>2 DEF StepsWell

LEMMA StatementAlong ==
    ASSUME IntegrationInv, SerialInv, NEW w \in Writers, Lone(w),
           ProviderStatement(w) \/ AbortRequest(w)
    PROVE  StepsWell(w)
<1>1. ASSUME WriteState(w)
      PROVE  StepsWell(w)
  <2>1. request[w].kind \in StateActions
    BY <1>1, OfWriter DEF WriteState, Routes
  <2>. QED  BY <1>1, <2>1, EnableAlong, DisableAlong, SetPrimaryAlong DEF StateActions
<1>. QED
  BY <1>1, ReadRowAlong, ListFallbacksAlong, ScanPrimaryAlong, ClearPrimaryAlong,
     PromoteAlong, CommitStateAlong, ListChannelAlong, InsertRowAlong, UpdateRowAlong,
     DeleteRowAlong, AbortAlong
  DEF ProviderStatement

\* A statement of v, or its end, leaves the other requests as they were, and v goes on
\* with its own or has none.
OwnStep(v) ==
    /\ request[v].at # "idle" /\ overlapped' = overlapped
    /\ \A u \in Writers : u # v => request'[u] = request[u]
    /\ \/ request'[v].kind = "none"
       \/ request'[v].at # "idle" /\ request'[v].kind = request[v].kind

LEMMA OnlyOwnRequest ==
    ASSUME IntegrationInv, NEW v \in Writers, ProviderStatement(v) \/ AbortRequest(v)
    PROVE  OwnStep(v)
<1>1. /\ request \in [Writers -> RequestRecord] /\ request[v] \in RequestRecord
      /\ NoOp.kind = "none"
  BY OfWriter DEF NoOp
<1>2. ASSUME request[v].at # "idle", CloseRequest(v), overlapped' = overlapped
      PROVE  OwnStep(v)
  BY <1>1, <1>2 DEF CloseRequest, OwnStep
<1>3. ASSUME request[v].at # "idle", NEW there \in Stages \ {"idle"}, overlapped' = overlapped,
             request' = [request EXCEPT ![v].at = there]
      PROVE  OwnStep(v)
  BY <1>1, <1>3 DEF OwnStep, RequestRecord
<1>4. ASSUME request[v].at # "idle", NEW i, NEW row, NEW there \in Stages \ {"idle"},
             WriteRow(v, i, row, there)
      PROVE  OwnStep(v)
  BY <1>2, <1>3, <1>4 DEF WriteRow, Rollback
<1>5. ASSUME request[v].at # "idle", NEW i, NEW row, WriteNow(v, i, row)
      PROVE  OwnStep(v)
  BY <1>2, <1>5 DEF WriteNow
<1>6. ASSUME request[v].at # "idle", NEW i, NEW active, NEW primary,
             NEW there \in Stages \ {"idle"}, SetState(v, i, active, primary, there)
      PROVE  OwnStep(v)
  BY <1>2, <1>4, <1>6 DEF SetState, Rollback
<1>7. ASSUME ReadRow(v)
      PROVE  OwnStep(v)
  <2> DEFINE row == rows[request[v].id]
             there == CASE request[v].kind = "update" -> "update"
                        [] request[v].kind = "enable" -> "state"
                        [] request[v].kind = "set_primary" -> "scan"
                        [] OTHER -> IF row.primary THEN "list" ELSE "state"
             r == [request[v] EXCEPT !.seen = row, !.at = there]
  <2>1. /\ request[v].at = "read" /\ overlapped' = overlapped
        /\ request' = [request EXCEPT ![v] = IF ~Exists(row) THEN NoOp ELSE r]
    BY <1>7 DEF ReadRow
  <2>2. there # "idle"
    OBVIOUS
  <2>. HIDE DEF there, row
  <2>3. r.at # "idle" /\ r.kind = request[v].kind
    BY <1>1, <2>2 DEF RequestRecord
  <2>. HIDE DEF r
  <2>. QED  BY <1>1, <2>1, <2>3 DEF OwnStep
<1>8. ASSUME ListFallbacks(v)
      PROVE  OwnStep(v)
  <2> DEFINE heir == CHOOSE i \in Fallbacks(v) :
                        \A j \in Fallbacks(v) : rows[i].primary \/ (~rows[j].primary /\ i <= j)
             r == [request[v] EXCEPT !.at = "scan", !.target = heir]
  <2>1. /\ request[v].at = "list" /\ overlapped' = overlapped
        /\ request' = [request EXCEPT ![v] = IF Fallbacks(v) = {} THEN NoOp ELSE r]
    BY <1>8 DEF ListFallbacks
  <2>. HIDE DEF heir
  <2>2. r.at # "idle" /\ r.kind = request[v].kind
    BY <1>1 DEF RequestRecord
  <2>. HIDE DEF r
  <2>. QED  BY <1>1, <2>1, <2>2 DEF OwnStep
<1>9. ASSUME ScanPrimary(v)
      PROVE  OwnStep(v)
  BY <1>1, <1>9 DEF ScanPrimary, OwnStep, RequestRecord
<1>10. ASSUME ClearPrimary(v)
       PROVE  OwnStep(v)
  <2> DEFINE there == IF request[v].kind = "disable" THEN "promote" ELSE "state"
  <2>1. /\ request[v].at = "clear" /\ overlapped' = overlapped
        /\ request' = [request EXCEPT ![v].at = there]
    BY <1>10 DEF ClearPrimary
  <2>2. there \in Stages \ {"idle"}
    BY DEF Stages
  <2>. HIDE DEF there
  <2>. QED  BY <1>3, <2>1, <2>2
<1>11. ASSUME Promote(v) \/ WriteState(v)
       PROVE  OwnStep(v)
  <2>1. "state" \in Stages \ {"idle"} /\ "commit" \in Stages \ {"idle"}
    BY DEF Stages
  <2>2. CASE Promote(v)
    BY <1>6, <2>1, <2>2 DEF Promote
  <2>3. CASE WriteState(v)
    BY <1>6, <2>1, <2>3 DEF WriteState
  <2>. QED  BY <1>11, <2>2, <2>3
<1>12. ASSUME ListChannel(v)
       PROVE  OwnStep(v)
  BY <1>1, <1>12 DEF ListChannel, OwnStep, RequestRecord
<1>13. ASSUME CommitState(v) \/ DeleteRow(v) \/ AbortRequest(v)
       PROVE  OwnStep(v)
  BY <1>2, <1>13 DEF CommitState, DeleteRow, AbortRequest, Rollback
<1>14. ASSUME InsertRow(v) \/ UpdateRow(v)
       PROVE  OwnStep(v)
  BY <1>2, <1>5, <1>14 DEF InsertRow, UpdateRow
<1>. QED
  BY <1>7, <1>8, <1>9, <1>10, <1>11, <1>12, <1>13, <1>14 DEF ProviderStatement

\* A request starts: it is alone if no other one is in flight, and overlaps them all
\* otherwise.
LEMMA StartAlone ==
    ASSUME IntegrationInv, SerialInv, NEW v \in Writers, ProviderRequest(v)
    PROVE  /\ rows' = rows /\ broken' \subseteq broken /\ v \notin broken'
           /\ request'[v].at # "idle"
           /\ \A u \in Writers : u # v => request'[u] = request[u]
           /\ \A u \in Writers : u # v /\ request[u].kind # "none" => u \in overlapped'
           /\ v \notin overlapped' => /\ \A u \in Writers : request[u].at = "idle"
                                      /\ Along(request'[v], rows, wrote'[v])
<1>. SUFFICES ASSUME NEW kind \in StateActions \cup {"create", "update", "delete"},
                     NEW at \in {"read", "list", "delete"}, NEW id, NEW name,
                     at = "read" => kind \in StateActions \cup {"update"},
                     at = "list" => kind = "create" /\ name \in ProviderNames,
                     at = "delete" => kind = "delete",
                     StartRequest(v, kind, at, id, name)
              PROVE  /\ rows' = rows /\ broken' \subseteq broken /\ v \notin broken'
                     /\ request'[v].at # "idle"
                     /\ \A u \in Writers : u # v => request'[u] = request[u]
                     /\ \A u \in Writers : u # v /\ request[u].kind # "none" => u \in overlapped'
                     /\ v \notin overlapped' => /\ \A u \in Writers : request[u].at = "idle"
                                                /\ Along(request'[v], rows, wrote'[v])
  BY Zenon DEF ProviderRequest, UpdateState, CreateProvider, UpdateProvider, DeleteProvider
<1> DEFINE r == [NoOp EXCEPT !.kind = kind, !.at = at, !.id = id, !.name = name]
<1>1. /\ request[v].at = "idle" /\ request' = [request EXCEPT ![v] = r]
      /\ rows' = rows /\ wrote' = wrote /\ broken' = broken \ {v}
      /\ overlapped' = IF Busy = {} THEN overlapped \ {v} ELSE overlapped \cup Busy \cup {v}
  BY DEF StartRequest
<1>2. /\ r.kind = kind /\ r.at = at /\ r.id = id /\ r.name = name /\ r.target = 0
  BY DEF NoOp
<1>. HIDE DEF r
<1>3. request'[v] = r /\ \A u \in Writers : u # v => request'[u] = request[u]
  BY <1>1, OfWriter
<1>4. \A u \in Writers : u # v /\ request[u].kind # "none" => u \in overlapped'
  BY <1>1 DEF SerialInv, Busy
<1>5. v \notin overlapped' => \A u \in Writers : request[u].at = "idle"
  BY <1>1 DEF Busy
<1>6. wrote'[v] = wrote[v] /\ \A k \in ProviderIds : wrote[v][k] = Unwritten
  BY <1>1, OfWriter DEF Writes
<1>7. Reaches(r, rows) = rows
  BY <1>2 DEF Reaches
<1>8. Along(r, rows, wrote[v])
  BY <1>2, <1>6, <1>7 DEF Along, Seen, StateActions
<1>. QED  BY <1>1, <1>2, <1>3, <1>4, <1>5, <1>6, <1>8

LEMMA SerialBegins == IntegrationInit => SerialInv
BY DEF IntegrationInit, SerialInv, Lone, NoOp

\* What SerialRequests says of a step.
SerialStep ==
    \A w \in Writers : Lone(w) =>
        LET allowed == Allowed(rows, request[w].kind, request[w].id, request[w].name)
        IN  /\ w \in broken' => ~allowed
            /\ rows' # rows => allowed /\ rows' = Outcome(rows, request[w].kind, request[w].id,
                                                          request[w].name)

LEMMA SerialKept ==
    ASSUME IntegrationInv, SerialInv, IntegrationNext
    PROVE  SerialInv' /\ SerialStep
<1>1. PICK v \in Writers : ProviderRequest(v) \/ ProviderStatement(v) \/ AbortRequest(v)
  BY DEF IntegrationNext
<1>2. \A w \in Writers : /\ request[w].at = "idle" => request[w].kind = "none"
                         /\ Lone(w) => /\ \A u \in Writers : u # w => request[u].at = "idle"
                                       /\ w \notin broken
  BY DEF SerialInv
<1>3. CASE ProviderRequest(v)
  <2>1. /\ rows' = rows /\ broken' \subseteq broken /\ v \notin broken'
        /\ request'[v].at # "idle"
        /\ \A u \in Writers : u # v => request'[u] = request[u]
        /\ \A u \in Writers : u # v /\ request[u].kind # "none" => u \in overlapped'
        /\ v \notin overlapped' => /\ \A u \in Writers : request[u].at = "idle"
                                   /\ Along(request'[v], rows, wrote'[v])
    BY <1>3, StartAlone
  <2>2. SerialStep
    BY <1>2, <2>1 DEF SerialStep
  <2>3. ASSUME NEW w \in Writers, request'[w].kind # "none", w \notin overlapped'
        PROVE  /\ \A u \in Writers : u # w => request'[u].at = "idle"
               /\ w \notin broken'
               /\ Along(request'[w], rows', wrote'[w])
    <3>1. w = v
      BY <2>1, <2>3
    <3>. QED  BY <2>1, <2>3, <3>1
  <2>4. \A w \in Writers : request'[w].at = "idle" => request'[w].kind = "none"
    BY <1>2, <2>1
  <2>. QED  BY <2>2, <2>3, <2>4 DEF SerialInv, Lone
<1>4. CASE ProviderStatement(v) \/ AbortRequest(v)
  <2>1. OwnStep(v)
    BY <1>4, OnlyOwnRequest
  <2>2. ASSUME NEW w \in Writers, Lone(w)
        PROVE  w = v /\ StepsWell(w)
    <3>1. w = v
      BY <1>2, <2>1, <2>2 DEF OwnStep
    <3>. QED  BY <1>4, <2>2, <3>1, StatementAlong
  <2>3. SerialStep
    BY <2>2 DEF SerialStep, StepsWell
  <2>4. ASSUME NEW w \in Writers, request'[w].kind # "none", w \notin overlapped'
        PROVE  /\ \A u \in Writers : u # w => request'[u].at = "idle"
               /\ w \notin broken'
               /\ Along(request'[w], rows', wrote'[w])
    <3>1. w # v => Lone(w)
      BY <2>1, <2>4 DEF OwnStep, Lone
    <3>2. w = v
      BY <2>2, <3>1
    <3>3. Lone(w)
      BY <2>1, <2>4, <3>2 DEF OwnStep, Lone
    <3>4. /\ rows' = rows /\ w \notin broken' /\ Along(request'[w], rows, wrote'[w])
      BY <2>2, <2>4, <3>3 DEF StepsWell
    <3>5. \A u \in Writers : u # w => request'[u].at = "idle"
      BY <1>2, <2>1, <3>2, <3>3 DEF OwnStep
    <3>. QED  BY <3>4, <3>5
  <2>5. \A w \in Writers : request'[w].at = "idle" => request'[w].kind = "none"
    BY <1>2, <2>1 DEF OwnStep
  <2>. QED  BY <2>3, <2>4, <2>5 DEF SerialInv, Lone
<1>. QED  BY <1>1, <1>3, <1>4

\* A request that no other one overlaps does what its rules for one primary per channel
\* say: it changes the table to its outcome on the table it found, in one step, and it
\* fails on a unique index only where the outcome would break it (Create, Update, Delete,
\* UpdateState in service.go with promotePrimary and the queries they run).
THEOREM RequestsSerial == IntegrationSpec => SerialRequests
<1>1. ASSUME IntegrationInv, SerialInv, [IntegrationNext]_integrationVars
      PROVE  IntegrationInv' /\ SerialInv'
  <2>1. CASE IntegrationNext
    BY <1>1, <2>1, IntegrationKept, SerialKept
  <2>2. CASE UNCHANGED integrationVars
    <3>1. IntegrationInv'
      BY <1>1, IntegrationKept
    <3>2. SerialInv'
      <4>1. /\ UNCHANGED rows /\ UNCHANGED request /\ UNCHANGED wrote
            /\ UNCHANGED overlapped /\ UNCHANGED broken
        BY <2>2 DEF integrationVars
      <4>. QED  BY <1>1, <4>1 DEF SerialInv, Lone
    <3>. QED  BY <3>1, <3>2
  <2>. QED  BY <1>1, <2>1, <2>2
<1> DEFINE P == \A w \in Writers : request[w].kind # "none" /\ w \notin overlapped =>
                    LET r       == request[w]
                        allowed == Allowed(rows, r.kind, r.id, r.name)
                    IN  /\ w \in broken' => ~allowed
                        /\ rows' # rows => allowed /\ rows' = Outcome(rows, r.kind, r.id, r.name)
<1>2. ASSUME IntegrationInv, SerialInv, [IntegrationNext]_integrationVars
      PROVE  [P]_integrationVars
  <2>1. CASE IntegrationNext
    <3>1. SerialStep
      BY <1>2, <2>1, SerialKept
    <3>. QED  BY <3>1 DEF SerialStep, Lone
  <2>. QED  BY <1>2, <2>1
<1>3. IntegrationSpec => [][P]_integrationVars
  <2>. HIDE DEF P
  <2>. QED  BY <1>1, <1>2, IntegrationBegins, SerialBegins, PTL DEF IntegrationSpec
<1>. QED  BY <1>3 DEF SerialRequests

----------------------------------------------------------------------------
(***************************************************************************)
(* The parts side by side.                                                 *)
(***************************************************************************)

\* In the composition each part behaves as it does alone: what is proved of a part holds
\* of it there.
LEMMA PartsBehave ==
    ServicesSpec => IntegrationSpec /\ LimiterSpec /\ SubscriberSpec /\ WebSpec
<1>1. ServicesInit => IntegrationInit /\ LimiterInit /\ SubscriberInit /\ WebInit
  BY DEF ServicesInit
<1>2. ASSUME [ServicesNext]_servicesVars
      PROVE  /\ [IntegrationNext]_integrationVars
             /\ [LimiterNext]_limiterVars
             /\ [SubscriberNext]_subscriberVars
             /\ [WebNext]_webVars
  <2>1. CASE UNCHANGED servicesVars
    <3>1. UNCHANGED <<integrationVars, limiterVars, subscriberVars, webVars>>
      BY <2>1, Zenon DEF servicesVars
    <3>. QED  BY <3>1
  <2>2. CASE ServicesNext
    <3>1. \/ IntegrationNext /\ UNCHANGED <<limiterVars, subscriberVars, webVars>>
          \/ LimiterNext /\ UNCHANGED <<integrationVars, subscriberVars, webVars>>
          \/ SubscriberNext /\ UNCHANGED <<integrationVars, limiterVars, webVars>>
          \/ WebNext /\ UNCHANGED <<integrationVars, limiterVars, subscriberVars>>
      BY <2>2, Zenon DEF ServicesNext
    <3>. QED  BY <3>1
  <2>. QED  BY <1>2, <2>1, <2>2
<1>. QED
  BY <1>1, <1>2, PTL DEF ServicesSpec, IntegrationSpec, LimiterSpec, SubscriberSpec, WebSpec

\* The variables of the four parts stay within their domains, and the table of providers
\* keeps its constraints, in every behaviour of the composition that the run explores.
THEOREM ServicesTypes == ServicesSpec => []ServicesTypeOK
<1>1. LimiterInv => LimiterTypeOK
  BY DEF LimiterInv
<1>2. SubscriberInv => SubscriberTypeOK
  BY DEF SubscriberInv
<1>3. LimiterSpec => []LimiterTypeOK
  BY <1>1, LimiterBegins, LimiterKept, PTL DEF LimiterSpec
<1>4. SubscriberSpec => []SubscriberTypeOK
  BY <1>2, SubscriberBegins, SubscriberKept, PTL DEF SubscriberSpec
<1>. QED
  BY <1>3, <1>4, PartsBehave, TablesSound, WebTypes, PTL DEF ServicesTypeOK
=============================================================================
