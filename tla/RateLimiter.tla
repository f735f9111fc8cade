---------------------------- MODULE RateLimiter -----------------------------
(***************************************************************************)
(* internal/api/middleware/ratelimit.go: one token bucket for each client  *)
(* address, in a map that is bounded by a number of keys and swept of idle *)
(* entries; clients for which the map has no room share one bucket.        *)
(*                                                                         *)
(* A request handler reads the clock, then looks its bucket up under the   *)
(* mutex, then takes a token after the mutex was released.  Time is        *)
(* discrete.  A bucket is measured in units: a tick of the clock adds Rate *)
(* of them and a request costs Cost, so Rate / Cost requests a tick are    *)
(* the rps of the configuration.                                           *)
(***************************************************************************)
EXTENDS Integers, FiniteSets

CONSTANTS Clients, Handlers,   \* client addresses and handler goroutines
          Burst, Rate, Cost,   \* burst, and rps as units a tick and a request
          Second,              \* ticks of a second
          SweepInterval,       \* ticks of the shortest idle time before an entry is swept
          MaxKeys,             \* entries the map may have
          MaxStall,            \* ticks from a handler's look at the clock to its token
          MaxTime              \* bound: ticks of the clock

Capacity == Burst * Cost

\* An idle time of the seconds that an empty bucket is filled for completely.
IdleTTLRoundedDown ==
  LET refill == Second * (Capacity \div (Rate * Second))
  IN  IF refill < SweepInterval THEN SweepInterval ELSE refill

\* The seconds an empty bucket needs to fill, rounded up, and at least the interval.
IdleTTL ==
  LET refill == Second * ((Capacity + Rate * Second - 1) \div (Rate * Second))
  IN  IF refill < SweepInterval THEN SweepInterval ELSE refill

\* Two handlers that overlap are both done so long after the earlier one's clock.
ASSUME RateLimiterAssumption ==
  /\ {Burst, Rate, Cost, Second, SweepInterval, MaxKeys} \subseteq Nat \ {0}
  /\ {MaxStall, MaxTime} \subseteq Nat
  /\ "none" \notin Clients
  /\ 2 * MaxStall <= IdleTTL

VARIABLES now,        \* the clock
          limiters,   \* the map: the bucket and the time of last use of each key
          overflow,   \* the shared bucket
          handler,    \* what each handler does, for whom, and the time it read
          answer      \* the last decision

vars == <<now, limiters, overflow, handler, answer>>

Buckets == INSTANCE TokenBuckets WITH level <- [c \in Clients |-> IF c \in DOMAIN limiters
                                                                  THEN limiters[c].level
                                                                  ELSE Capacity],
                                      shared <- overflow

Entry == [level : 0 .. Capacity, lastSeen : 0 .. MaxTime]
Idle == [at |-> "idle", client |-> "none", time |-> 0]

TypeOK ==
  /\ now \in 0 .. MaxTime
  /\ DOMAIN limiters \subseteq Clients /\ limiters \in [DOMAIN limiters -> Entry]
  /\ overflow \in 0 .. Capacity
  /\ handler \in [Handlers -> [at : {"idle", "lookup", "own", "overflow"},
                               client : Clients \cup {"none"}, time : 0 .. MaxTime]]
  /\ answer \in [client : Clients \cup {"none"}, own : BOOLEAN, admitted : BOOLEAN]

Init ==
  /\ now = 0
  /\ limiters = [c \in {} |-> Capacity]
  /\ overflow = Capacity
  /\ handler = [h \in Handlers |-> Idle]
  /\ answer = Buckets!Nothing

\* Time passes while no handler is stalled for too long, and fills every bucket.
Tick ==
  /\ now < MaxTime
  /\ \A h \in Handlers : handler[h].at # "idle" => now < handler[h].time + MaxStall
  /\ now' = now + 1
  /\ limiters' = [c \in DOMAIN limiters |-> [limiters[c] EXCEPT !.level = Buckets!Refill(@)]]
  /\ overflow' = Buckets!Refill(overflow)
  /\ UNCHANGED <<handler, answer>>

\* A request arrives and its handler reads the clock, before it takes the mutex.
Arrive(h, c) ==
  /\ handler[h].at = "idle"
  /\ handler' = [handler EXCEPT ![h] = [at |-> "lookup", client |-> c, time |-> now]]
  /\ UNCHANGED <<now, limiters, overflow, answer>>

Client(h) == handler[h].client
GoTo(h, label) == handler' = [handler EXCEPT ![h].at = label]

\* The three ways through getLimiter.  A slower handler may set lastSeen back.
FindEntry(h) ==
  /\ handler[h].at = "lookup"
  /\ Client(h) \in DOMAIN limiters
  /\ limiters' = [limiters EXCEPT ![Client(h)].lastSeen = handler[h].time]
  /\ GoTo(h, "own")
  /\ UNCHANGED <<now, overflow, answer>>

UseOverflow(h) ==
  /\ handler[h].at = "lookup"
  /\ Client(h) \notin DOMAIN limiters
  /\ Cardinality(DOMAIN limiters) >= MaxKeys
  /\ GoTo(h, "overflow")
  /\ UNCHANGED <<now, limiters, overflow, answer>>

\* A bound that is tested after the entry has been added.
AddEntryBeyond(h) ==
  /\ handler[h].at = "lookup"
  /\ Client(h) \notin DOMAIN limiters
  /\ Cardinality(DOMAIN limiters) <= MaxKeys
  /\ limiters' = [c \in DOMAIN limiters \cup {Client(h)} |->
                    IF c = Client(h) THEN [level |-> Capacity, lastSeen |-> handler[h].time]
                                     ELSE limiters[c]]
  /\ GoTo(h, "own")
  /\ UNCHANGED <<now, overflow, answer>>

AddEntry(h) ==
  /\ handler[h].at = "lookup"
  /\ Client(h) \notin DOMAIN limiters
  /\ Cardinality(DOMAIN limiters) < MaxKeys
  /\ limiters' = [c \in DOMAIN limiters \cup {Client(h)} |->
                    IF c = Client(h) THEN [level |-> Capacity, lastSeen |-> handler[h].time]
                                     ELSE limiters[c]]
  /\ GoTo(h, "own")
  /\ UNCHANGED <<now, overflow, answer>>

\* A reservation, which puts the bucket into debt where Allow refuses.
AllowOwnByReserving(h) ==
  /\ handler[h].at = "own"
  /\ limiters' = [limiters EXCEPT ![Client(h)].level = @ - Cost]
  /\ answer' = [client |-> Client(h), own |-> TRUE, admitted |-> TRUE]
  /\ handler' = [handler EXCEPT ![h] = Idle]
  /\ UNCHANGED <<now, overflow>>

\* Allow, without the mutex.
AllowOwn(h) ==
  LET l == limiters[Client(h)].level
  IN  /\ handler[h].at = "own"
      /\ limiters' = [limiters EXCEPT ![Client(h)].level = Buckets!Pay(@)]
      /\ answer' = [client |-> Client(h), own |-> TRUE, admitted |-> l >= Cost]
      /\ handler' = [handler EXCEPT ![h] = Idle]
      /\ UNCHANGED <<now, overflow>>

AllowOverflow(h) ==
  /\ handler[h].at = "overflow"
  /\ overflow' = Buckets!Pay(overflow)
  /\ answer' = [client |-> Client(h), own |-> FALSE, admitted |-> overflow >= Cost]
  /\ handler' = [handler EXCEPT ![h] = Idle]
  /\ UNCHANGED <<now, limiters>>

\* The entries that were used within the given time.
Kept(idle) == {c \in DOMAIN limiters : now - limiters[c].lastSeen <= idle}

\* A sweep that does not look at the time of last use.
SweepAll ==
  /\ DOMAIN limiters # {}
  /\ limiters' = [c \in {} |-> Capacity]
  /\ UNCHANGED <<now, overflow, handler, answer>>

\* The sweep holds the mutex for the whole map.
Sweep ==
  /\ Kept(IdleTTL) # DOMAIN limiters
  /\ limiters' = [c \in Kept(IdleTTL) |-> limiters[c]]
  /\ UNCHANGED <<now, overflow, handler, answer>>

HandlerStep(h) ==
  \/ \E c \in Clients : Arrive(h, c)
  \/ FindEntry(h) \/ UseOverflow(h) \/ AddEntry(h) \/ AllowOwn(h) \/ AllowOverflow(h)

Finished == now = MaxTime /\ UNCHANGED vars

Next == Tick \/ Sweep \/ Finished \/ \E h \in Handlers : HandlerStep(h)

Spec == Init /\ [][Next]_vars

-----------------------------------------------------------------------------
(* Properties. *)

\* The handler that holds a client's bucket can still take its token from it: no
\* sweep comes between the lookup and Allow, so a client never has two buckets.
HeldBucketsAreKept ==
  \A h \in Handlers : handler[h].at = "own" => Client(h) \in DOMAIN limiters

\* However many addresses are seen, the map keeps to its bound, and only a full
\* map sends a client that has no bucket to the shared one.
MapStaysBounded == Cardinality(DOMAIN limiters) <= MaxKeys

\* Eviction cannot be told from keeping the bucket: every request is answered as
\* by buckets that live for ever, so nobody gets a fresh burst earlier than the
\* configured rate allows, and nobody is refused for what others did
\* (comment at ratelimit.go:50).
EvictionIsInvisible == Buckets!Spec
=============================================================================
