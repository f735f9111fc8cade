-------------------------- MODULE RateLimiterProofs --------------------------
(***************************************************************************)
(* The rate limiter for every number of clients, handlers and keys, every  *)
(* capacity and rate.                                                      *)
(*                                                                         *)
(* The argument: a handler that holds a bucket looked at the clock at most *)
(* MaxStall ticks ago, and whoever set the bucket's time of last use since *)
(* then did so too, so the sweep leaves the bucket alone.  Tokens are only *)
(* taken from such buckets, so a bucket has gained Rate units with every   *)
(* tick but 2 * MaxStall since its time of last use, and one that is swept *)
(* is full: no different from the one the client gets next.                *)
(***************************************************************************)
EXTENDS RateLimiter, FiniteSetTheorems, TLAPS

\* The idle time leaves room for slow handlers.  Rounding up to seconds, and the
\* minimum of a minute, give that room unless burst / rps is a whole number of
\* seconds that is a minute or more.
Slack == Rate * (IdleTTL + 1 - 2 * MaxStall) >= Capacity

\* A handler that is at work looked at the clock at most MaxStall ticks ago.
Timely ==
  \A h \in Handlers : handler[h].at # "idle" =>
    /\ handler[h].client \in Clients
    /\ handler[h].time <= now /\ now <= handler[h].time + MaxStall

\* A handler's bucket was last seen at most MaxStall ticks before the handler's clock.
Held ==
  \A h \in Handlers : handler[h].at = "own" =>
    /\ handler[h].client \in DOMAIN limiters
    /\ handler[h].time <= limiters[handler[h].client].lastSeen + MaxStall

\* A bucket is full, or has gained Rate with every tick since it was last paid from.
Refilled ==
  \A c \in DOMAIN limiters :
    \/ limiters[c].level = Capacity
    \/ limiters[c].level >= Rate * (now - (limiters[c].lastSeen + 2 * MaxStall))

\* The map is finite, so that its size means something, and keeps to its bound.
Bounded == IsFiniteSet(DOMAIN limiters) /\ MapStaysBounded

Inv == TypeOK /\ Timely /\ Held /\ Refilled /\ Bounded

-----------------------------------------------------------------------------
(* Numbers. *)

LEMMA Constants ==
  /\ Burst \in Nat /\ Rate \in Nat /\ Rate > 0 /\ Cost \in Nat /\ Cost > 0 /\ MaxStall \in Nat /\ MaxKeys \in Nat
  /\ MaxTime \in Nat /\ "none" \notin Clients
  /\ Capacity \in Nat /\ IdleTTL \in Int /\ 2 * MaxStall <= IdleTTL
<1>1. /\ {Burst, Rate, Cost, Second, SweepInterval, MaxKeys} \subseteq Nat \ {0} /\ {MaxStall, MaxTime} \subseteq Nat
      /\ "none" \notin Clients /\ 2 * MaxStall <= IdleTTL
  BY RateLimiterAssumption
<1>2. Capacity \in Nat
  BY <1>1 DEF Capacity
<1>3. IdleTTL \in Int
  <2>1. Rate * Second \in Nat /\ Rate * Second > 0
    BY <1>1
  <2>2. (Capacity + Rate * Second - 1) \div (Rate * Second) \in Int
    BY <1>2, <2>1
  <2>3. Second * ((Capacity + Rate * Second - 1) \div (Rate * Second)) \in Int
    BY <1>1, <2>2
  <2>4. QED  BY <1>1, <2>3 DEF IdleTTL
<1>4. QED  BY <1>1, <1>2, <1>3

LEMMA Monotone ==
  ASSUME NEW m \in Int, NEW n \in Int, m <= n
  PROVE  Rate * m <= Rate * n
<1>1. Rate \in Nat
  BY Constants
<1>2. PICK k \in Nat : n = m + k
  BY SMT
<1>3. Rate * n = Rate * m + Rate * k
  BY <1>1, <1>2
<1>4. Rate * k >= 0 /\ Rate * m \in Int /\ Rate * k \in Int
  BY <1>1
<1>5. QED  BY <1>3, <1>4

\* One more tick is Rate more.
LEMMA OneMore ==
  ASSUME NEW n \in Int
  PROVE  Rate * (n + 1) = Rate * n + Rate /\ Rate * n \in Int
  BY Constants

\* A tick never fills a bucket beyond its capacity, nor does a payment overdraw it.
LEMMA LevelsStay ==
  ASSUME NEW l \in 0 .. Capacity
  PROVE  Buckets!Refill(l) \in 0 .. Capacity /\ Buckets!Pay(l) \in 0 .. Capacity
  BY Constants DEF Buckets!Refill, Buckets!Pay

\* A full bucket stays full, and any other gains Rate or becomes full.
LEMMA RefillGains ==
  ASSUME NEW l \in 0 .. Capacity
  PROVE  /\ l = Capacity => Buckets!Refill(l) = Capacity
         /\ Buckets!Refill(l) = Capacity \/ Buckets!Refill(l) = l + Rate
  BY Constants DEF Buckets!Refill

-----------------------------------------------------------------------------
(* The invariant. *)

LEMMA InitInv == Init => Inv
<1>1. SUFFICES ASSUME Init PROVE Inv
  OBVIOUS
<1>2. TypeOK
  BY <1>1, Constants DEF Init, TypeOK, Idle, Buckets!Nothing
<1>3. Timely /\ Held /\ Refilled
  BY <1>1 DEF Init, Timely, Held, Refilled, Idle
<1>4. Bounded
  BY <1>1, FS_EmptySet, Constants DEF Init, Bounded, MapStaysBounded
<1>5. QED  BY <1>2, <1>3, <1>4 DEF Inv

LEMMA TickInv ==
  ASSUME Inv, Tick
  PROVE  Inv'
<1> USE DEF Inv
<1>1. /\ now' = now + 1 /\ now < MaxTime /\ now \in 0 .. MaxTime
      /\ DOMAIN limiters' = DOMAIN limiters
      /\ \A c \in DOMAIN limiters :
           /\ limiters[c].level \in 0 .. Capacity /\ limiters[c].lastSeen \in 0 .. MaxTime
           /\ limiters'[c].level = Buckets!Refill(limiters[c].level)
           /\ limiters'[c].lastSeen = limiters[c].lastSeen
      /\ overflow' = Buckets!Refill(overflow) /\ handler' = handler /\ answer' = answer
      /\ \A h \in Handlers : handler[h].at # "idle" => now < handler[h].time + MaxStall
  BY DEF Tick, TypeOK, Entry
<1>2. TypeOK'
  <2>1. now' \in 0 .. MaxTime /\ overflow' \in 0 .. Capacity
    BY <1>1, Constants, LevelsStay DEF TypeOK
  <2>2. limiters' \in [DOMAIN limiters -> Entry]
    BY LevelsStay DEF Tick, TypeOK, Entry
  <2>3. QED  BY <1>1, <2>1, <2>2 DEF TypeOK
<1>3. Timely'
  BY <1>1, Constants DEF Timely, TypeOK
<1>4. Held'
  BY <1>1 DEF Held
<1>5. Refilled'
  <2>1. SUFFICES ASSUME NEW c \in DOMAIN limiters
                 PROVE  \/ limiters'[c].level = Capacity
                        \/ limiters'[c].level >= Rate * ((now + 1) - (limiters[c].lastSeen + 2 * MaxStall))
    BY <1>1 DEF Refilled
  <2> DEFINE n == now - (limiters[c].lastSeen + 2 * MaxStall)
  <2>2. n \in Int /\ (now + 1) - (limiters[c].lastSeen + 2 * MaxStall) = n + 1
    BY <1>1, Constants
  <2>3. Rate * (n + 1) = Rate * n + Rate /\ Rate * n \in Int
    BY <2>2, OneMore
  <2>4. limiters[c].level = Capacity \/ limiters[c].level >= Rate * n
    BY DEF Refilled
  <2> HIDE DEF n
  <2>5. QED  BY <1>1, <2>2, <2>3, <2>4, RefillGains, Constants
<1>6. Bounded'
  BY <1>1 DEF Bounded, MapStaysBounded
<1>7. QED  BY <1>2, <1>3, <1>4, <1>5, <1>6

LEMMA ArriveInv ==
  ASSUME Inv, NEW h \in Handlers, NEW c \in Clients, Arrive(h, c)
  PROVE  Inv'
<1> USE DEF Inv
<1>1. TypeOK'
  BY DEF Arrive, TypeOK
<1>2. Timely'
  BY Constants DEF Arrive, Timely, TypeOK
<1>3. Held' /\ Refilled' /\ Bounded'
  BY DEF Arrive, Held, Refilled, Bounded, MapStaysBounded, TypeOK
<1>4. QED  BY <1>1, <1>2, <1>3

\* A clock reading of a handler at work makes no demand on the bucket: it is at
\* most MaxStall ticks old.
LEMMA FreshIsRefilled ==
  ASSUME TypeOK, Timely, NEW h \in Handlers, handler[h].at # "idle"
  PROVE  Rate * (now - (handler[h].time + 2 * MaxStall)) <= 0
<1>1. now \in Int /\ handler[h].time \in Int /\ now - (handler[h].time + 2 * MaxStall) <= 0
  BY Constants DEF TypeOK, Timely
<1>2. Rate * (now - (handler[h].time + 2 * MaxStall)) <= Rate * 0
  BY <1>1, Constants, Monotone
<1>3. QED  BY <1>2, Constants

LEMMA FindEntryInv ==
  ASSUME Inv, NEW h \in Handlers, FindEntry(h)
  PROVE  Inv'
<1> USE DEF Inv
<1> DEFINE k == handler[h].client
<1>1. /\ k \in DOMAIN limiters /\ handler[h].at = "lookup"
      /\ DOMAIN limiters' = DOMAIN limiters
      /\ limiters'[k].level = limiters[k].level /\ limiters'[k].lastSeen = handler[h].time
      /\ \A c \in DOMAIN limiters \ {k} : limiters'[c] = limiters[c]
      /\ handler' = [handler EXCEPT ![h].at = "own"]
      /\ now' = now /\ overflow' = overflow /\ answer' = answer
  BY DEF FindEntry, Client, GoTo, TypeOK, Entry
<1>2. TypeOK'
  BY DEF FindEntry, Client, GoTo, TypeOK, Entry
<1>3. Timely'
  BY <1>1 DEF Timely, TypeOK
<1>4. Held'
  <2>1. SUFFICES ASSUME NEW g \in Handlers, handler'[g].at = "own"
                 PROVE  /\ handler'[g].client \in DOMAIN limiters
                        /\ handler'[g].time <= limiters'[handler'[g].client].lastSeen + MaxStall
    BY <1>1 DEF Held
  <2>2. /\ handler'[g].client = handler[g].client /\ handler'[g].time = handler[g].time
        /\ handler[g].time \in Nat /\ handler[h].time \in Nat /\ now \in Nat
        /\ g # h => handler[g].at = "own"
    BY <1>1, <2>1 DEF TypeOK
  <2>3. CASE handler[g].client = k
    <3>1. handler[g].time <= now /\ now <= handler[h].time + MaxStall
      BY <1>1, <2>2 DEF Timely
    <3>2. QED  BY <1>1, <2>2, <2>3, <3>1, Constants
  <2>4. CASE handler[g].client # k
    BY <1>1, <2>2, <2>4 DEF Held
  <2>5. QED  BY <2>3, <2>4
<1>5. Refilled'
  <2>1. Rate * (now - (handler[h].time + 2 * MaxStall)) <= 0
    BY <1>1, FreshIsRefilled
  <2>2. limiters'[k].level >= Rate * (now - (limiters'[k].lastSeen + 2 * MaxStall))
    <3>1. limiters'[k].level \in 0 .. Capacity /\ handler[h].time \in Int /\ now \in Int
      BY <1>1 DEF TypeOK, Entry
    <3>2. Rate * (now - (handler[h].time + 2 * MaxStall)) \in Int
      BY <3>1, Constants
    <3>3. QED  BY <1>1, <2>1, <3>1, <3>2, Constants
  <2>3. QED  BY <1>1, <2>2 DEF Refilled
<1>6. Bounded'
  BY <1>1 DEF Bounded, MapStaysBounded
<1>7. QED  BY <1>2, <1>3, <1>4, <1>5, <1>6

LEMMA UseOverflowInv ==
  ASSUME Inv, NEW h \in Handlers, UseOverflow(h)
  PROVE  Inv'
<1> USE DEF Inv
<1>1. TypeOK' /\ Timely' /\ Held'
  BY DEF UseOverflow, Client, GoTo, TypeOK, Timely, Held
<1>2. Refilled' /\ Bounded'
  BY DEF UseOverflow, GoTo, Refilled, Bounded, MapStaysBounded
<1>3. QED  BY <1>1, <1>2

LEMMA AddEntryInv ==
  ASSUME Inv, NEW h \in Handlers, AddEntry(h)
  PROVE  Inv'
<1> USE DEF Inv
<1> DEFINE k == handler[h].client
<1>1. /\ k \in Clients /\ k \notin DOMAIN limiters /\ handler[h].at = "lookup"
      /\ DOMAIN limiters' = DOMAIN limiters \cup {k}
      /\ limiters'[k] = [level |-> Capacity, lastSeen |-> handler[h].time]
      /\ \A c \in DOMAIN limiters : limiters'[c] = limiters[c]
      /\ handler' = [handler EXCEPT ![h].at = "own"]
      /\ now' = now /\ overflow' = overflow /\ answer' = answer
  BY DEF AddEntry, Client, GoTo, Timely
<1>2. TypeOK'
  <2>1. handler[h].time \in 0 .. MaxTime /\ Capacity \in 0 .. Capacity
    BY Constants DEF TypeOK
  <2>2. limiters' \in [DOMAIN limiters \cup {k} -> Entry]
    BY <1>1, <2>1 DEF AddEntry, Client, TypeOK, Entry
  <2>3. QED  BY <1>1, <2>2 DEF TypeOK
<1>3. Timely'
  BY <1>1 DEF Timely, TypeOK
<1>4. Held'
  <2>1. SUFFICES ASSUME NEW g \in Handlers, handler'[g].at = "own"
                 PROVE  /\ handler'[g].client \in DOMAIN limiters'
                        /\ handler'[g].time <= limiters'[handler'[g].client].lastSeen + MaxStall
    BY DEF Held
  <2>2. CASE g = h
    BY <1>1, <2>2, Constants DEF TypeOK
  <2>3. CASE g # h
    BY <1>1, <2>1, <2>3 DEF Held, TypeOK
  <2>4. QED  BY <2>2, <2>3
<1>5. Refilled'
  BY <1>1 DEF Refilled
<1>6. Bounded'
  <2>1. Cardinality(DOMAIN limiters') = Cardinality(DOMAIN limiters) + 1 /\ IsFiniteSet(DOMAIN limiters')
    BY <1>1, FS_AddElement DEF Bounded
  <2>2. Cardinality(DOMAIN limiters) < MaxKeys /\ Cardinality(DOMAIN limiters) \in Nat
    BY FS_CardinalityType DEF AddEntry, Bounded
  <2>3. QED  BY <2>1, <2>2, Constants DEF Bounded, MapStaysBounded
<1>7. QED  BY <1>2, <1>3, <1>4, <1>5, <1>6

\* A bucket that a handler holds was last seen at most 2 * MaxStall ticks ago.
LEMMA HeldIsFresh ==
  ASSUME Inv, NEW h \in Handlers, handler[h].at = "own"
  PROVE  /\ handler[h].client \in DOMAIN limiters
         /\ now - limiters[handler[h].client].lastSeen <= 2 * MaxStall
<1> USE DEF Inv
<1>1. handler[h].client \in DOMAIN limiters
      /\ handler[h].time <= limiters[handler[h].client].lastSeen + MaxStall
  BY DEF Held
<1>2. now <= handler[h].time + MaxStall
  BY DEF Timely
<1>3. now \in Int /\ handler[h].time \in Int /\ limiters[handler[h].client].lastSeen \in Int
  BY <1>1 DEF TypeOK, Entry
<1>4. QED  BY <1>1, <1>2, <1>3, Constants

LEMMA AllowOwnInv ==
  ASSUME Inv, NEW h \in Handlers, AllowOwn(h)
  PROVE  Inv'
<1> USE DEF Inv
<1> DEFINE k == handler[h].client
<1>1. /\ k \in DOMAIN limiters /\ handler[h].at = "own"
      /\ now - limiters[k].lastSeen <= 2 * MaxStall
  BY HeldIsFresh DEF AllowOwn
<1>2. /\ DOMAIN limiters' = DOMAIN limiters
      /\ limiters[k].level \in 0 .. Capacity
      /\ limiters'[k].level = Buckets!Pay(limiters[k].level) /\ limiters'[k].lastSeen = limiters[k].lastSeen
      /\ \A c \in DOMAIN limiters \ {k} : limiters'[c] = limiters[c]
      /\ handler' = [handler EXCEPT ![h] = Idle]
      /\ now' = now /\ overflow' = overflow
  BY <1>1 DEF AllowOwn, Client, TypeOK, Entry
<1>3. Buckets!Pay(limiters[k].level) \in 0 .. Capacity
  BY <1>2, LevelsStay
<1>4. TypeOK'
  <2>1. limiters' \in [DOMAIN limiters -> Entry]
    BY <1>1, <1>3 DEF AllowOwn, Client, TypeOK, Entry
  <2>2. answer' \in [client : Clients \cup {"none"}, own : BOOLEAN, admitted : BOOLEAN]
    BY <1>1 DEF AllowOwn, Client, TypeOK
  <2>3. handler' \in [Handlers -> [at : {"idle", "lookup", "own", "overflow"},
                                   client : Clients \cup {"none"}, time : 0 .. MaxTime]]
    BY <1>2, Constants DEF TypeOK, Idle
  <2>4. QED  BY <1>2, <2>1, <2>2, <2>3 DEF TypeOK
<1>5. Timely'
  BY <1>2 DEF Timely, TypeOK, Idle
<1>6. Held'
  <2>1. SUFFICES ASSUME NEW g \in Handlers, handler'[g].at = "own"
                 PROVE  /\ handler'[g].client \in DOMAIN limiters
                        /\ handler'[g].time <= limiters'[handler'[g].client].lastSeen + MaxStall
    BY <1>2 DEF Held
  <2>2. g # h /\ handler'[g] = handler[g]
    BY <1>2, <2>1 DEF TypeOK, Idle
  <2>3. handler[g].client \in DOMAIN limiters
        /\ handler[g].time <= limiters[handler[g].client].lastSeen + MaxStall
    BY <2>1, <2>2 DEF Held
  <2>4. limiters'[handler[g].client].lastSeen = limiters[handler[g].client].lastSeen
    BY <1>2, <2>3
  <2>5. QED  BY <2>2, <2>3, <2>4
<1>7. Refilled'
  <2>1. limiters'[k].level >= Rate * (now - (limiters[k].lastSeen + 2 * MaxStall))
    <3>1. now - (limiters[k].lastSeen + 2 * MaxStall) \in Int /\ now - (limiters[k].lastSeen + 2 * MaxStall) <= 0
      BY <1>1, Constants DEF TypeOK, Entry
    <3>2. Rate * (now - (limiters[k].lastSeen + 2 * MaxStall)) <= Rate * 0
      BY <3>1, Monotone
    <3>3. Rate * (now - (limiters[k].lastSeen + 2 * MaxStall)) \in Int
      BY <3>1, Constants
    <3>4. QED  BY <1>2, <1>3, <3>2, <3>3, Constants
  <2>2. QED  BY <1>2, <2>1 DEF Refilled
<1>8. Bounded'
  BY <1>2 DEF Bounded, MapStaysBounded
<1>9. QED  BY <1>4, <1>5, <1>6, <1>7, <1>8

LEMMA AllowOverflowInv ==
  ASSUME Inv, NEW h \in Handlers, AllowOverflow(h)
  PROVE  Inv'
<1> USE DEF Inv
<1>1. TypeOK'
  <2>1. Buckets!Pay(overflow) \in 0 .. Capacity /\ handler[h].client \in Clients
    BY LevelsStay DEF TypeOK, Timely, AllowOverflow
  <2>2. QED  BY <2>1, Constants DEF AllowOverflow, Client, TypeOK, Idle
<1>2. Timely' /\ Held'
  BY DEF AllowOverflow, Timely, Held, TypeOK, Idle
<1>3. Refilled' /\ Bounded'
  BY DEF AllowOverflow, Refilled, Bounded, MapStaysBounded
<1>4. QED  BY <1>1, <1>2, <1>3

LEMMA SweepInv ==
  ASSUME Inv, Sweep
  PROVE  Inv'
<1> USE DEF Inv
<1>1. /\ DOMAIN limiters' = Kept(IdleTTL) /\ Kept(IdleTTL) \subseteq DOMAIN limiters
      /\ \A c \in Kept(IdleTTL) : limiters'[c] = limiters[c]
      /\ handler' = handler /\ now' = now /\ overflow' = overflow /\ answer' = answer
  BY DEF Sweep, Kept
<1>2. TypeOK'
  <2>1. limiters' \in [Kept(IdleTTL) -> Entry]
    BY <1>1 DEF Sweep, TypeOK
  <2>2. QED  BY <1>1, <2>1 DEF TypeOK
<1>3. Timely'
  BY <1>1 DEF Timely
<1>4. Held'
  <2>1. SUFFICES ASSUME NEW h \in Handlers, handler[h].at = "own"
                 PROVE  handler[h].client \in Kept(IdleTTL)
    BY <1>1 DEF Held
  <2>2. handler[h].client \in DOMAIN limiters /\ now - limiters[handler[h].client].lastSeen <= 2 * MaxStall
    BY <2>1, HeldIsFresh
  <2>3. now - limiters[handler[h].client].lastSeen \in Int
    BY <2>2 DEF TypeOK, Entry
  <2>4. QED  BY <2>2, <2>3, Constants DEF Kept
<1>5. Refilled'
  BY <1>1 DEF Refilled
<1>6. Bounded'
  <2>1. IsFiniteSet(Kept(IdleTTL)) /\ Cardinality(Kept(IdleTTL)) <= Cardinality(DOMAIN limiters)
    BY <1>1, FS_Subset DEF Bounded
  <2>2. Cardinality(Kept(IdleTTL)) \in Nat /\ Cardinality(DOMAIN limiters) \in Nat
    BY <2>1, FS_CardinalityType DEF Bounded
  <2>3. QED  BY <1>1, <2>1, <2>2, Constants DEF Bounded, MapStaysBounded
<1>7. QED  BY <1>2, <1>3, <1>4, <1>5, <1>6

LEMMA NextInv ==
  ASSUME Inv, [Next]_vars
  PROVE  Inv'
<1>1. ASSUME NEW h \in Handlers, HandlerStep(h) PROVE Inv'
  BY <1>1, ArriveInv, FindEntryInv, UseOverflowInv, AddEntryInv, AllowOwnInv, AllowOverflowInv DEF HandlerStep
<1>2. CASE UNCHANGED vars
  BY <1>2 DEF vars, Inv, TypeOK, Timely, Held, Refilled, Bounded, MapStaysBounded
<1>3. QED  BY <1>1, <1>2, TickInv, SweepInv DEF Next, Finished

THEOREM InvariantHolds == Spec => []Inv
<1>1. QED  BY InitInv, NextInv, PTL DEF Spec

-----------------------------------------------------------------------------
(* What follows for a single state. *)

\* Clocks, buckets, the map and the handlers' variables keep their types.
THEOREM TypeCorrect == Spec => []TypeOK
<1>1. Inv => TypeOK
  BY DEF Inv
<1>2. QED  BY <1>1, InvariantHolds, PTL

\* However the sweep and the requests interleave, no bucket is evicted between a
\* handler's lookup in getLimiter and its Allow.
THEOREM HeldBucketsSurvive == Spec => []HeldBucketsAreKept
<1>1. Inv => HeldBucketsAreKept
  BY DEF Inv, Held, HeldBucketsAreKept, Client
<1>2. QED  BY <1>1, InvariantHolds, PTL

\* The map of clients never has more than MaxKeys entries.
THEOREM MapIsBounded == Spec => []MapStaysBounded
<1>1. Inv => MapStaysBounded
  BY DEF Inv, Bounded
<1>2. QED  BY <1>1, InvariantHolds, PTL

-----------------------------------------------------------------------------
(* The rate limiter implements buckets that live for ever. *)

\* The bucket of a client, which is a full one if the map has none.
Level == [c \in Clients |-> IF c \in DOMAIN limiters THEN limiters[c].level ELSE Capacity]

\* A bucket that the sweep removes is full.
LEMMA SweptIsFull ==
  ASSUME Slack, Inv, NEW c \in DOMAIN limiters \ Kept(IdleTTL)
  PROVE  limiters[c].level = Capacity
<1> DEFINE n == now - (limiters[c].lastSeen + 2 * MaxStall)
           room == IdleTTL + 1 - 2 * MaxStall
           earned == Rate * n
           needed == Rate * room
<1>1. now \in Int /\ limiters[c].lastSeen \in Int /\ limiters[c].level \in 0 .. Capacity
  BY DEF Inv, TypeOK, Entry
<1>2. n \in Int /\ room \in Int /\ room <= n
  BY <1>1, Constants DEF Kept
<1>3. limiters[c].level = Capacity \/ limiters[c].level >= earned
  BY DEF Inv, Refilled
<1>4. needed >= Capacity
  BY DEF Slack
<1> HIDE DEF n, room
<1>5. needed <= earned /\ needed \in Int /\ earned \in Int
  BY <1>2, Constants, Monotone
<1> HIDE DEF earned, needed
<1>6. QED  BY <1>1, <1>3, <1>4, <1>5, Constants

LEMMA InitImplements == Init => Buckets!Init
  BY DEF Init, Buckets!Init

LEMMA TickImplements ==
  ASSUME Inv, Tick
  PROVE  Buckets!Tick
<1>1. Buckets!Refill(Capacity) = Capacity
  BY Constants DEF Buckets!Refill
<1>2. \A c \in DOMAIN limiters : limiters'[c].level = Buckets!Refill(limiters[c].level)
  BY DEF Tick, Inv, TypeOK, Entry
<1>3. Level' = [c \in Clients |-> Buckets!Refill(Level[c])]
  BY <1>1, <1>2 DEF Tick, Level
<1>4. QED  BY <1>3 DEF Tick, Buckets!Tick, Level

LEMMA AllowOwnImplements ==
  ASSUME Inv, NEW h \in Handlers, AllowOwn(h), NEW k \in Clients, k = handler[h].client
  PROVE  Buckets!DecideOwn(k)
<1>1. k \in DOMAIN limiters
  BY DEF AllowOwn, Inv, Held
<1>2. /\ DOMAIN limiters' = DOMAIN limiters
      /\ limiters'[k].level = Buckets!Pay(limiters[k].level)
      /\ \A c \in DOMAIN limiters \ {k} : limiters'[c] = limiters[c]
  BY <1>1 DEF AllowOwn, Client, Inv, TypeOK, Entry
<1>3. Level' = [Level EXCEPT ![k] = Buckets!Pay(@)]
  BY <1>1, <1>2 DEF Level
<1>4. answer' = [client |-> k, own |-> TRUE, admitted |-> Level[k] >= Cost] /\ overflow' = overflow
  BY <1>1 DEF AllowOwn, Client, Level
<1>5. QED  BY <1>3, <1>4 DEF Buckets!DecideOwn, Level

LEMMA AllowOverflowImplements ==
  ASSUME Inv, NEW h \in Handlers, AllowOverflow(h)
  PROVE  handler[h].client \in Clients /\ Buckets!DecideShared(handler[h].client)
  BY DEF AllowOverflow, Client, Inv, Timely, Buckets!DecideShared

\* A step that changes no client's bucket.
LEMMA OthersStutter ==
  ASSUME Slack, Inv,
         \/ Sweep
         \/ UNCHANGED vars
         \/ \E h \in Handlers : \/ \E c \in Clients : Arrive(h, c)
                                \/ FindEntry(h) \/ UseOverflow(h) \/ AddEntry(h)
  PROVE  UNCHANGED <<Level, overflow, answer>>
<1>1. CASE Sweep
  <2>1. Kept(IdleTTL) \subseteq DOMAIN limiters
    BY DEF Kept
  <2>2. \A c \in DOMAIN limiters \ Kept(IdleTTL) : limiters[c].level = Capacity
    BY SweptIsFull
  <2>3. QED  BY <1>1, <2>1, <2>2 DEF Sweep, Level
<1>2. CASE UNCHANGED vars
  BY <1>2 DEF vars, Level
<1>3. ASSUME NEW h \in Handlers, NEW c \in Clients, Arrive(h, c)
      PROVE  UNCHANGED <<Level, overflow, answer>>
  BY <1>3 DEF Arrive, Level
<1>4. ASSUME NEW h \in Handlers, FindEntry(h)
      PROVE  UNCHANGED <<Level, overflow, answer>>
  <2>1. \A c \in DOMAIN limiters : limiters'[c].level = limiters[c].level
    BY <1>4 DEF FindEntry, Inv, TypeOK, Entry
  <2>2. QED  BY <1>4, <2>1 DEF FindEntry, Level
<1>5. ASSUME NEW h \in Handlers, UseOverflow(h)
      PROVE  UNCHANGED <<Level, overflow, answer>>
  BY <1>5 DEF UseOverflow, Level
<1>6. ASSUME NEW h \in Handlers, AddEntry(h)
      PROVE  UNCHANGED <<Level, overflow, answer>>
  BY <1>6 DEF AddEntry, Level
<1>7. QED  BY <1>1, <1>2, <1>3, <1>4, <1>5, <1>6

LEMMA NextImplements ==
  ASSUME Slack, Inv, [Next]_vars
  PROVE  [Buckets!Next]_<<Level, overflow, answer>>
<1>1. CASE Tick
  BY <1>1, TickImplements DEF Buckets!Next
<1>2. ASSUME NEW h \in Handlers, AllowOwn(h)
      PROVE  Buckets!Next
  <2>1. PICK k \in Clients : k = handler[h].client
    BY <1>2 DEF AllowOwn, Inv, Timely
  <2>2. QED  BY <1>2, <2>1, AllowOwnImplements DEF Buckets!Next
<1>3. ASSUME NEW h \in Handlers, AllowOverflow(h)
      PROVE  Buckets!Next
  BY <1>3, AllowOverflowImplements DEF Buckets!Next
<1>4. CASE Sweep \/ UNCHANGED vars
  BY <1>4, OthersStutter
<1>5. ASSUME NEW h \in Handlers,
             (\E c \in Clients : Arrive(h, c)) \/ FindEntry(h) \/ UseOverflow(h) \/ AddEntry(h)
      PROVE  UNCHANGED <<Level, overflow, answer>>
  BY <1>5, OthersStutter
<1>6. QED  BY <1>1, <1>2, <1>3, <1>4, <1>5 DEF Next, HandlerStep, Finished

\* If the idle time leaves room for slow handlers, every request is answered as by
\* buckets that are never evicted (ratelimit.go:50).
THEOREM EvictionCannotBeSeen == ASSUME Slack PROVE Spec => EvictionIsInvisible
<1>1. Inv /\ [Next]_vars => [Buckets!Next]_<<Level, overflow, answer>>
  BY NextImplements, Slack
<1>2. QED
  BY <1>1, InitImplements, InvariantHolds, PTL DEF Spec, EvictionIsInvisible, Buckets!Spec, Level
=============================================================================
