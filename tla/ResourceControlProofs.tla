------------------------ MODULE ResourceControlProofs ------------------------
(***************************************************************************)
(* Theorems of ResourceControl for every rate, burst, table size and number  *)
(* of clients, and for any client watched.                                   *)
(***************************************************************************)
EXTENDS ResourceControl, FiniteSetTheorems, TLAPS

-----------------------------------------------------------------------------
(* Arithmetic.                                                              *)

LEMMA CapacityType == Capacity \in Nat /\ Capacity >= Minute
<1>1. Burst >= 1 /\ Burst \in Nat /\ Minute \in Nat
  BY LimitsAssumption
<1>2. Burst * Minute >= 1 * Minute
  BY <1>1
<1>3. QED
  BY <1>1, <1>2 DEF Capacity

LEMMA Spread ==
    ASSUME NEW a \in Int, NEW b \in Int
    PROVE  /\ Rate * a \in Int
           /\ Rate * (a + b) = Rate * a + Rate * b
           /\ Rate * (a - b) = Rate * a - Rate * b
BY LimitsAssumption

LEMMA OneMore ==
    ASSUME NEW a \in Int
    PROVE  Rate * (a + 1) = Rate * a + Rate /\ Rate * a \in Int
BY LimitsAssumption

LEMMA LeastGrows ==
    ASSUME NEW a \in Int, NEW b \in Int, NEW r \in Nat
    PROVE  Least(a, b + r) <= Least(a, b) + r
BY DEF Least

LEMMA Monotone ==
    ASSUME NEW a \in Nat
    PROVE  Rate * a \in Nat
BY LimitsAssumption

\* Rounding up: enough for a token, and no second more than that.
LEMMA RoundedUp ==
    ASSUME NEW x \in Nat, Rate > 0
    PROVE  LET q == (x + Rate - 1) \div Rate IN
           /\ q \in Nat
           /\ Rate * q >= x
           /\ Rate * (q - 1) < x
BY LimitsAssumption
-----------------------------------------------------------------------------
(* The invariant.  On the time axis a bucket is a line, of slope Rate, that   *)
(* is cut off at Capacity; what a window has left lies above that line, and a  *)
(* 429 names the first second at which the line is above one token.           *)

\* The uncut line of the watched client's bucket, at time x.
Line(x) == tokens[Watched] + Rate * (x - updated[Watched])

TypeInv ==
    /\ TypeOK
    /\ \A c \in known : updated[c] <= clock
    /\ since <= clock

RateInv ==
    Limiting => Minute * admitted + Level(Watched) <= Capacity + Rate * (clock - since)

RetryInv ==
    Watched \in known /\ retryAt > 0 =>
        Line(retryAt) >= Minute /\ Line(retryAt - 1) < Minute

SlotsInv ==
    MaxConcurrent > 0 => active = Cardinality(inside) /\ active <= MaxConcurrent

IInv == TypeInv /\ RateInv /\ RetryInv /\ SlotsInv /\ TableBounded

-----------------------------------------------------------------------------
(* What a bucket holds.                                                     *)

LEMMA LevelType ==
    ASSUME TypeInv, NEW c \in Clients
    PROVE  /\ Level(c) \in 0 .. Capacity
           /\ c \in known => tokens[c] + Rate * (clock - updated[c]) \in Nat
<1>1. CASE c \in known
  <2>1. clock - updated[c] \in Nat /\ tokens[c] \in 0 .. Capacity
    BY <1>1 DEF TypeInv, TypeOK
  <2>2. Rate * (clock - updated[c]) \in Nat
    BY <2>1, Monotone
  <2>3. QED
    BY <1>1, <2>1, <2>2, CapacityType DEF Level, Refilled, Least
<1>2. CASE c \notin known
  BY <1>2, CapacityType DEF Level
<1>3. QED
  BY <1>1, <1>2

\* A stale bucket is full again.
LEMMA StaleIsFull ==
    ASSUME TypeInv, NEW c \in known, Stale(c)
    PROVE  Level(c) = Capacity
<1>1. Rate * (clock - updated[c]) >= 2 * Capacity /\ tokens[c] \in Nat
  BY CapacityType DEF Stale, TypeInv, TypeOK
<1>2. clock - updated[c] \in Nat
  BY DEF TypeInv, TypeOK
<1>3. Rate * (clock - updated[c]) \in Nat
  BY <1>2, Monotone
<1>4. tokens[c] + Rate * (clock - updated[c]) >= Capacity
  BY <1>1, <1>3, CapacityType
<1>5. QED
  BY <1>1, <1>3, <1>4, CapacityType DEF Level, Refilled, Least

LEMMA LevelTypeNext ==
    ASSUME TypeInv', NEW c \in Clients
    PROVE  Level(c)' \in 0 .. Capacity
<1>1. CASE c \in known'
  <2>1. clock' - updated'[c] \in Nat /\ tokens'[c] \in 0 .. Capacity
    BY <1>1 DEF TypeInv, TypeOK
  <2>2. Rate * (clock' - updated'[c]) \in Nat
    BY <2>1, Monotone
  <2>3. QED
    BY <1>1, <2>1, <2>2, CapacityType DEF Level, Refilled, Least
<1>2. CASE c \notin known'
  BY <1>2, CapacityType DEF Level
<1>3. QED
  BY <1>1, <1>2

LEMMA LineType ==
    ASSUME TypeInv, Watched \in known, NEW x \in Int
    PROVE  Line(x) \in Int
<1>1. tokens[Watched] \in Int /\ x - updated[Watched] \in Int
  BY CapacityType, LimitsAssumption DEF TypeInv, TypeOK
<1>2. QED
  BY <1>1, LimitsAssumption DEF Line

LEMMA Rising ==
    ASSUME TypeInv, Watched \in known, NEW x \in Int, NEW y \in Int, x <= y
    PROVE  Line(x) <= Line(y)
<1>1. tokens[Watched] \in Int /\ updated[Watched] \in Int /\ y - x \in Nat
  BY CapacityType, LimitsAssumption DEF TypeInv, TypeOK
<1>2. Rate * (y - updated[Watched]) = Rate * (x - updated[Watched]) + Rate * (y - x)
      /\ Rate * (y - x) \in Nat /\ Rate * (x - updated[Watched]) \in Int
  <2>1. y - updated[Watched] = (x - updated[Watched]) + (y - x)
        /\ x - updated[Watched] \in Int /\ y - x \in Int
    BY <1>1
  <2>2. Rate * ((x - updated[Watched]) + (y - x))
          = Rate * (x - updated[Watched]) + Rate * (y - x)
        /\ Rate * (x - updated[Watched]) \in Int
    BY <2>1, Spread
  <2>3. Rate * (y - x) \in Nat
    BY <1>1, Monotone
  <2>4. QED
    BY <2>1, <2>2, <2>3
<1>3. QED
  BY <1>1, <1>2 DEF Line

LEMMA Finite == TypeOK => IsFiniteSet(known) /\ IsFiniteSet(inside)
BY LimitsAssumption, FS_Subset DEF TypeOK

-----------------------------------------------------------------------------
(* The steps.                                                               *)

LEMMA InitIInv == Init => IInv
<1> SUFFICES ASSUME Init PROVE IInv
  OBVIOUS
<1>1. TypeInv
  BY LimitsAssumption, CapacityType DEF Init, TypeInv, TypeOK
<1>2. RateInv
  BY LimitsAssumption, CapacityType DEF Init, RateInv, Level
<1>3. RetryInv /\ SlotsInv /\ TableBounded
  BY FS_EmptySet, LimitsAssumption DEF Init, RetryInv, SlotsInv, TableBounded
<1>4. QED
  BY <1>1, <1>2, <1>3 DEF IInv

LEMMA TickStep ==
    ASSUME IInv, Tick
    PROVE  IInv'
<1>1. /\ clock < MaxTime /\ clock' = clock + 1
      /\ UNCHANGED <<known, tokens, updated, active, inside, since, admitted, retryAt>>
  BY DEF Tick, bucketVars, slotVars, windowVars
<1>2. TypeInv'
  BY <1>1, LimitsAssumption DEF IInv, TypeInv, TypeOK
<1>3. RateInv'
  <2> SUFFICES ASSUME Limiting
               PROVE  Minute * admitted + Level(Watched)' <= Capacity + Rate * (clock' - since)
    BY <1>1 DEF RateInv
  <2>1. Rate * (clock' - since) = Rate * (clock - since) + Rate /\ Rate * (clock - since) \in Int
    <3>1. clock - since \in Int /\ clock' - since = (clock - since) + 1
      BY <1>1 DEF IInv, TypeInv, TypeOK
    <3>2. QED
      BY <3>1, Spread, LimitsAssumption
  <2>2. Level(Watched)' <= Level(Watched) + Rate
    <3>1. CASE Watched \in known
      <4>1. clock - updated[Watched] \in Int
            /\ clock' - updated[Watched] = (clock - updated[Watched]) + 1
        BY <1>1, LimitsAssumption DEF IInv, TypeInv, TypeOK
      <4>2. Rate * (clock' - updated[Watched]) = Rate * (clock - updated[Watched]) + Rate
            /\ Rate * (clock - updated[Watched]) \in Int
        BY <4>1, OneMore
      <4>3. tokens[Watched] \in Nat
        BY <3>1, CapacityType DEF IInv, TypeInv, TypeOK
      <4>4. /\ Level(Watched) = Least(Capacity, tokens[Watched] + Rate * (clock - updated[Watched]))
            /\ Level(Watched)' = Least(Capacity, tokens[Watched] + Rate * (clock' - updated[Watched]))
        BY <1>1, <3>1 DEF Level, Refilled
      <4>5. /\ tokens[Watched] + Rate * (clock' - updated[Watched])
                  = (tokens[Watched] + Rate * (clock - updated[Watched])) + Rate
            /\ tokens[Watched] + Rate * (clock - updated[Watched]) \in Int
            /\ Rate \in Nat /\ Capacity \in Int
        BY <4>2, <4>3, CapacityType, LimitsAssumption
      <4>6. QED
        BY <4>4, <4>5, LeastGrows
    <3>2. CASE Watched \notin known
      BY <1>1, <3>2, CapacityType, LimitsAssumption DEF Level
    <3>3. QED
      BY <3>1, <3>2
  <2>3. Level(Watched) \in Int /\ Level(Watched)' \in Int /\ Minute * admitted \in Int
    <3>1. Level(Watched) \in Int /\ Level(Watched)' \in Int
      BY <1>2, LevelType, LevelTypeNext, CapacityType, LimitsAssumption DEF IInv
    <3>2. QED
      BY <3>1, LimitsAssumption DEF IInv, TypeInv, TypeOK
  <2>4. QED
    BY <2>1, <2>2, <2>3, CapacityType, LimitsAssumption DEF IInv, RateInv
<1>4. RetryInv' /\ SlotsInv' /\ TableBounded'
  BY <1>1 DEF IInv, RetryInv, Line, SlotsInv, TableBounded
<1>5. QED
  BY <1>2, <1>3, <1>4 DEF IInv

LEMMA OpenWindowStep ==
    ASSUME IInv, OpenWindow
    PROVE  IInv'
<1>1. /\ since' = clock /\ admitted' = 0
      /\ UNCHANGED <<clock, known, tokens, updated, active, inside, retryAt>>
  BY DEF OpenWindow, bucketVars, slotVars
<1>2. TypeInv'
  BY <1>1 DEF IInv, TypeInv, TypeOK
<1>3. RateInv'
  <2>1. Level(Watched)' = Level(Watched) /\ Level(Watched) \in 0 .. Capacity
    BY <1>1, LevelType, LimitsAssumption DEF IInv, Level, Refilled
  <2>2. clock' - since' = 0 /\ Rate * 0 = 0 /\ Minute * 0 = 0
    BY <1>1, LimitsAssumption DEF IInv, TypeInv, TypeOK
  <2>3. QED
    BY <1>1, <2>1, <2>2, CapacityType DEF RateInv
<1>4. RetryInv' /\ SlotsInv' /\ TableBounded'
  BY <1>1 DEF IInv, RetryInv, Line, SlotsInv, TableBounded
<1>5. QED
  BY <1>2, <1>3, <1>4 DEF IInv

LEMMA LeaveStep ==
    ASSUME IInv, NEW r \in Requests, Leave(r)
    PROVE  IInv'
<1>1. /\ r \in inside /\ inside' = inside \ {r}
      /\ active' = IF MaxConcurrent = 0 THEN active ELSE active - 1
      /\ UNCHANGED <<clock, known, tokens, updated, since, admitted, retryAt>>
  BY DEF Leave, bucketVars, windowVars
<1>2. MaxConcurrent > 0 => /\ active' = Cardinality(inside')
                           /\ active' \in Nat /\ active' <= MaxConcurrent
  <2> SUFFICES ASSUME MaxConcurrent > 0
               PROVE  /\ active' = Cardinality(inside')
                      /\ active' \in Nat /\ active' <= MaxConcurrent
    OBVIOUS
  <2>1. IsFiniteSet(inside) /\ active = Cardinality(inside) /\ active <= MaxConcurrent
    BY Finite DEF IInv, TypeInv, SlotsInv
  <2>2. Cardinality(inside') = Cardinality(inside) - 1 /\ IsFiniteSet(inside')
    BY <1>1, <2>1, FS_RemoveElement
  <2>3. Cardinality(inside) \in Nat /\ Cardinality(inside') \in Nat
    BY <2>1, <2>2, FS_CardinalityType
  <2>4. QED
    BY <1>1, <2>1, <2>2, <2>3, LimitsAssumption
<1>3. TypeInv'
  BY <1>1, <1>2, LimitsAssumption DEF IInv, TypeInv, TypeOK
<1>4. RateInv' /\ RetryInv' /\ SlotsInv' /\ TableBounded'
  BY <1>1, <1>2 DEF IInv, RateInv, Level, Refilled, RetryInv, Line, SlotsInv, TableBounded
<1>5. QED
  BY <1>3, <1>4 DEF IInv

\* After a call of allow, the bucket of its client holds what is left.
LEMMA TouchedLevel ==
    ASSUME TypeInv, NEW c \in Clients, NEW E \in SUBSET known, c \notin E,
           NEW left \in 0 .. Capacity, Touch(c, E, left), clock' = clock
    PROVE  /\ Level(c)' = left
           /\ known' \subseteq Clients
           /\ tokens' \in [Clients -> 0 .. Capacity]
           /\ updated' \in [Clients -> 0 .. MaxTime]
           /\ \A k \in known' : updated'[k] <= clock
           /\ \A k \in Clients \ {c} : k \notin E =>
                 /\ k \in known' <=> k \in known
                 /\ tokens'[k] = tokens[k] /\ updated'[k] = updated[k]
                 /\ Level(k)' = Level(k)
           /\ \A k \in E : k \notin known' /\ Level(k)' = Capacity
<1>1. c \in known' /\ tokens'[c] = left /\ updated'[c] = clock
  BY DEF Touch
<1>2. Level(c)' = left
  <2>1. clock' - updated'[c] = 0 /\ Rate * 0 = 0
    BY <1>1, LimitsAssumption DEF TypeInv, TypeOK
  <2>2. QED
    BY <1>1, <2>1, CapacityType DEF Level, Refilled, Least
<1>3. known' \subseteq Clients
  BY DEF Touch, TypeInv, TypeOK
<1>4. tokens' \in [Clients -> 0 .. Capacity] /\ updated' \in [Clients -> 0 .. MaxTime]
  BY CapacityType, LimitsAssumption DEF Touch, TypeInv, TypeOK
<1>5. \A k \in known' : updated'[k] <= clock
  BY <1>1, <1>3 DEF Touch, TypeInv, TypeOK
<1>6. \A k \in Clients \ {c} : k \notin E =>
          /\ k \in known' <=> k \in known
          /\ tokens'[k] = tokens[k] /\ updated'[k] = updated[k]
          /\ Level(k)' = Level(k)
  BY DEF Touch, Level, Refilled
<1>7. \A k \in E : k \notin known' /\ Level(k)' = Capacity
  BY DEF Touch, Level
<1>8. QED
  BY <1>2, <1>3, <1>4, <1>5, <1>6, <1>7

LEMMA RateLimitedStep ==
    ASSUME IInv, NEW c \in Clients, RateLimited(c)
    PROVE  IInv'
<1>1. /\ Limiting /\ c \in known /\ Level(c) < Minute
      /\ Touch(c, {}, Level(c))
      /\ retryAt' = IF c = Watched THEN clock + RetryAfter(Level(c)) ELSE retryAt
      /\ UNCHANGED <<clock, active, inside, since, admitted>>
  BY DEF RateLimited, slotVars, windowVars
<1>2. Level(c) \in 0 .. Capacity
  BY LevelType DEF IInv
<1>3. /\ Level(c)' = Level(c)
      /\ known' = known
      /\ tokens' \in [Clients -> 0 .. Capacity] /\ updated' \in [Clients -> 0 .. MaxTime]
      /\ \A k \in known' : updated'[k] <= clock
      /\ \A k \in Clients \ {c} : /\ tokens'[k] = tokens[k] /\ updated'[k] = updated[k]
                                  /\ Level(k)' = Level(k)
  <2>1. known' = known
    BY <1>1 DEF Touch
  <2>2. TypeInv /\ clock' = clock /\ {} \in SUBSET known
    BY <1>1 DEF IInv
  <2> DEFINE left == Level(c)
             none == {}
  <2>3. left \in 0 .. Capacity /\ Touch(c, none, left) /\ c \notin none /\ none \in SUBSET known
    BY <1>1, <1>2, <2>2
  <2>4. \A k \in Clients : k \notin none
    OBVIOUS
  <2> HIDE DEF left, none
  <2>5. /\ Level(c)' = left
        /\ tokens' \in [Clients -> 0 .. Capacity] /\ updated' \in [Clients -> 0 .. MaxTime]
        /\ \A k \in known' : updated'[k] <= clock
        /\ \A k \in Clients \ {c} : k \notin none =>
              /\ tokens'[k] = tokens[k] /\ updated'[k] = updated[k]
              /\ Level(k)' = Level(k)
    BY <2>2, <2>3, TouchedLevel
  <2>6. QED
    BY <2>1, <2>4, <2>5 DEF left
<1>4. LET q == RetryAfter(Level(c)) IN
      q \in Nat /\ Level(c) + Rate * q >= Minute /\ Level(c) + Rate * (q - 1) < Minute
  <2>1. Minute - Level(c) \in Nat /\ Rate > 0
    BY <1>1, <1>2, CapacityType, LimitsAssumption DEF Limiting
  <2>2. QED
    BY <1>2, <2>1, RoundedUp, CapacityType, LimitsAssumption DEF RetryAfter
<1>5. TypeInv'
  BY <1>1, <1>3, <1>4 DEF IInv, TypeInv, TypeOK
<1>6. RateInv'
  BY <1>1, <1>3, LimitsAssumption DEF IInv, RateInv
<1>7. RetryInv'
  <2>1. CASE c = Watched
    <3>1. tokens'[c] = Level(c) /\ updated'[c] = clock
      BY <1>1 DEF Touch
    <3>2. clock \in Nat
      BY LimitsAssumption DEF IInv, TypeInv, TypeOK
    <3>3. retryAt' - updated'[c] = RetryAfter(Level(c))
          /\ retryAt' - 1 - updated'[c] = RetryAfter(Level(c)) - 1
      BY <1>1, <1>4, <2>1, <3>1, <3>2
    <3>4. QED
      BY <1>4, <2>1, <3>1, <3>3 DEF RetryInv, Line
  <2>2. CASE c # Watched
    BY <1>1, <1>3, <2>2, LimitsAssumption DEF IInv, RetryInv, Line
  <2>3. QED
    BY <2>1, <2>2
<1>8. SlotsInv' /\ TableBounded'
  BY <1>1, <1>3 DEF IInv, SlotsInv, TableBounded
<1>9. QED
  BY <1>5, <1>6, <1>7, <1>8 DEF IInv

\* The table makes room for at most the one bucket that is added.
LEMMA RoomMade ==
    ASSUME TypeInv, TableBounded, NEW c \in Clients, NEW E \in SUBSET known,
           Evicted(c, E), known' = (known \ E) \cup {c}
    PROVE  c \notin E /\ TableBounded'
<1>1. IsFiniteSet(known) /\ Cardinality(known) \in Nat /\ MaxClients \in Nat \ {0}
  BY Finite, FS_CardinalityType, LimitsAssumption DEF TypeInv
<1>2. CASE c \in known
  BY <1>2 DEF Evicted, TableBounded
<1>3. CASE c \notin known /\ Cardinality(known) < MaxClients
  <2>1. E = {} /\ known' = known \cup {c}
    BY <1>3 DEF Evicted
  <2>2. Cardinality(known \cup {c}) = Cardinality(known) + 1
    BY <1>1, <1>3, FS_AddElement
  <2>3. QED
    BY <1>1, <1>3, <2>1, <2>2 DEF TableBounded
<1>4. CASE c \notin known /\ ~(Cardinality(known) < MaxClients)
  <2>1. E # {}
    BY <1>4 DEF Evicted
  <2>2. PICK e \in E : TRUE
    BY <2>1
  <2>3. /\ Cardinality(known \ {e}) = Cardinality(known) - 1
        /\ IsFiniteSet(known \ {e})
    BY <1>1, <2>2, FS_RemoveElement
  <2>4. /\ Cardinality(known \ E) <= Cardinality(known \ {e})
        /\ IsFiniteSet(known \ E)
    BY <2>2, <2>3, FS_Subset
  <2>5. Cardinality((known \ E) \cup {c}) = Cardinality(known \ E) + 1
    BY <1>4, <2>4, FS_AddElement
  <2>6. Cardinality(known \ E) \in Nat
    BY <2>4, FS_CardinalityType
  <2>7. QED
    BY <1>1, <1>4, <2>3, <2>4, <2>5, <2>6 DEF TableBounded
<1>5. QED
  BY <1>2, <1>3, <1>4

LEMMA AllowStep ==
    ASSUME TypeInv, RateInv, RetryInv, TableBounded,
           NEW c \in Clients, Allow(c), clock' = clock,
           active' \in Nat, inside' \subseteq Requests
    PROVE  TypeInv' /\ RateInv' /\ RetryInv' /\ TableBounded'
<1>1. CASE ~Limiting
  <2>1. UNCHANGED <<known, tokens, updated, since, admitted, retryAt>>
    BY <1>1 DEF Allow, bucketVars, windowVars
  <2>2. QED
    BY <2>1 DEF TypeInv, TypeOK, RateInv, Level, Refilled, RetryInv, Line, TableBounded
<1>2. CASE Limiting
  <2>1. PICK E \in SUBSET known :
          /\ Evicted(c, E)
          /\ Level(c) >= Minute
          /\ Touch(c, E, Level(c) - Minute)
          /\ since' = IF Robbed(E) THEN clock ELSE since
          /\ admitted' = CASE c = Watched -> admitted + 1
                           [] c # Watched /\ Robbed(E) -> 0
                           [] OTHER -> admitted
          /\ retryAt' = IF c = Watched THEN 0 ELSE retryAt
    BY <1>2 DEF Allow
  <2>2. c \notin E /\ TableBounded'
    BY <2>1, RoomMade DEF Touch
  <2>3. Level(c) \in 0 .. Capacity /\ Level(c) - Minute \in 0 .. Capacity
    BY <2>1, LevelType, CapacityType, LimitsAssumption
  <2>4. /\ Level(c)' = Level(c) - Minute
        /\ known' \subseteq Clients
        /\ tokens' \in [Clients -> 0 .. Capacity]
        /\ updated' \in [Clients -> 0 .. MaxTime]
        /\ \A k \in known' : updated'[k] <= clock
        /\ \A k \in Clients \ {c} : k \notin E =>
              /\ k \in known' <=> k \in known
              /\ tokens'[k] = tokens[k] /\ updated'[k] = updated[k]
              /\ Level(k)' = Level(k)
        /\ \A k \in E : k \notin known' /\ Level(k)' = Capacity
    BY <2>1, <2>2, <2>3, TouchedLevel
  <2>5. admitted' \in Nat /\ since' \in 0 .. MaxTime /\ since' <= clock /\ retryAt' \in Nat
    BY <2>1, LimitsAssumption DEF TypeInv, TypeOK
  <2>6. TypeInv'
    BY <2>4, <2>5 DEF TypeInv, TypeOK
  <2>7. RateInv'
    <3>1. CASE c = Watched
      <4>1. since' = since /\ admitted' = admitted + 1
        BY <2>1, <2>2, <3>1 DEF Robbed
      <4>2. Minute * (admitted + 1) = Minute * admitted + Minute
            /\ Minute * admitted \in Nat
        BY LimitsAssumption DEF TypeInv, TypeOK
      <4>3. Rate * (clock - since) \in Int
        BY Spread DEF TypeInv, TypeOK
      <4>4. QED
        BY <2>3, <2>4, <3>1, <4>1, <4>2, <4>3, CapacityType, LimitsAssumption DEF RateInv
    <3>2. CASE c # Watched /\ Watched \in E /\ ~Stale(Watched)
      <4>1. since' = clock /\ admitted' = 0 /\ Level(Watched)' = Capacity
        BY <2>1, <2>4, <3>2 DEF Robbed
      <4>2. clock' - since' = 0 /\ Rate * 0 = 0 /\ Minute * 0 = 0
        BY <4>1, LimitsAssumption DEF TypeInv, TypeOK
      <4>3. QED
        BY <4>1, <4>2, CapacityType DEF RateInv
    <3>3. CASE c # Watched /\ ~(Watched \in E /\ ~Stale(Watched))
      <4>1. since' = since /\ admitted' = admitted
        BY <2>1, <3>3 DEF Robbed
      <4>2. Level(Watched)' = Level(Watched)
        BY <2>4, <3>3, StaleIsFull, LimitsAssumption
      <4>3. QED
        BY <4>1, <4>2 DEF RateInv
    <3>4. QED
      BY <3>1, <3>2, <3>3
  <2>8. RetryInv'
    <3>1. CASE c = Watched
      BY <2>1, <3>1 DEF RetryInv
    <3>2. CASE c # Watched
      BY <2>1, <2>4, <3>2, LimitsAssumption DEF RetryInv, Line
    <3>3. QED
      BY <3>1, <3>2
  <2>9. QED
    BY <2>2, <2>6, <2>7, <2>8
<1>3. QED
  BY <1>1, <1>2

LEMMA NoCapacityStep ==
    ASSUME IInv, NEW c \in Clients, NoCapacity(c)
    PROVE  IInv'
<1>1. Allow(c) /\ UNCHANGED <<clock, active, inside>>
  BY DEF NoCapacity, slotVars
<1>2. TypeInv' /\ RateInv' /\ RetryInv' /\ TableBounded'
  BY <1>1, AllowStep DEF IInv, TypeInv, TypeOK
<1>3. SlotsInv'
  BY <1>1 DEF IInv, SlotsInv
<1>4. QED
  BY <1>2, <1>3 DEF IInv

LEMMA AdmitStep ==
    ASSUME IInv, NEW c \in Clients, NEW r \in Requests, Admit(r, c)
    PROVE  IInv'
<1>1. /\ Allow(c) /\ clock' = clock /\ r \notin inside /\ inside' = inside \cup {r}
      /\ active' = IF MaxConcurrent = 0 THEN active ELSE active + 1
      /\ MaxConcurrent = 0 \/ active < MaxConcurrent
  BY DEF Admit, SlotFree
<1>2. active' \in Nat /\ inside' \subseteq Requests
  BY <1>1, LimitsAssumption DEF IInv, TypeInv, TypeOK
<1>3. TypeInv' /\ RateInv' /\ RetryInv' /\ TableBounded'
  BY <1>1, <1>2, AllowStep DEF IInv
<1>4. SlotsInv'
  <2>1. IsFiniteSet(inside) /\ active \in Nat
    BY Finite DEF IInv, TypeInv, TypeOK
  <2>2. Cardinality(inside') = Cardinality(inside) + 1
    BY <1>1, <2>1, FS_AddElement
  <2>3. QED
    BY <1>1, <2>1, <2>2, LimitsAssumption DEF IInv, SlotsInv
<1>5. QED
  BY <1>3, <1>4 DEF IInv

LEMMA StepIInv == IInv /\ [Next]_vars => IInv'
<1> SUFFICES ASSUME IInv, [Next]_vars PROVE IInv'
  OBVIOUS
<1>1. CASE UNCHANGED vars
  BY <1>1 DEF vars, IInv, TypeInv, TypeOK, RateInv, Level, Refilled, RetryInv, Line, SlotsInv,
              TableBounded
<1>2. CASE Next
  BY <1>2, RateLimitedStep, NoCapacityStep, AdmitStep, LeaveStep, TickStep, OpenWindowStep
  DEF Next, Arrive
<1>3. QED
  BY <1>1, <1>2

LEMMA Invariance == Spec => []IInv
BY InitIInv, StepIInv, PTL DEF Spec
-----------------------------------------------------------------------------
(* What follows.                                                            *)

THEOREM TypeCorrect == Spec => []TypeOK
<1>1. IInv => TypeOK
  BY DEF IInv, TypeInv
<1>2. QED
  BY <1>1, Invariance, PTL

\* No client gets more than its burst and its rate in any window of time in
\* which its bucket was not dropped before it was stale.
THEOREM RateIsHeld == Spec => []RateHolds
<1>1. ASSUME IInv, Limiting
      PROVE  Minute * admitted <= Capacity + Rate * (clock - since)
  <2>1. Level(Watched) \in Nat
    BY <1>1, LevelType, CapacityType, LimitsAssumption DEF IInv
  <2>2. Minute * admitted \in Int /\ Rate * (clock - since) \in Int
    BY <1>1, Spread, LimitsAssumption DEF IInv, TypeInv, TypeOK
  <2>3. QED
    BY <1>1, <2>1, <2>2, CapacityType DEF IInv, RateInv
<1>2. IInv => RateHolds
  BY <1>1 DEF RateHolds
<1>3. QED
  BY <1>2, Invariance, PTL

\* The Retry-After of a 429 is the first second at which a token is there.
THEOREM RetryAfterIsExact == Spec => []RetryAfterExact
<1>1. ASSUME IInv, Watched \in known, retryAt > 0
      PROVE  clock >= retryAt <=> Level(Watched) >= Minute
  <2>1. /\ Line(retryAt) >= Minute /\ Line(retryAt - 1) < Minute
        /\ tokens[Watched] \in Nat /\ updated[Watched] \in Int
        /\ clock \in Int /\ retryAt \in Int /\ Capacity \in Nat /\ Capacity >= Minute
    BY <1>1, CapacityType DEF IInv, RetryInv, TypeInv, TypeOK
  <2>2. TypeInv /\ Minute \in Int
    BY <1>1, LimitsAssumption DEF IInv
  <2>3. Level(Watched) = Least(Capacity, Line(clock))
    BY <1>1 DEF Level, Refilled, Line
  <2>4. \A x \in Int : Line(x) \in Int
    BY <1>1, <2>2, LineType
  <2>5. \A x, y \in Int : x <= y => Line(x) <= Line(y)
    BY <1>1, <2>2, Rising
  <2>6. Level(Watched) >= Minute <=> Line(clock) >= Minute
    BY <2>1, <2>2, <2>3, <2>4 DEF Least
  <2>7. clock >= retryAt => Line(clock) >= Line(retryAt)
    BY <2>1, <2>5
  <2>8. clock <= retryAt - 1 => Line(retryAt - 1) >= Line(clock)
    BY <2>1, <2>5
  <2>9. Line(clock) \in Int /\ Line(retryAt) \in Int /\ Line(retryAt - 1) \in Int
    BY <2>1, <2>4
  <2>10. QED
    BY <2>1, <2>2, <2>6, <2>7, <2>8, <2>9
<1>2. IInv => RetryAfterExact
  BY <1>1 DEF RetryAfterExact
<1>3. QED
  BY <1>2, Invariance, PTL

THEOREM TableIsBounded == Spec => []TableBounded
<1>1. IInv => TableBounded
  BY DEF IInv
<1>2. QED
  BY <1>1, Invariance, PTL

\* Slots are neither lost nor shared, however requests end.
THEOREM SlotsAreHeld == Spec => []SlotsHeld
<1>1. IInv => SlotsHeld
  BY DEF IInv, SlotsInv, SlotsHeld
<1>2. QED
  BY <1>1, Invariance, PTL
=============================================================================
