-------------------------- MODULE WakeClockProofs --------------------------
(***************************************************************************)
(* Proofs about WakeClock: for any periods, any length of a search and of  *)
(* a broadcast, any number of faults and of settings of the clock.         *)
(***************************************************************************)
EXTENDS WakeClock, TLAPS

-----------------------------------------------------------------------------
(* Remainders.                                                             *)

LEMMA DivMod ==
  ASSUME NEW x \in Int, NEW p \in Nat \ {0}
  PROVE  x % p \in 0..(p - 1) /\ \E k \in Int : x = (p * k) + (x % p)
<1>1. x % p \in 0..(p-1)
  OBVIOUS
<1>2. x = (p * (x \div p)) + (x % p)
  OBVIOUS
<1>3. x \div p \in Int
  OBVIOUS
<1> QED
  BY <1>1, <1>2, <1>3

LEMMA Unique ==
  ASSUME NEW p \in Nat \ {0}, NEW r \in 0..(p - 1), NEW s \in 0..(p - 1),
         NEW k \in Int, NEW l \in Int, p * k + r = p * l + s
  PROVE  r = s
<1>1. p * (k - l) = s - r
  OBVIOUS
<1>2. k - l \in Int
  OBVIOUS
<1>3. CASE k - l >= 1
  <2>1. p * (k - l) >= p
    BY <1>2, <1>3
  <2> QED
    BY <1>1, <2>1
<1>4. CASE k - l <= -1
  <2>1. p * (k - l) <= -p
    BY <1>2, <1>4
  <2> QED
    BY <1>1, <2>1
<1>5. CASE k = l
  BY <1>1, <1>5
<1> QED
  BY <1>2, <1>3, <1>4, <1>5
\* Congruent numbers have the same remainder.
LEMMA SameRemainder ==
  ASSUME NEW p \in Nat \ {0}, NEW x \in Int, NEW y \in Int, NEW k \in Int,
         x = (p * k) + y
  PROVE  x % p = y % p
<1>1. PICK i \in Int : x = (p * i) + (x % p)
  BY DivMod
<1>2. PICK j \in Int : y = (p * j) + (y % p)
  BY DivMod
<1> DEFINE r == x % p
           s == y % p
<1>4. r \in 0..(p-1) /\ s \in 0..(p-1) /\ k + j \in Int
  OBVIOUS
<1>5. x = p * i + r /\ y = p * j + s
  BY <1>1, <1>2
<1> HIDE DEF r, s
<1>3. p * i + r = p * (k + j) + s
  <2>1. p * (k + j) = p * k + p * j
    OBVIOUS
  <2> QED
    BY <1>4, <1>5, <2>1
<1>6. r = s
  BY <1>3, <1>4, Unique
<1> QED
  BY <1>6 DEF r, s

\* A remainder by a multiple of p keeps the remainder by p.
LEMMA RemainderOfCycle ==
  ASSUME NEW p \in Nat \ {0}, NEW c \in Nat \ {0}, c % p = 0,
         NEW x \in Int, NEW y \in Int
  PROVE  ((x % c) + y) % p = (x + y) % p
<1>1. PICK m \in Int : c = p * m
  <2>1. c = (p * (c \div p)) + (c % p) /\ c \div p \in Int
    OBVIOUS
  <2>2. c = p * (c \div p)
    BY <2>1
  <2> QED
    BY <2>1, <2>2
<1>2. PICK k \in Int : x = (c * k) + (x % c)
  BY DivMod
<1> DEFINE r == x % c
<1>3. r \in Int /\ x = c * k + r
  BY <1>2
<1> HIDE DEF r
<1>4. c * k = p * (m * k)
  BY <1>1
<1>5. m * k \in Int
  OBVIOUS
<1> DEFINE l == m * k
<1>6. l \in Int /\ x = (p * l) + r
  BY <1>3, <1>4, <1>5
<1>8. r + y \in Int /\ x + y \in Int
  BY <1>3
<1> HIDE DEF l
<1>9. x + y = (p * l) + (r + y)
  BY <1>3, <1>6
<1>7. (x + y) % p = (r + y) % p
  <2> DEFINE a == x + y
             b == r + y
  <2>1. a \in Int /\ b \in Int /\ l \in Int /\ a = (p * l) + b
    BY <1>6, <1>8, <1>9
  <2> HIDE DEF a, b
  <2>2. a % p = b % p
    BY <2>1, SameRemainder
  <2> QED
    BY <2>2 DEF a, b
<1> QED
  BY <1>7 DEF r

LEMMA RemainderOfRemainder ==
  ASSUME NEW p \in Nat \ {0}, NEW x \in Int, NEW y \in Int
  PROVE  ((x % p) + y) % p = (x + y) % p
<1>1. PICK k \in Int : x = (p * k) + (x % p)
  BY DivMod
<1> DEFINE r == x % p
<1>2. r \in Int /\ r + y \in Int /\ x + y \in Int
  OBVIOUS
<1>4. x + y = (p * k) + (r + y)
  BY <1>1
<1> HIDE DEF r
<1>3. (x + y) % p = (r + y) % p
  BY <1>2, <1>4, SameRemainder
<1> QED
  BY <1>3 DEF r

LEMMA SmallRemainder ==
  ASSUME NEW p \in Nat \ {0}, NEW r \in 0..(p - 1)
  PROVE  r % p = r
OBVIOUS

-----------------------------------------------------------------------------
(* Type correctness.                                                       *)

LEMMA Times ==
  /\ SearchPeriod \in Nat \ {0} /\ WakePeriod \in Nat \ {0}
  /\ Air \in Nat \ {0} /\ Cycle \in Nat \ {0}
  /\ SearchWait \in Nat /\ Offset \in Nat /\ MaxErr \in Nat /\ MaxBusy \in Nat
  /\ MaxPacks \in Nat /\ MaxFaults \in Nat /\ MaxCmds \in Nat
  /\ Air < SearchPeriod
  /\ MaxCmds <= MaxErr /\ Air + MaxCmds <= 2 * MaxErr
BY TimesAssumption, BoundsAssumption

LEMMA CycleIsMultiple == Cycle % SearchPeriod = 0 /\ Cycle % WakePeriod = 0
BY TimesAssumption

\* The time in a broadcast is wrong by no more than the clock was set.
Skewed == skew \in -sets..sets

TInv == TypeOK /\ Skewed

LEMMA TypeInit == Init => TInv
<1> SUFFICES ASSUME Init PROVE TInv
  OBVIOUS
<1>1. Long \in -Long..Long /\ Long \in Nat
  BY Times DEF Long
<1>2. /\ gw \in 0..(Cycle - 1) /\ broadAge \in -Long..Long
      /\ tries \in 0..Tries /\ rest \in 0..(Gap + 1)
      /\ air \in {None} \cup 0..Air
      /\ skew \in -(MaxCmds + Air)..(MaxCmds + Air) /\ call \in 0..2
      /\ err \in -MaxErr..MaxErr
      /\ since \in 0..Over /\ busy \in 0..MaxBusy /\ wakeAge \in -Long..Long
      /\ faults \in 0..MaxErr /\ packs \in 0..MaxPacks
      /\ spoils \in 0..MaxFaults /\ sets \in 0..MaxCmds /\ asks \in 0..MaxCmds
  BY <1>1, Times DEF Init, Gap, Tries, Over
<1>3. Skewed
  BY DEF Init, Skewed
<1> QED
  BY <1>2, <1>3 DEF Init, TInv, TypeOK

LEMMA TypeStep == TInv /\ [Next]_vars => TInv'
<1> SUFFICES ASSUME TInv, [Next]_vars PROVE TInv'
  OBVIOUS
<1> USE Times DEF TInv, TypeOK, Skewed, gatewayVars, airVars, clockVars,
                  nodeVars, pastVars, boundVars, None, Gap, Tries, Over
<1>0. Long \in Nat /\ 0 \in -Long..Long
  BY DEF Long
<1>15. OneMore \in 0..MaxErr
  BY DEF OneMore
<1>1. CASE Broadcast
  <2>1. /\ broadAge' = 0 /\ air' = Air /\ asked' = FALSE /\ caught' = TRUE
        /\ skew' = 0 /\ hindered' \in BOOLEAN
        /\ UNCHANGED <<gw, pack, tries, rest, call, nodeVars, drifted, faults,
                       excuse, boundVars>>
    BY <1>1 DEF Broadcast
  <2>2. /\ broadAge' \in -Long..Long /\ air' \in {None} \cup 0..Air
        /\ skew' \in -(MaxCmds + Air)..(MaxCmds + Air) /\ skew' \in -sets..sets
    BY <1>0, <2>1
  <2> QED
    BY <2>1, <2>2
<1>2. CASE TakePack
  <2>1. packs' \in 0..MaxPacks /\ tries' \in 0..Tries
    BY <1>2 DEF TakePack
  <2> QED
    BY <1>2, <2>1 DEF TakePack
<1>3. CASE SendPack
  <2>1. tries' \in 0..Tries /\ rest' \in 0..(Gap + 1) /\ call' \in 0..2
    BY <1>3 DEF SendPack
  <2>2. spoils' \in 0..MaxFaults
    BY <1>3 DEF SendPack
  <2>3. excuse' \in BOOLEAN
    BY <1>3 DEF SendPack
  <2>4. UNCHANGED <<gw, broadAge, pack, air, asked, caught, skew, nodeVars,
                    drifted, hindered, faults, packs, sets, asks>>
    BY <1>3 DEF SendPack
  <2> QED
    BY <2>1, <2>2, <2>3, <2>4
<1>4. CASE GiveUp
  <2>1. /\ pack' = FALSE
        /\ UNCHANGED <<gw, broadAge, tries, rest, airVars, nodeVars, pastVars,
                       boundVars>>
    BY <1>4 DEF GiveUp
  <2> QED
    BY <2>1
<1>5. ASSUME NEW d \in {-1, 1}, SetTime(d) PROVE TInv'
  <2>1. /\ broadAge' \in -Long..Long /\ rest' \in 0..(Gap + 1)
        /\ gw' \in 0..(Cycle - 1)
    <3>1. (gw + d) % Cycle \in 0..(Cycle - 1)
      OBVIOUS
    <3>2. Later(broadAge, d) \in -Long..Long
      BY <1>0 DEF Later
    <3>3. Elapsed(rest, Gap, d) \in 0..(Gap + 1)
      BY DEF Elapsed
    <3> QED
      BY <1>5, <3>1, <3>2, <3>3 DEF SetTime
  <2>2. sets' = sets + 1 /\ sets' \in 0..MaxCmds
    BY <1>5 DEF SetTime
  <2>3. skew' \in -sets'..sets'
    BY <1>5, <2>2 DEF SetTime
  <2>4. err' \in -MaxErr..MaxErr
    BY <1>5 DEF SetTime
  <2> QED
    BY <1>5, <2>1, <2>2, <2>3, <2>4 DEF SetTime
<1>6. CASE StartSearch
  BY <1>6 DEF StartSearch
<1>7. CASE Wake
  BY <1>0, <1>7 DEF Wake
<1>8. CASE JobEnd
  BY <1>8 DEF JobEnd
<1>9. CASE RxEnd
  BY <1>9 DEF RxEnd
<1>10. CASE SearchOver
  BY <1>10 DEF SearchOver
<1>11. CASE StartJob
  BY <1>11 DEF StartJob
<1>12. CASE Arrive
  <2>1. /\ known' \in BOOLEAN /\ err' \in -MaxErr..MaxErr
        /\ started' \in BOOLEAN /\ since' \in 0..Over
        /\ wakeAge' \in -Long..Long /\ faults' \in 0..MaxErr
        /\ spoils' \in 0..MaxFaults
    <3>1. CASE Hear
      <4>1. skew \in -MaxErr..MaxErr
        OBVIOUS
      <4>2. wakeAge' \in -Long..Long
        BY <1>0, <3>1 DEF Hear, Later
      <4>3. since' \in 0..Over
        BY <3>1 DEF Hear, Elapsed
      <4> QED
        BY <3>1, <4>1, <4>2, <4>3 DEF Hear
    <3>2. CASE Miss
      BY <1>15, <3>2 DEF Miss
    <3> QED
      BY <1>12, <3>1, <3>2 DEF Arrive
  <2> QED
    <3>1. /\ air' = None /\ asked' = FALSE /\ caught' = FALSE /\ skew' = 0
          /\ hindered' \in BOOLEAN /\ drifted' \in BOOLEAN
          /\ UNCHANGED <<gatewayVars, call, work, busy, excuse, packs, sets, asks>>
      BY <1>12 DEF Arrive
    <3>2. skew' \in -(MaxCmds + Air)..(MaxCmds + Air) /\ skew' \in -sets'..sets'
      BY <3>1
    <3> QED
      BY <2>1, <3>1, <3>2
<1>13. ASSUME NEW g \in {0, 1}, NEW n \in {0, 1}, Tick(g, n) PROVE TInv'
  <2>1. /\ broadAge' \in -Long..Long /\ wakeAge' \in -Long..Long
        /\ rest' \in 0..(Gap + 1) /\ since' \in 0..Over
        /\ gw' \in 0..(Cycle - 1)
    <3>1. (gw + g) % Cycle \in 0..(Cycle - 1)
      OBVIOUS
    <3>2. Later(broadAge, g) \in -Long..Long /\ Later(wakeAge, n) \in -Long..Long
      BY <1>0 DEF Later
    <3>3. Elapsed(rest, Gap, g) \in 0..(Gap + 1)
      BY DEF Elapsed
    <3>4. Elapsed(since, SearchWait, n) \in 0..Over
      BY DEF Elapsed
    <3> QED
      BY <1>13, <3>1, <3>2, <3>3, <3>4 DEF Tick
  <2>2. err' \in -MaxErr..MaxErr
    BY <1>13 DEF Tick
  <2>3. air' \in {None} \cup 0..Air /\ call' \in 0..2
    BY <1>13 DEF Tick, Due
  <2>4. busy' \in 0..MaxBusy
    BY <1>13 DEF Tick, Due
  <2>5. /\ caught' \in BOOLEAN /\ drifted' \in BOOLEAN /\ hindered' \in BOOLEAN
        /\ excuse' \in BOOLEAN
    BY <1>13 DEF Tick
  <2> QED
    BY <1>13, <2>1, <2>2, <2>3, <2>4, <2>5 DEF Tick
<1>14. CASE UNCHANGED vars
  BY <1>14 DEF vars
<1>16. CASE AskBroadcast
  <2>1. asks' \in 0..MaxCmds /\ faults' \in 0..MaxErr
    BY <1>15, <1>16 DEF AskBroadcast
  <2>2. hindered' \in BOOLEAN /\ drifted' \in BOOLEAN
    BY <1>16 DEF AskBroadcast
  <2> QED
    BY <1>16, <2>1, <2>2 DEF AskBroadcast
<1> QED
  BY <1>1, <1>2, <1>3, <1>4, <1>5, <1>6, <1>7, <1>8, <1>9, <1>10, <1>11,
     <1>12, <1>13, <1>14, <1>16
  DEF Next, Gateway, Node

\* Every action gives its variables values of their type: no difference of
\* times leaves its range, whatever is done to the clocks.
THEOREM TypeCorrect == Spec => []TypeOK
<1>1. Init => TInv
  BY TypeInit
<1>2. TInv /\ [Next]_vars => TInv'
  BY TypeStep
<1>3. TInv => TypeOK
  BY DEF TInv
<1> QED
  BY <1>1, <1>2, <1>3, PTL DEF Spec

-----------------------------------------------------------------------------
(* The clocks.                                                             *)

\* The times for which the searches are made: a search is over, for a clock
\* that is MaxErr ahead or behind, before the next broadcast is due.
PeriodsFit == Offset + SearchWait + 3 * MaxErr + 2 < SearchPeriod

LEMMA CycleRemainder ==
  ASSUME NEW x \in Int, NEW y \in Int
  PROVE  ((x % Cycle) + y) % SearchPeriod = (x + y) % SearchPeriod
<1>1. SearchPeriod \in Nat \ {0} /\ Cycle \in Nat \ {0}
  BY Times
<1>2. Cycle % SearchPeriod = 0
  BY CycleIsMultiple
<1> QED
  BY <1>1, <1>2, RemainderOfCycle, Zenon

LEMMA CycleRemainderOf ==
  ASSUME NEW x \in Int
  PROVE  (x % Cycle) % SearchPeriod = x % SearchPeriod
<1>1. \A y \in Int : ((x % Cycle) + y) % SearchPeriod = (x + y) % SearchPeriod
  BY CycleRemainder
<1>2. ((x % Cycle) + 0) % SearchPeriod = (x + 0) % SearchPeriod
  <2>1. 0 \in Int
    OBVIOUS
  <2> QED
    BY <1>1, <2>1, Zenon
<1>3. (x % Cycle) + 0 = x % Cycle /\ x + 0 = x
  BY Times
<1> QED
  BY <1>2, <1>3

\* Where in its period the node is.
Phase == Rtc % SearchPeriod

LEMMA PhaseIs ==
  ASSUME gw \in Int, err \in Int
  PROVE  Phase = (gw + err) % SearchPeriod /\ Phase \in 0..(SearchPeriod - 1)
<1>1. gw + err \in Int
  OBVIOUS
<1>2. Phase = (gw + err) % SearchPeriod
  BY <1>1, CycleRemainderOf DEF Phase, Rtc
<1>3. (gw + err) % SearchPeriod \in 0..(SearchPeriod - 1)
  BY Times
<1> QED
  BY <1>2, <1>3

\* g seconds of the gateway and n of the node.
LEMMA PhaseLater ==
  ASSUME gw \in Int, err \in Int, NEW g \in Int, NEW n \in Int,
         gw' = (gw + g) % Cycle, err' = err + n - g
  PROVE  Phase' = (Phase + n) % SearchPeriod
<1>0. gw' \in Int /\ err' \in Int
  BY Times
<1>1. Phase' = (gw' + err') % SearchPeriod
  <2>1. gw' + err' \in Int
    BY <1>0
  <2> QED
    BY <2>1, CycleRemainderOf DEF Phase, Rtc
<1>2. (((gw + g) % Cycle) + err') % SearchPeriod
         = ((gw + g) + err') % SearchPeriod
  <2>1. gw + g \in Int
    OBVIOUS
  <2> QED
    BY <1>0, <2>1, Times, CycleRemainder
<1>3. (gw + g) + err' = (gw + err) + n
  OBVIOUS
<1>4. (((gw + err) % SearchPeriod) + n) % SearchPeriod
         = ((gw + err) + n) % SearchPeriod
  <2>1. gw + err \in Int
    OBVIOUS
  <2> QED
    BY <2>1, Times, RemainderOfRemainder
<1> QED
  BY <1>1, <1>2, <1>3, <1>4, PhaseIs

LEMMA Wrapped ==
  ASSUME NEW q \in Int, q < 0, -q < SearchPeriod
  PROVE  q % SearchPeriod = q + SearchPeriod
<1> DEFINE z == q + SearchPeriod
<1>1. /\ z \in 0..(SearchPeriod - 1) /\ z \in Int
      /\ z = (SearchPeriod * 1) + q
  BY Times
<1> HIDE DEF z
<1>2. z % SearchPeriod = q % SearchPeriod
  BY <1>1, Times, 1 \in Int, SameRemainder, Zenon
<1>3. z % SearchPeriod = z
  BY <1>1, Times, SmallRemainder
<1> QED
  BY <1>2, <1>3 DEF z

\* A broadcast that is heard moves the node in its period.
LEMMA PhaseHeard ==
  ASSUME TInv, Arrive, Hear
  PROVE  Phase' = (Phase + (skew - err)) % SearchPeriod
<1> DEFINE d == skew - err
<1>1. gw' = gw /\ err' = skew
  BY DEF Arrive, Hear, gatewayVars
<1>2. gw \in 0..(Cycle - 1) /\ err \in Int /\ skew \in Int
  BY Times DEF TInv, TypeOK
<1>3. d \in Int /\ 0 \in Int /\ gw + 0 = gw /\ err + d - 0 = skew
  BY <1>2
<1>4. gw % Cycle = gw
  BY <1>2, Times, SmallRemainder
<1> HIDE DEF d
<1>5. gw' = (gw + 0) % Cycle /\ err' = err + d - 0
  BY <1>1, <1>3, <1>4
<1>6. Phase' = (Phase + d) % SearchPeriod
  BY <1>2, <1>3, <1>5, PhaseLater
<1> QED
  BY <1>6 DEF d

\* The gateway's clock stands where the last broadcast says.
Tracked ==
  broadAge < Long => (gw - Offset - broadAge) % SearchPeriod = 0

LEMMA TrackedLater ==
  ASSUME gw \in Int, NEW a \in Int, NEW g \in Int, gw' = (gw + g) % Cycle,
         (gw - Offset - a) % SearchPeriod = 0
  PROVE  (gw' - Offset - (a + g)) % SearchPeriod = 0
<1> DEFINE x == gw + g
           y == -Offset - (a + g)
<1>1. x \in Int /\ y \in Int /\ x + y = gw - Offset - a
  BY Times
<1>2. gw' - Offset - (a + g) = (x % Cycle) + y
  BY Times
<1> HIDE DEF x, y
<1>3. ((x % Cycle) + y) % SearchPeriod = (x + y) % SearchPeriod
  BY <1>1, Times, CycleRemainder
<1> QED
  BY <1>1, <1>2, <1>3

\* So the node knows where it is.
LEMMA PhaseTracked ==
  ASSUME gw \in Int, err \in Int, NEW a \in Int,
         (gw - Offset - a) % SearchPeriod = 0,
         Offset + a + err \in 0..(SearchPeriod - 1)
  PROVE  Phase = Offset + a + err
<1> DEFINE x == gw - Offset - a
           y == Offset + a + err
<1>1. x \in Int /\ y \in Int /\ x + y = gw + err
  BY Times
<1>2. x % SearchPeriod = 0 /\ y \in 0..(SearchPeriod - 1)
  OBVIOUS
<1> HIDE DEF x, y
<1>3. ((x % SearchPeriod) + y) % SearchPeriod = (x + y) % SearchPeriod
  BY <1>1, Times, RemainderOfRemainder
<1>4. y % SearchPeriod = y
  BY <1>2, Times, SmallRemainder
<1>5. (x % SearchPeriod) + y = y
  BY <1>1, <1>2
<1>6. Phase = (gw + err) % SearchPeriod
  BY PhaseIs
<1> QED
  BY <1>1, <1>3, <1>4, <1>5, <1>6 DEF y

\* A broadcast is due only a period after the last.
LEMMA DueAfterLong ==
  ASSUME PeriodsFit, gw \in Int, broadAge \in -MaxErr..Long, Tracked,
         BroadcastDue
  PROVE  broadAge = Long /\ (gw - Offset - 0) % SearchPeriod = 0
<1>0. (gw - Offset) % SearchPeriod = 0 /\ broadAge # 0
  BY DEF BroadcastDue
<1>1. ASSUME broadAge < Long PROVE FALSE
  <2> DEFINE x == gw - Offset - broadAge
  <2>0. /\ broadAge \in Int /\ broadAge < SearchPeriod /\ broadAge > -SearchPeriod
        /\ -MaxErr > -SearchPeriod
    BY <1>1, Times DEF Long, PeriodsFit
  <2>1. x \in Int /\ x + broadAge = gw - Offset /\ x % SearchPeriod = 0
    BY <1>1, <2>0, Times DEF Tracked
  <2> HIDE DEF x
  <2>2. ((x % SearchPeriod) + broadAge) % SearchPeriod
           = (x + broadAge) % SearchPeriod
    BY <2>0, <2>1, Times, RemainderOfRemainder
  <2>3. broadAge % SearchPeriod = 0
    BY <1>0, <2>0, <2>1, <2>2
  <2>4. CASE broadAge > 0
    <3>1. broadAge \in 0..(SearchPeriod - 1)
      BY <2>0, <2>4, Times
    <3> QED
      BY <2>3, <2>4, <3>1, Times, SmallRemainder
  <2>5. CASE broadAge < 0
    <3> DEFINE z == broadAge + SearchPeriod
    <3>1. z \in 0..(SearchPeriod - 1) /\ z # 0 /\ z \in Int
          /\ z = (SearchPeriod * 1) + broadAge
      BY <2>0, <2>5, Times
    <3> HIDE DEF z
    <3>2. z % SearchPeriod = broadAge % SearchPeriod
      BY <2>0, <3>1, Times, 1 \in Int, SameRemainder, Zenon
    <3>3. z % SearchPeriod = z
      BY <3>1, Times, SmallRemainder
    <3> QED
      BY <2>3, <3>1, <3>2, <3>3
  <2> QED
    BY <1>0, <2>0, <2>4, <2>5
<1>2. Long \in Nat
  BY Times DEF Long
<1>3. gw - Offset - 0 = gw - Offset
  BY Times
<1> QED
  BY <1>0, <1>1, <1>2, <1>3

\* How old the last broadcast of the schedule is while it is on the air.
Underway == air # None /\ ~asked => broadAge = Air - air - skew

\* When the next is due, a node that was not hindered searches, since its
\* period began.
Searching ==
  known /\ ~hindered /\ broadAge = Long /\ Phase + Air <= SearchWait =>
    Phase = 0 \/ (work = "Search" /\ since = Phase)

\* It listens to all of it.
Listening ==
  air # None /\ ~asked /\ known /\ ~hindered =>
    /\ caught
    /\ (work = "Search" /\ since = Phase) \/ (Phase = 0 /\ air = Air)

\* And the search is not over before it has arrived.
Ahead ==
  air # None /\ ~asked /\ known /\ ~hindered =>
    Phase + air <= SearchWait + (IF drifted THEN 1 ELSE 0)

\* Every second between the clocks has its reason.
Within ==
  known => LET n == faults + sets + (IF drifted THEN 1 ELSE 0)
           IN  err \in -n..n

Recent == broadAge >= -sets

CInv == /\ TInv /\ Recent /\ Tracked /\ Underway
        /\ Searching /\ Listening /\ Ahead /\ Within

LEMMA ClockTypes ==
  ASSUME CInv
  PROVE  /\ gw \in Int /\ broadAge \in -MaxErr..Long
         /\ Long = 2 * MaxErr + SearchWait + 1
         /\ air \in {None} \cup 0..Air /\ None = -1
         /\ skew \in -sets..sets /\ sets \in 0..MaxCmds
         /\ err \in -MaxErr..MaxErr /\ faults \in 0..MaxErr
         /\ since \in Nat /\ since <= SearchWait + 1
         /\ Phase \in 0..(SearchPeriod - 1)
<1>1. /\ gw \in Int /\ broadAge \in -MaxErr..Long
      /\ air \in {None} \cup 0..Air
      /\ skew \in -sets..sets /\ sets \in 0..MaxCmds
      /\ err \in -MaxErr..MaxErr /\ faults \in 0..MaxErr
      /\ since \in Nat /\ since <= SearchWait + 1
  BY Times DEF CInv, TInv, TypeOK, Skewed, Recent, Over, Long
<1>2. Phase \in 0..(SearchPeriod - 1)
  BY <1>1, PhaseIs
<1> QED
  BY <1>1, <1>2 DEF Long, None

\* A search begun with the period is over by the time the broadcast is long ago.
LEMMA PhaseLongAfter ==
  ASSUME PeriodsFit, CInv, broadAge < Long, broadAge >= Long - 1
  PROVE  Phase >= SearchWait + (MaxErr + err) /\ Phase + 1 < SearchPeriod
<1>0. /\ gw \in Int /\ broadAge \in -MaxErr..Long /\ err \in -MaxErr..MaxErr
      /\ Long = 2 * MaxErr + SearchWait + 1
  BY ClockTypes
<1>1. (gw - Offset - broadAge) % SearchPeriod = 0
  BY DEF CInv, Tracked
<1>2. broadAge = 2 * MaxErr + SearchWait
  BY <1>0, Times
<1>3. /\ broadAge \in Int /\ err \in Int
      /\ Offset + broadAge + err \in 0..(SearchPeriod - 1)
      /\ Offset + broadAge + err + 1 < SearchPeriod
      /\ Offset + broadAge + err >= SearchWait + (MaxErr + err)
  BY <1>0, <1>2, Times DEF PeriodsFit
<1>4. Phase = Offset + broadAge + err
  BY <1>0, <1>1, <1>3, PhaseTracked
<1> QED
  BY <1>3, <1>4

\* What the clocks depend on.
clocks == <<gw, broadAge, air, asked, caught, skew, known, err, work, since,
            drifted, hindered, faults, sets>>

LEMMA ClocksUnchanged == CInv /\ TInv' /\ UNCHANGED clocks => CInv'
<1> SUFFICES ASSUME CInv, TInv', UNCHANGED clocks PROVE CInv'
  OBVIOUS
<1>1. Phase' = Phase
  BY DEF clocks, Phase, Rtc
<1> QED
  BY <1>1
  DEF CInv, clocks, Recent, Tracked, Underway, Searching, Listening, Ahead,
      Within

\* A node that is not hindered is in its search when a broadcast is sent, or at
\* the beginning of its period.
LEMMA BroadcastIsHeard ==
  ASSUME PeriodsFit, CInv, TInv', Broadcast
  PROVE  CInv'
<1>0. /\ gw \in Int /\ broadAge \in -MaxErr..Long
      /\ Long = 2 * MaxErr + SearchWait + 1
      /\ air \in {None} \cup 0..Air /\ None = -1
      /\ skew \in -sets..sets /\ sets \in 0..MaxCmds
      /\ err \in -MaxErr..MaxErr /\ faults \in 0..MaxErr
      /\ Phase \in 0..(SearchPeriod - 1)
  BY ClockTypes
<1>1. broadAge = Long /\ (gw - Offset - 0) % SearchPeriod = 0
  BY <1>0, DueAfterLong DEF CInv, Broadcast
<1>2. /\ broadAge' = 0 /\ air' = Air /\ asked' = FALSE /\ caught' = TRUE
      /\ skew' = 0
      /\ UNCHANGED <<gw, known, err, work, since, drifted, faults, sets>>
      /\ hindered' = (hindered \/ (known /\ ~(Phase + Air <= SearchWait)))
  BY DEF Broadcast, WithinSearch, Phase, nodeVars, clockVars, pastVars,
         boundVars
<1>3. Phase' = Phase
  BY <1>2 DEF Phase, Rtc
<1>4. hindered \in BOOLEAN
  BY DEF CInv, TInv, TypeOK
<1>5. Recent' /\ Tracked' /\ Underway' /\ Searching'
  BY <1>0, <1>1, <1>2, Times DEF Recent, Tracked, Underway, Searching, Long
<1>6. ASSUME known, ~hindered'
      PROVE  /\ Phase + Air <= SearchWait
             /\ Phase = 0 \/ (work = "Search" /\ since = Phase)
  BY <1>1, <1>2, <1>4, <1>6 DEF CInv, Searching
<1>7. Listening'
  BY <1>2, <1>3, <1>6 DEF Listening
<1>8. Ahead'
  BY <1>0, <1>2, <1>3, <1>6, Times DEF Ahead
<1>9. Within'
  BY <1>2 DEF CInv, Within
<1> QED
  BY <1>5, <1>7, <1>8, <1>9 DEF CInv

\* A broadcast that was asked for may take the place of one of the schedule,
\* which is lost.
LEMMA AskedIsWithin ==
  ASSUME CInv, TInv', AskBroadcast
  PROVE  CInv'
<1>0. /\ gw \in Int /\ broadAge \in -MaxErr..Long
      /\ Long = 2 * MaxErr + SearchWait + 1
      /\ air \in {None} \cup 0..Air /\ None = -1
      /\ skew \in -sets..sets /\ sets \in 0..MaxCmds
      /\ err \in -MaxErr..MaxErr /\ faults \in 0..MaxErr
  BY ClockTypes
<1>1. /\ air' = Air /\ asked' = TRUE
      /\ UNCHANGED <<gw, broadAge, known, err, work, since, sets>>
  BY DEF AskBroadcast, gatewayVars, nodeVars, clockVars
<1>2. Phase' = Phase
  BY <1>1 DEF Phase, Rtc
<1>3. Recent' /\ Tracked' /\ Underway' /\ Listening' /\ Ahead'
  BY <1>1 DEF CInv, Recent, Tracked, Underway, Listening, Ahead, Long
<1>4. CASE air # None /\ ~asked
  <2>1. faults' = OneMore /\ hindered' = FALSE /\ drifted' = FALSE
    BY <1>4 DEF AskBroadcast
  <2>2. broadAge = Air - air - skew
    BY <1>4 DEF CInv, Underway
  <2>3. broadAge < Long
    BY <1>0, <1>4, <2>2, Times
  <2>4. Searching'
    BY <1>0, <1>1, <2>3 DEF Searching, Long
  <2>5. Within'
    BY <1>0, <1>1, <2>1, Times DEF CInv, Within, OneMore
  <2> QED
    BY <1>3, <2>4, <2>5 DEF CInv
<1>5. CASE ~(air # None /\ ~asked)
  <2>1. UNCHANGED <<faults, hindered, drifted>>
    BY <1>5 DEF AskBroadcast
  <2>2. Searching'
    BY <1>1, <1>2, <2>1 DEF CInv, Searching, Long
  <2>3. Within'
    BY <1>1, <2>1 DEF CInv, Within
  <2> QED
    BY <1>3, <2>2, <2>3 DEF CInv
<1> QED
  BY <1>4, <1>5

\* The server sets the gateway's clock, and where the node is in its period
\* stays what it is.
LEMMA SetTimeIsWithin ==
  ASSUME PeriodsFit, CInv, TInv', NEW d \in {-1, 1}, SetTime(d)
  PROVE  CInv'
<1>0. /\ gw \in Int /\ broadAge \in -MaxErr..Long
      /\ Long = 2 * MaxErr + SearchWait + 1
      /\ air \in {None} \cup 0..Air /\ None = -1
      /\ skew \in -sets..sets /\ sets \in 0..MaxCmds
      /\ err \in -MaxErr..MaxErr /\ faults \in 0..MaxErr
      /\ Phase \in 0..(SearchPeriod - 1)
  BY ClockTypes
<1>1. /\ gw' = (gw + d) % Cycle
      /\ broadAge' = Later(broadAge, d)
      /\ skew' = IF air = None THEN skew ELSE skew - d
      /\ err' = IF known THEN err - d ELSE err
      /\ sets' = sets + 1
      /\ known => err - d \in -MaxErr..MaxErr
      /\ UNCHANGED <<air, asked, caught, known, work, since, drifted, hindered,
                     faults>>
  BY DEF SetTime
<1>2. known => Phase' = Phase
  <2> SUFFICES ASSUME known PROVE Phase' = Phase
    OBVIOUS
  <2>1. gw' = (gw + d) % Cycle /\ err' = err + 0 - d /\ err \in Int /\ 0 \in Int
        /\ d \in Int
    BY <1>0, <1>1
  <2>2. Phase' = (Phase + 0) % SearchPeriod
    BY <1>0, <2>1, PhaseLater
  <2>3. Phase + 0 = Phase /\ Phase % SearchPeriod = Phase
    BY <1>0, Times, SmallRemainder
  <2> QED
    BY <2>2, <2>3
<1>12. sets' \in 0..MaxCmds
  BY DEF TInv, TypeOK
<1>3. /\ broadAge + d >= -sets' /\ broadAge + d >= -Long
      /\ broadAge' = IF broadAge = Long \/ broadAge + d > Long THEN Long
                     ELSE broadAge + d
  BY <1>0, <1>1, <1>12, Times DEF Later, CInv, Recent
<1>4. Recent'
  BY <1>0, <1>1, <1>3, Times DEF Recent
<1>5. Tracked'
  <2> SUFFICES ASSUME broadAge' < Long
               PROVE  (gw' - Offset - broadAge') % SearchPeriod = 0
    BY DEF Tracked, Long
  <2>1. broadAge < Long /\ broadAge' = broadAge + d
        /\ broadAge \in Int /\ d \in Int
    BY <1>0, <1>3, Times
  <2>2. (gw - Offset - broadAge) % SearchPeriod = 0
    BY <2>1 DEF CInv, Tracked
  <2>3. (gw' - Offset - (broadAge + d)) % SearchPeriod = 0
    BY <1>0, <1>1, <2>1, <2>2, TrackedLater
  <2> QED
    BY <2>1, <2>3
<1>6. Underway'
  BY <1>0, <1>1, <1>3, Times DEF CInv, Underway
<1>8. Searching'
  <2> SUFFICES ASSUME known, ~hindered, broadAge' = Long,
                      Phase + Air <= SearchWait
               PROVE  Phase = 0 \/ (work = "Search" /\ since = Phase)
    BY <1>1, <1>2 DEF Searching, Long
  <2>1. CASE broadAge = Long
    BY <2>1 DEF CInv, Searching
  <2>2. CASE broadAge < Long
    <3>1. broadAge >= Long - 1 /\ err - d >= -MaxErr
          /\ broadAge + d = Long
      BY <1>0, <1>1, <1>3, <2>2
    <3>2. Phase >= SearchWait + (MaxErr + err)
      BY <2>2, <3>1, PhaseLongAfter
    <3> QED
      BY <1>0, <3>1, <3>2, Times
  <2> QED
    BY <1>0, <2>1, <2>2
<1>9. Listening'
  BY <1>1, <1>2 DEF CInv, Listening, None
<1>10. Ahead'
  BY <1>1, <1>2 DEF CInv, Ahead, None
<1>11. Within'
  BY <1>0, <1>1, Times DEF CInv, Within
<1> QED
  BY <1>4, <1>5, <1>6, <1>8, <1>9, <1>10, <1>11 DEF CInv

\* The node leaves its search only when it is over, which is not before the
\* broadcast has arrived; it begins another when it is at the beginning of its
\* period.
LEMMA NodeKeepsSearch ==
  ASSUME PeriodsFit, CInv, TInv',
         StartSearch \/ Wake \/ JobEnd \/ RxEnd \/ SearchOver \/ StartJob
  PROVE  CInv'
<1>0. /\ broadAge \in -MaxErr..Long
      /\ air \in {None} \cup 0..Air /\ None = -1
      /\ since \in Nat /\ Phase \in 0..(SearchPeriod - 1)
  BY ClockTypes
<1>1. UNCHANGED <<gw, broadAge, air, asked, skew, known, err, drifted,
                  hindered, faults, sets>>
  BY DEF StartSearch, Wake, JobEnd, RxEnd, SearchOver, StartJob, gatewayVars,
         airVars, clockVars, pastVars, boundVars
<1>2. Phase' = Phase
  BY <1>1 DEF Phase, Rtc
<1>3. /\ Recent' /\ Tracked' /\ Underway' /\ Ahead' /\ Within'
  BY <1>1, <1>2
  DEF CInv, Recent, Tracked, Underway, Ahead, Within, Long, None
<1>4. air # 0 /\ (work # "Search" \/ since > SearchWait)
  BY DEF StartSearch, Wake, JobEnd, RxEnd, SearchOver, StartJob, NodeTurn
<1>5. Searching'
  <2> SUFFICES ASSUME known, ~hindered, broadAge = Long,
                      Phase + Air <= SearchWait
               PROVE  Phase = 0
    BY <1>1, <1>2 DEF Searching, Long
  <2>1. Phase = 0 \/ (work = "Search" /\ since = Phase)
    BY DEF CInv, Searching
  <2> QED
    BY <1>0, <1>4, <2>1, Times
<1>6. Listening'
  <2> SUFFICES ASSUME air # None, ~asked, known, ~hindered
               PROVE  caught' /\ Phase = 0 /\ air = Air
    BY <1>1, <1>2 DEF Listening, None
  <2>1. /\ caught
        /\ (work = "Search" /\ since = Phase) \/ (Phase = 0 /\ air = Air)
    BY DEF CInv, Listening
  <2>2. Phase + air <= SearchWait + 1 /\ air \in 1..Air
    BY <1>0, <1>4, Times DEF CInv, Ahead
  <2>3. Phase = 0 /\ air = Air
    BY <1>0, <1>4, <2>1, <2>2, Times
  <2>4. caught' = caught \/ caught' = (caught /\ air = Air)
    BY DEF StartSearch, Wake, JobEnd, RxEnd, SearchOver, StartJob, airVars
  <2> QED
    BY <2>1, <2>3, <2>4
<1> QED
  BY <1>3, <1>5, <1>6 DEF CInv

\* A broadcast of the schedule that a node does not hear was lost, or found it
\* hindered; one that was asked for moves the node in its period, and the
\* search that began with it.
LEMMA ArriveIsWithin ==
  ASSUME PeriodsFit, CInv, TInv', Arrive
  PROVE  CInv'
<1>0. /\ gw \in Int /\ broadAge \in -MaxErr..Long
      /\ Long = 2 * MaxErr + SearchWait + 1
      /\ air \in {None} \cup 0..Air /\ None = -1
      /\ skew \in -sets..sets /\ sets \in 0..MaxCmds
      /\ err \in -MaxErr..MaxErr /\ faults \in 0..MaxErr
      /\ since \in Nat /\ since <= SearchWait + 1
      /\ Phase \in 0..(SearchPeriod - 1)
  BY ClockTypes
<1>1. /\ air = 0 /\ air' = None
      /\ UNCHANGED <<gw, broadAge, work, sets>>
  BY DEF Arrive, Hear, Miss, gatewayVars
<1>2. hindered \in BOOLEAN
  BY DEF CInv, TInv, TypeOK
<1>3. Recent' /\ Tracked' /\ Underway' /\ Listening' /\ Ahead'
  BY <1>1 DEF CInv, Recent, Tracked, Underway, Listening, Ahead, Long, None
<1>4. CASE ~asked
  <2>0. hindered' = FALSE /\ drifted' = FALSE
    BY <1>4 DEF Arrive
  <2>1. broadAge = Air - skew /\ broadAge < Long
    BY <1>0, <1>1, <1>4, Times DEF CInv, Underway
  <2>2. Searching'
    BY <1>0, <1>1, <2>1 DEF Searching, Long
  <2>3. CASE Hear
    <3>1. known' = TRUE /\ err' = skew /\ faults' = 0
      BY <2>3 DEF Hear
    <3>2. Within'
      BY <1>0, <1>1, <2>0, <3>1, Times DEF Within
    <3> QED
      BY <1>3, <2>2, <3>2 DEF CInv
  <2>4. CASE Miss
    <3>1. UNCHANGED <<known, err>>
      BY <2>4 DEF Miss, clockVars
    <3>2. known => faults' = OneMore
      <4> SUFFICES ASSUME known, faults' # OneMore PROVE FALSE
        OBVIOUS
      <4>1. ~(caught /\ work = "Search") /\ ~hindered
        BY <1>4, <2>4 DEF Miss
      <4>2. caught /\ (work = "Search" \/ air = Air)
        BY <1>0, <1>1, <1>4, <4>1 DEF CInv, Listening
      <4> QED
        BY <1>1, <4>1, <4>2, Times
    <3>3. Within'
      BY <1>0, <1>1, <2>0, <3>1, <3>2, Times DEF CInv, Within, OneMore
    <3> QED
      BY <1>3, <2>2, <3>3 DEF CInv
  <2> QED
    BY <2>3, <2>4 DEF Arrive
<1>5. CASE asked
  <2>0. /\ UNCHANGED drifted
        /\ hindered' = (hindered \/ ~known \/ since # Phase)
    BY <1>5 DEF Arrive, Phase
  <2>1. CASE Hear
    <3>1. /\ known' = TRUE /\ err' = skew /\ faults' = 0 /\ work = "Search"
          /\ known => since' = Elapsed(since, SearchWait, skew - err)
      BY <2>1 DEF Hear
    <3>2. Within'
      BY <1>0, <1>1, <2>0, <3>1, Times DEF Within
    <3>3. Searching'
      <4> SUFFICES ASSUME ~hindered', broadAge' = Long,
                          Phase' + Air <= SearchWait
                   PROVE  Phase' = 0 \/ (work = "Search" /\ since' = Phase')
        BY <1>1 DEF Searching, Long
      <4>1. known /\ since = Phase
        BY <1>2, <2>0
      <4> DEFINE d == skew - err
                 q == Phase + d
      <4>2. /\ q = Phase + d /\ q \in Int /\ d \in Int
            /\ q <= SearchWait + 1 + 2 * MaxErr
            /\ -(2 * MaxErr) <= q /\ d = skew - err
        BY <1>0, <4>1, Times
      <4> HIDE DEF d, q
      <4>3. Phase' = q % SearchPeriod
        BY <2>1, <4>2, PhaseHeard DEF CInv
      <4>4. CASE q >= 0
        <5>1. q \in 0..(SearchPeriod - 1)
          BY <1>0, <4>2, <4>4, Times DEF PeriodsFit
        <5>2. Phase' = q
          BY <4>3, <5>1, Times, SmallRemainder
        <5>3. q <= SearchWait
          BY <4>2, <5>2, Times
        <5>4. since' = q
          BY <1>0, <3>1, <4>1, <4>2, <4>4, <5>3, Times DEF Elapsed
        <5> QED
          BY <3>1, <5>2, <5>4
      <4>5. CASE q < 0
        <5>1. -q < SearchPeriod /\ q + SearchPeriod > SearchWait
          BY <1>0, <4>2, <4>5, Times DEF PeriodsFit
        <5>2. Phase' = q + SearchPeriod
          BY <4>2, <4>3, <4>5, <5>1, Wrapped
        <5> QED
          BY <4>2, <5>1, <5>2, Times
      <4> QED
        BY <4>2, <4>4, <4>5
    <3> QED
      BY <1>3, <3>2, <3>3 DEF CInv
  <2>2. CASE Miss
    <3>1. UNCHANGED <<known, err, since, faults>>
      BY <1>5, <2>2 DEF Miss, clockVars
    <3>2. Phase' = Phase
      BY <1>1, <3>1 DEF Phase, Rtc
    <3>3. Searching'
      BY <1>1, <1>2, <2>0, <3>1, <3>2 DEF CInv, Searching, Long
    <3>4. Within'
      BY <1>1, <2>0, <3>1 DEF CInv, Within
    <3> QED
      BY <1>3, <3>3, <3>4 DEF CInv
  <2> QED
    BY <2>1, <2>2 DEF Arrive
<1> QED
  BY <1>4, <1>5

\* A second passes.
LEMMA TickIsWithin ==
  ASSUME PeriodsFit, CInv, TInv',
         NEW g \in {0, 1}, NEW n \in {0, 1}, Tick(g, n)
  PROVE  CInv'
<1>0. /\ gw \in Int /\ broadAge \in -MaxErr..Long
      /\ Long = 2 * MaxErr + SearchWait + 1
      /\ air \in {None} \cup 0..Air /\ None = -1
      /\ skew \in -sets..sets /\ sets \in 0..MaxCmds
      /\ err \in -MaxErr..MaxErr /\ faults \in 0..MaxErr
      /\ since \in Nat /\ since <= SearchWait + 1
      /\ Phase \in 0..(SearchPeriod - 1)
  BY ClockTypes
<1>1. /\ gw' = (gw + g) % Cycle /\ err' = err + n - g
      /\ broadAge' = Later(broadAge, g)
      /\ air # 0 /\ air' = IF air = None THEN None ELSE air - g
      /\ UNCHANGED <<asked, skew, known, work, faults, sets>>
  BY DEF Tick, Due, boundVars
<1>2. /\ drifted' = (drifted \/ g # n)
      /\ g = n \/ (known /\ ~drifted /\ err + n - g \in -MaxErr..MaxErr)
      /\ drifted \in BOOLEAN /\ hindered \in BOOLEAN /\ caught \in BOOLEAN
  BY DEF Tick, CInv, TInv, TypeOK
<1>3. /\ hindered' = (hindered \/ (known /\ Phase = 0
                       /\ ~(work = "Search" /\ since = 0)))
      /\ caught' = (caught /\ work = "Search")
      /\ work = "Search" => since' = Elapsed(since, SearchWait, n)
  BY DEF Tick, Phase
<1>4. Phase' = (Phase + n) % SearchPeriod
  <2>1. err \in Int /\ g \in Int /\ n \in Int
    BY <1>0
  <2> QED
    BY <1>0, <1>1, <2>1, PhaseLater
<1>5. /\ Phase + n < SearchPeriod => Phase' = Phase + n
      /\ Phase + n = SearchPeriod => Phase' = 0
  <2>1. CASE Phase + n < SearchPeriod
    <3>1. Phase + n \in 0..(SearchPeriod - 1)
      BY <1>0, <2>1, Times
    <3> QED
      BY <1>0, <1>4, <2>1, <3>1, Times, SmallRemainder
  <2>2. CASE Phase + n = SearchPeriod
    <3>1. SearchPeriod % SearchPeriod = 0
      BY Times
    <3> QED
      BY <1>0, <1>4, <2>2, <3>1, Times
  <2> QED
    BY <1>0, <2>1, <2>2, Times
<1>6. broadAge' = IF broadAge = Long THEN Long ELSE broadAge + g
  BY <1>0, <1>1, Times DEF Later
<1>7. Recent'
  BY <1>0, <1>1, <1>6, Times DEF CInv, Recent
<1>8. Tracked'
  <2> SUFFICES ASSUME broadAge' < Long
               PROVE  (gw' - Offset - broadAge') % SearchPeriod = 0
    BY DEF Tracked, Long
  <2>1. broadAge < Long /\ broadAge' = broadAge + g
        /\ broadAge \in Int /\ g \in Int
    BY <1>0, <1>6, Times
  <2>2. (gw - Offset - broadAge) % SearchPeriod = 0
    BY <2>1 DEF CInv, Tracked
  <2>3. (gw' - Offset - (broadAge + g)) % SearchPeriod = 0
    BY <1>0, <1>1, <2>1, <2>2, TrackedLater
  <2> QED
    BY <2>1, <2>3
<1>9. Underway'
  BY <1>0, <1>1, <1>6, Times DEF CInv, Underway, None
<1> DEFINE e == err + n - g
<1>10. /\ err' = e /\ e \in Int /\ e <= MaxErr /\ -MaxErr <= e
       /\ e = err + n - g
  <2>1. CASE g = n
    BY <1>0, <1>1, <2>1, Times
  <2>2. CASE g # n
    BY <1>0, <1>1, <1>2, <2>2, Times
  <2> QED
    BY <2>1, <2>2
<1> HIDE DEF e
\* The node goes on with the search that it began with its period.
<1>11. ASSUME known, ~hindered', Phase + n <= SearchWait + 1,
              Phase = 0 \/ (work = "Search" /\ since = Phase)
       PROVE  /\ Phase' = Phase + n
              /\ work = "Search" /\ since = Phase => since' = Phase'
              /\ Phase = 0 => work = "Search" /\ since = Phase
  <2>1. Phase + n < SearchPeriod
    BY <1>0, <1>11, Times DEF PeriodsFit
  <2>2. Phase' = Phase + n
    BY <1>5, <2>1
  <2>3. Phase = 0 => work = "Search" /\ since = Phase
    BY <1>2, <1>3, <1>11
  <2>4. work = "Search" /\ since = Phase => since' = Phase + n
    BY <1>0, <1>3, <1>11, Times DEF Elapsed
  <2> QED
    BY <2>2, <2>3, <2>4
<1>13. Searching'
  <2> SUFFICES ASSUME known, ~hindered', broadAge' = Long,
                      Phase' + Air <= SearchWait
               PROVE  Phase' = 0 \/ (work = "Search" /\ since' = Phase')
    BY <1>1 DEF Searching, Long
  <2>1. ~hindered
    BY <1>2, <1>3
  <2>2. CASE broadAge = Long
    <3>1. Phase + n <= SearchPeriod
      BY <1>0, Times
    <3>2. CASE Phase + n = SearchPeriod
      BY <1>5, <3>2
    <3>3. CASE Phase + n < SearchPeriod
      <4>1. Phase' = Phase + n /\ Phase + n + Air <= SearchWait
            /\ Phase + Air <= SearchWait /\ Phase + n <= SearchWait + 1
        BY <1>0, <1>5, <3>3, Times
      <4>2. Phase = 0 \/ (work = "Search" /\ since = Phase)
        BY <2>1, <2>2, <4>1 DEF CInv, Searching
      <4> QED
        BY <1>11, <4>1, <4>2
    <3> QED
      BY <1>0, <3>1, <3>2, <3>3, Times
  <2>3. CASE broadAge < Long
    <3>1. broadAge + g = Long /\ broadAge >= Long - 1 /\ g = 1
      BY <1>0, <1>6, <2>3, Times
    <3>2. Phase >= SearchWait + (MaxErr + err) /\ Phase + 1 < SearchPeriod
      BY <2>3, <3>1, PhaseLongAfter
    <3>3. Phase + n < SearchPeriod
      BY <1>0, <3>2, Times
    <3>4. Phase + n + Air > SearchWait
      BY <1>0, <1>10, <3>1, <3>2, Times
    <3>5. Phase' = Phase + n
      BY <1>5, <3>3
    <3> QED
      BY <1>0, <3>4, <3>5, Times
  <2> QED
    BY <1>0, <2>2, <2>3
<1>14. Ahead'
  <2> SUFFICES ASSUME air' # None, ~asked, known, ~hindered'
               PROVE  Phase' + air' <= SearchWait + (IF drifted' THEN 1 ELSE 0)
    BY <1>1 DEF Ahead, None
  <2>1. air # None /\ ~hindered /\ air' = air - g /\ air \in 1..Air
    BY <1>0, <1>1, <1>2, <1>3, Times
  <2>2. Phase + air <= SearchWait + (IF drifted THEN 1 ELSE 0)
    BY <2>1 DEF CInv, Ahead
  <2>3. Phase + n < SearchPeriod
    BY <1>0, <2>1, <2>2, Times DEF PeriodsFit
  <2>4. Phase' = Phase + n
    BY <1>5, <2>3
  <2>5. CASE g = n
    <3>1. drifted' = drifted /\ (Phase + n) + (air - g) = Phase + air
      BY <1>0, <1>2, <2>1, <2>5
    <3> QED
      BY <2>1, <2>2, <2>4, <3>1
  <2>6. CASE g # n
    <3>1. ~drifted /\ drifted'
      BY <1>2, <2>6
    <3>2. (Phase + n) + (air - g) <= SearchWait + 1
      BY <1>0, <2>1, <2>2, <3>1, Times
    <3> QED
      BY <2>1, <2>4, <3>1, <3>2
  <2> QED
    BY <2>5, <2>6
<1>15. Listening'
  <2> SUFFICES ASSUME air' # None, ~asked, known, ~hindered'
               PROVE  caught' /\ work = "Search" /\ since' = Phase'
    BY <1>1 DEF Listening, None
  <2>1. air # None /\ ~hindered /\ air \in 1..Air
    BY <1>0, <1>1, <1>2, <1>3, Times
  <2>2. /\ caught
        /\ (work = "Search" /\ since = Phase) \/ (Phase = 0 /\ air = Air)
    BY <2>1 DEF CInv, Listening
  <2>3. Phase + air <= SearchWait + (IF drifted THEN 1 ELSE 0)
    BY <2>1 DEF CInv, Ahead
  <2>4. Phase + n <= SearchWait + 1
    <3>1. CASE g = n
      BY <1>0, <2>1, <2>3, Times
    <3>2. CASE g # n
      BY <1>0, <1>2, <2>1, <2>3, <3>2, Times
    <3> QED
      BY <3>1, <3>2
  <2>5. /\ work = "Search" /\ since = Phase => since' = Phase'
        /\ Phase = 0 => work = "Search" /\ since = Phase
    BY <1>11, <2>2, <2>4
  <2> QED
    BY <1>3, <2>2, <2>5
<1>16. Within'
  <2>1. CASE g = n
    BY <1>0, <1>1, <1>2, <2>1 DEF CInv, Within
  <2>2. CASE g # n
    <3>1. ~drifted /\ drifted'
      BY <1>2, <2>2
    <3>2. e - err \in -1..1
      BY <1>0, <1>10, <2>2
    <3> QED
      BY <1>0, <1>1, <1>10, <3>1, <3>2 DEF CInv, Within
  <2> QED
    BY <2>1, <2>2
<1> QED
  BY <1>7, <1>8, <1>9, <1>13, <1>14, <1>15, <1>16 DEF CInv

LEMMA ClocksInit == Init => CInv
<1> SUFFICES ASSUME Init PROVE CInv
  OBVIOUS
<1>1. TInv
  BY TypeInit
<1>2. /\ broadAge = Long /\ Long \in Nat /\ air = None /\ hindered = TRUE
      /\ err = 0 /\ sets = 0 /\ faults = 0 /\ drifted = FALSE
  BY Times DEF Init, Long
<1>3. Recent /\ Tracked /\ Underway /\ Searching /\ Listening /\ Ahead
  BY <1>2 DEF Recent, Tracked, Underway, Searching, Listening, Ahead
<1>4. Within
  BY <1>2 DEF Within
<1> QED
  BY <1>1, <1>3, <1>4 DEF CInv

LEMMA ClocksStep ==
  ASSUME PeriodsFit, CInv, [Next]_vars
  PROVE  CInv'
<1>0. TInv'
  BY TypeStep DEF CInv
<1>1. CASE Broadcast
  BY <1>0, <1>1, BroadcastIsHeard
<1>2. CASE TakePack \/ SendPack \/ GiveUp \/ UNCHANGED vars
  <2>1. UNCHANGED clocks
    BY <1>2
    DEF TakePack, SendPack, GiveUp, clocks, vars, gatewayVars, airVars,
        clockVars, nodeVars, pastVars, boundVars
  <2> QED
    BY <1>0, <2>1, ClocksUnchanged
<1>3. CASE SetTime(-1) \/ SetTime(1)
  BY <1>0, <1>3, SetTimeIsWithin
<1>4. CASE Node \/ StartJob
  BY <1>0, <1>4, NodeKeepsSearch DEF Node
<1>5. CASE Arrive
  BY <1>0, <1>5, ArriveIsWithin
<1>6. CASE Tick(1, 1) \/ Tick(1, 0) \/ Tick(0, 1)
  BY <1>0, <1>6, TickIsWithin
<1>7. CASE AskBroadcast
  BY <1>0, <1>7, AskedIsWithin
<1> QED
  BY <1>1, <1>2, <1>3, <1>4, <1>5, <1>6, <1>7 DEF Next, Gateway

\* A node that knows the time is never further from the gateway's clock than
\* the seconds it lost with the broadcasts of the schedule that it missed since
\* it last heard one, and those by which the server set the gateway's clock; and
\* it misses none that falls into its search without a reason. For any periods
\* in which one search is over before the next broadcast.
THEOREM ClocksStayClose == PeriodsFit => (Spec => []ClocksAgree)
<1> SUFFICES ASSUME PeriodsFit PROVE Spec => []ClocksAgree
  OBVIOUS
<1>1. Init => CInv
  BY ClocksInit
<1>2. CInv /\ [Next]_vars => CInv'
  BY ClocksStep
<1>3. CInv => ClocksAgree
  <2> SUFFICES ASSUME CInv, known
               PROVE  err \in -(faults + sets + 1)..(faults + sets + 1)
    BY DEF ClocksAgree
  <2>1. err \in Int /\ faults \in Nat /\ sets \in Nat
    BY ClockTypes
  <2> QED
    BY <2>1 DEF CInv, Within
<1> QED
  BY <1>1, <1>2, <1>3, PTL DEF Spec

-----------------------------------------------------------------------------
(* The three tries of a down pack.                                         *)

\* The times for which the tries are made: a search is over before the next try
\* is due, and one comes after both and before the next search; the clocks
\* differ by less than lies between two wake-ups.
TriesBetweenSearches ==
  /\ SearchPeriod % WakePeriod = 0
  /\ SearchWait <= Gap
  /\ 2 * MaxErr < WakePeriod
  /\ \E m \in (SearchWait + Gap + 1)..(SearchPeriod - 1) : m % WakePeriod = 0

\* The times of the code (nwk_master.c:1082, app_node.c:427, 437), with the
\* wake periods up to a minute that divide the two minutes of a search period.
CodeTimes ==
  /\ SearchPeriod = 120 /\ SearchWait = 10
  /\ WakePeriod \in {10, 12, 15, 20, 24, 30, 40, 60}
  /\ 2 * MaxErr < WakePeriod

\* They are such times, and with the default offset of 0, or any up to 17
\* seconds, PeriodsFit too.
LEMMA CodeTimesFit ==
  ASSUME CodeTimes
  PROVE  TriesBetweenSearches /\ (Offset <= 17 => PeriodsFit)
<1>1. SearchPeriod % WakePeriod = 0
  BY DEF CodeTimes
<1>2. SearchWait + Gap + 1 = 21 /\ SearchPeriod - 1 = 119 /\ SearchWait <= Gap
  BY DEF CodeTimes, Gap
<1>3. \E m \in 21..119 : m % WakePeriod = 0
  <2>1. /\ 30 % 10 = 0 /\ 24 % 12 = 0 /\ 30 % 15 = 0 /\ 40 % 20 = 0
        /\ 24 % 24 = 0 /\ 30 % 30 = 0 /\ 40 % 40 = 0 /\ 60 % 60 = 0
    OBVIOUS
  <2>2. 24 \in 21..119 /\ 30 \in 21..119 /\ 40 \in 21..119 /\ 60 \in 21..119
    OBVIOUS
  <2> QED
    BY <2>1, <2>2 DEF CodeTimes
<1>4. Offset <= 17 => PeriodsFit
  BY Times DEF CodeTimes, PeriodsFit
<1> QED
  BY <1>1, <1>2, <1>3, <1>4 DEF CodeTimes, TriesBetweenSearches

LastTry ==
  CHOOSE m \in (SearchWait + Gap + 1)..(SearchPeriod - 1) : m % WakePeriod = 0

LEMMA LastTryIs ==
  ASSUME TriesBetweenSearches
  PROVE  /\ LastTry \in (SearchWait + Gap + 1)..(SearchPeriod - 1)
         /\ LastTry % WakePeriod = 0
BY DEF TriesBetweenSearches, LastTry

\* After a wake-up, a wake period is left of the search period.
LEMMA WakeBeforeEnd ==
  ASSUME SearchPeriod % WakePeriod = 0,
         NEW m \in 0..(SearchPeriod - 1), m % WakePeriod = 0
  PROVE  SearchPeriod - m >= WakePeriod
<1>0. /\ WakePeriod \in Nat \ {0} /\ SearchPeriod \in Nat \ {0}
      /\ SearchPeriod \in Int /\ m \in Int /\ SearchPeriod - m > 0
  BY Times
<1>1. PICK i \in Int : SearchPeriod = (WakePeriod * i) + (SearchPeriod % WakePeriod)
  BY <1>0, DivMod, Zenon
<1>2. PICK j \in Int : m = (WakePeriod * j) + (m % WakePeriod)
  BY <1>0, DivMod, Zenon
<1>3. /\ WakePeriod * i = SearchPeriod /\ WakePeriod * j = m
  BY <1>0, <1>1, <1>2
<1> DEFINE k == i - j
<1>4. k \in Int /\ WakePeriod * k = SearchPeriod - m
  <2>1. WakePeriod * (i - j) = WakePeriod * i - WakePeriod * j
    BY <1>0
  <2> QED
    BY <1>3, <2>1
<1> HIDE DEF k
<1>5. CASE k <= 0
  <2>1. WakePeriod * k <= 0
    BY <1>0, <1>4, <1>5
  <2> QED
    BY <1>0, <1>4, <2>1
<1>6. CASE k >= 1
  <2>1. WakePeriod * k >= WakePeriod
    BY <1>0, <1>4, <1>6
  <2> QED
    BY <1>4, <2>1
<1> QED
  BY <1>4, <1>5, <1>6

\* So a search and the difference of the clocks fit into a search period.
LEMMA SearchFits ==
  ASSUME TriesBetweenSearches
  PROVE  SearchWait + 2 * MaxErr + 2 < SearchPeriod
<1>1. /\ LastTry \in 0..(SearchPeriod - 1) /\ LastTry % WakePeriod = 0
      /\ LastTry >= SearchWait + 11
  BY LastTryIs, Times DEF Gap
<1>2. SearchPeriod - LastTry >= WakePeriod
  BY <1>1, WakeBeforeEnd DEF TriesBetweenSearches
<1> QED
  BY <1>1, <1>2, Times DEF TriesBetweenSearches

\* Where in its search period the gateway is.
GwPhase == gw % SearchPeriod

\* A search that did not begin with the node's period: the first of a node
\* that starts with its clock set.
Odd == work = "Search" /\ since # Phase /\ (since <= SearchWait \/ air = 0)

\* There is a pack of which no try failed for a reason.
On == pack /\ ~excuse

\* A try reaches the node in the second in which it wakes.
Sent ==
  On /\ tries >= 1 /\ call # 0 =>
    rest = 2 - call /\ (gw - 1 + call) % WakePeriod = 0

\* The last wake-up was further from the beginning of the period that is next
\* than a broadcast can move the node's clock, and so is from any time in the
\* search that begins with it: no clock is set back over a wake-up.
Waked ==
  \/ wakeAge = Long
  \/ /\ known /\ started /\ wakeAge >= 0
     /\ wakeAge + (IF Phase = 0 THEN 0 ELSE SearchPeriod - Phase) > 2 * MaxErr
     /\ work = "Search" =>
          \/ since = Phase /\ since <= SearchWait /\ wakeAge > 2 * MaxErr + since
          \/ since > SearchWait /\ air # 0 /\ wakeAge >= 1

Unstarted == ~started => work \in {"Idle", "Job"}

\* A node that woke while it was called is receiving.
Woken ==
  On /\ tries >= 1 /\ call = 1 /\ known /\ err = 0 /\ wakeAge = 0 => work = "RX"

\* After a first try for nothing the node may be in its first search, of which
\* that try has used a second and the time since then has used the others.
FirstTry ==
  On /\ tries = 1 /\ call = 0 =>
    started /\ known /\ rest >= 2 /\ (Odd => since - err >= rest - 1)

\* That search is over before the second try reaches the node, which then can
\* be for nothing only at the beginning of a period.
SecondTry ==
  On /\ tries = 2 =>
    /\ started /\ known
    /\ call # 0 => (Odd => since - err >= Gap + rest)
    /\ call = 0 => /\ ~Odd /\ rest >= 2
                   /\ GwPhase \in (rest - 1)..(LastTry - 1)
                   /\ rest <= Gap => GwPhase <= SearchWait + rest - 1

\* So the third comes when the node does not search, and is not for nothing.
ThirdTry ==
  On /\ tries = 3 =>
    /\ call # 0 /\ started /\ known /\ ~Odd
    /\ GwPhase + call - 1 \in (SearchWait + 1)..LastTry

TryInv == /\ Sent /\ Waked /\ Unstarted /\ Woken
          /\ FirstTry /\ SecondTry /\ ThirdTry

LEMMA TryTypes ==
  ASSUME TInv
  PROVE  /\ tries \in 0..3 /\ rest \in 0..11 /\ call \in 0..2 /\ Gap = 10
         /\ Tries = 3
         /\ wakeAge \in -Long..Long /\ GwPhase \in 0..(SearchPeriod - 1)
         /\ pack \in BOOLEAN /\ excuse \in BOOLEAN /\ known \in BOOLEAN
         /\ started \in BOOLEAN /\ gw \in Int
         /\ Long = 2 * MaxErr + SearchWait + 1
         /\ air \in {None} \cup 0..Air /\ None = -1
         /\ skew \in -sets..sets /\ sets \in 0..MaxCmds
         /\ err \in -MaxErr..MaxErr /\ err \in Int
         /\ since \in Nat /\ since <= SearchWait + 1
         /\ Phase \in 0..(SearchPeriod - 1)
         /\ work \in {"Idle", "Search", "RX", "Job"}
<1>1. gw % SearchPeriod \in 0..(SearchPeriod - 1)
  BY Times DEF TInv, TypeOK
<1>2. gw \in Int /\ err \in -MaxErr..MaxErr /\ err \in Int
  BY Times DEF TInv, TypeOK
<1>3. Phase \in 0..(SearchPeriod - 1)
  BY <1>2, PhaseIs
<1>4. since \in Nat /\ since <= SearchWait + 1
  BY Times DEF TInv, TypeOK, Over
<1> QED
  BY <1>1, <1>2, <1>3, <1>4
  DEF TInv, TypeOK, Gap, Tries, GwPhase, Long, None, Skewed

\* What the tries depend on.
attempts == <<gw, pack, tries, rest, call, known, err, started, work, since,
              wakeAge, excuse, air>>

LEMMA AttemptsUnchanged ==
  ASSUME TryInv, UNCHANGED attempts
  PROVE  TryInv'
<1>1. Phase' = Phase /\ GwPhase' = GwPhase
  BY DEF attempts, Phase, Rtc, GwPhase
<1>2. (On' <=> On) /\ (Odd' <=> Odd)
  BY <1>1 DEF attempts, On, Odd
<1>3. Sent' /\ Waked' /\ Unstarted' /\ Woken'
  BY <1>1, <1>2 DEF TryInv, attempts, Sent, Waked, Unstarted, Woken, Gap
<1>4. FirstTry' /\ SecondTry' /\ ThirdTry'
  BY <1>1, <1>2
  DEF TryInv, attempts, FirstTry, SecondTry, ThirdTry, Gap
<1> QED
  BY <1>3, <1>4 DEF TryInv

\* A new pack, or none, or one with an excuse.
LEMMA NoTries ==
  ASSUME ~On' \/ tries' = 0, Waked', Unstarted'
  PROVE  TryInv'
BY DEF TryInv, Sent, Woken, FirstTry, SecondTry, ThirdTry

LEMMA BroadcastTries ==
  ASSUME TInv, TryInv, Broadcast \/ AskBroadcast
  PROVE  TryInv'
<1>0. air' # 0 /\ UNCHANGED <<gw, pack, tries, rest, call, known, err, started,
                              work, since, wakeAge, excuse>>
  BY Times DEF Broadcast, AskBroadcast, gatewayVars, nodeVars, clockVars
<1>1. Phase' = Phase /\ GwPhase' = GwPhase
  BY <1>0 DEF Phase, Rtc, GwPhase
<1>2. (On' <=> On) /\ (Odd' => Odd)
  BY <1>0, <1>1 DEF On, Odd
<1>3. Sent' /\ Waked' /\ Unstarted' /\ Woken'
  BY <1>0, <1>1, <1>2 DEF TryInv, Sent, Waked, Unstarted, Woken, Long
<1>4. FirstTry' /\ SecondTry' /\ ThirdTry'
  BY <1>0, <1>1, <1>2
  DEF TryInv, FirstTry, SecondTry, ThirdTry, Gap
<1> QED
  BY <1>3, <1>4 DEF TryInv

\* The gateway has no pack after these, or one it has not tried, or one whose
\* tries the setting of its clock may have spoilt.
LEMMA FreshTries ==
  ASSUME TInv, TryInv,
         TakePack \/ GiveUp \/ RxEnd \/ SetTime(-1) \/ SetTime(1)
  PROVE  TryInv'
<1>0. /\ gw \in Int /\ err \in Int /\ Phase \in 0..(SearchPeriod - 1)
  BY TryTypes
<1>1. CASE TakePack \/ GiveUp \/ RxEnd
  <2>1. /\ ~On' \/ tries' = 0
        /\ UNCHANGED <<gw, air, since, known, err, wakeAge, started>>
        /\ work' = work \/ work' = "Idle"
    BY <1>1
    DEF On, TakePack, GiveUp, RxEnd, airVars, clockVars, nodeVars, pastVars,
        boundVars
  <2>2. Phase' = Phase
    BY <2>1 DEF Phase, Rtc
  <2>3. Waked' /\ Unstarted'
    BY <2>1, <2>2 DEF TryInv, Waked, Unstarted, Long
  <2> QED
    BY <2>1, <2>3, NoTries
<1>2. ASSUME NEW d \in {-1, 1}, SetTime(d) PROVE TryInv'
  <2>1. /\ ~On' /\ UNCHANGED <<known, wakeAge, started, work, since, air>>
        /\ gw' = (gw + d) % Cycle
        /\ err' = IF known THEN err - d ELSE err
    BY <1>2 DEF SetTime, On
  <2>2. known => Phase' = Phase
    <3> SUFFICES ASSUME known PROVE Phase' = Phase
      OBVIOUS
    <3>1. gw' = (gw + d) % Cycle /\ err' = err + 0 - d /\ err \in Int
          /\ 0 \in Int /\ d \in Int
      BY <1>0, <2>1
    <3>2. Phase' = (Phase + 0) % SearchPeriod
      BY <1>0, <3>1, PhaseLater
    <3>3. Phase + 0 = Phase /\ Phase % SearchPeriod = Phase
      BY <1>0, Times, SmallRemainder
    <3> QED
      BY <3>2, <3>3
  <2>3. Waked' /\ Unstarted'
    BY <2>1, <2>2 DEF TryInv, Waked, Unstarted, Long
  <2> QED
    BY <2>1, <2>3, NoTries
<1> QED
  BY <1>1, <1>2

LEMMA MissTries ==
  ASSUME TInv, TryInv, Arrive, Miss
  PROVE  TryInv'
<1>1. /\ UNCHANGED <<gw, pack, tries, rest, call, known, err, started, work,
                     since, wakeAge, excuse>>
      /\ air = 0 /\ air' = -1
  BY DEF Arrive, Miss, clockVars, gatewayVars, None
<1>2. Phase' = Phase /\ GwPhase' = GwPhase
  BY <1>1 DEF Phase, Rtc, GwPhase
<1>3. (On' <=> On) /\ (Odd' => Odd)
  BY <1>1, <1>2 DEF On, Odd
<1>4. Sent' /\ Waked' /\ Unstarted' /\ Woken'
  BY <1>1, <1>2, <1>3 DEF TryInv, Sent, Waked, Unstarted, Woken, Long
<1>5. FirstTry' /\ SecondTry' /\ ThirdTry'
  BY <1>1, <1>2, <1>3
  DEF TryInv, FirstTry, SecondTry, ThirdTry, Gap
<1> QED
  BY <1>4, <1>5 DEF TryInv

\* A node that knows the time starts a search only with its period, and one
\* that wakes while it is called receives.
LEMMA NodeTries ==
  ASSUME TriesBetweenSearches, TInv, TryInv,
         StartSearch \/ Wake \/ JobEnd \/ SearchOver \/ StartJob
  PROVE  TryInv'
<1>0. /\ wakeAge \in -Long..Long /\ Phase \in 0..(SearchPeriod - 1)
      /\ Long = 2 * MaxErr + SearchWait + 1 /\ gw \in Int /\ err \in Int
  BY TryTypes
<1>1. /\ UNCHANGED <<gw, pack, tries, rest, call, known, err, excuse, air>>
      /\ air # 0
  BY DEF StartSearch, Wake, JobEnd, SearchOver, StartJob, NodeTurn,
         gatewayVars, airVars, clockVars, pastVars, boundVars
<1>2. Phase' = Phase /\ GwPhase' = GwPhase /\ (On' <=> On)
  BY <1>1 DEF Phase, Rtc, GwPhase, On
<1>3. Sent'
  BY <1>1, <1>2 DEF TryInv, Sent
<1>4. CASE StartSearch
  <2>1. /\ work = "Idle" /\ work' = "Search" /\ started' = TRUE /\ since' = 0
        /\ UNCHANGED wakeAge
        /\ ~started \/ ~known \/ Phase = 0
    BY <1>4 DEF StartSearch, NodeTurn, SearchDue, Phase
  <2>2. Waked' /\ Unstarted' /\ Woken'
    <3>1. Waked'
      BY <1>0, <1>1, <1>2, <2>1, Times DEF TryInv, Waked, Long
    <3>2. Unstarted' /\ Woken'
      BY <1>1, <1>2, <2>1 DEF TryInv, Unstarted, Woken
    <3> QED
      BY <3>1, <3>2
  <2>3. started /\ known => ~Odd'
    BY <1>2, <2>1 DEF Odd
  <2>4. FirstTry' /\ SecondTry' /\ ThirdTry'
    BY <1>1, <1>2, <2>1, <2>3 DEF TryInv, FirstTry, SecondTry, ThirdTry, Gap
  <2> QED
    BY <1>3, <2>2, <2>4 DEF TryInv
<1>5. CASE Wake \/ JobEnd \/ SearchOver \/ StartJob
  <2>1. work' # "Search" /\ UNCHANGED started
    BY <1>5 DEF Wake, JobEnd, SearchOver, StartJob, NodeTurn, clockVars
  <2>2. Waked' /\ Unstarted' /\ Woken'
    <3>1. CASE Wake
      <4>1. /\ work = "Idle" /\ wakeAge' = 0 /\ started /\ known /\ Phase # 0
            /\ call # 0 => work' = "RX"
            /\ Rtc % WakePeriod = 0
        BY <3>1 DEF Wake, NodeTurn, WakeDue, SearchDue, Phase
      <4>2. Phase % WakePeriod = 0
        <5>1. Rtc \in Int
          BY <1>0, Times DEF Rtc
        <5>2. /\ WakePeriod \in Nat \ {0} /\ SearchPeriod \in Nat \ {0}
              /\ SearchPeriod % WakePeriod = 0 /\ 0 \in Int
          BY Times DEF TriesBetweenSearches
        <5>3. ((Rtc % SearchPeriod) + 0) % WakePeriod = (Rtc + 0) % WakePeriod
          BY <5>1, <5>2, RemainderOfCycle, Zenon
        <5>4. Rtc + 0 = Rtc /\ Phase + 0 = Phase
          BY <1>0, <5>1
        <5> QED
          BY <4>1, <5>3, <5>4 DEF Phase
      <4>3. SearchPeriod - Phase >= WakePeriod
        BY <1>0, <4>2, WakeBeforeEnd DEF TriesBetweenSearches
      <4>4. Waked'
        BY <1>0, <1>1, <1>2, <2>1, <4>1, <4>3, Times
        DEF Waked, TriesBetweenSearches
      <4> QED
        BY <1>1, <2>1, <4>1, <4>4 DEF Unstarted, Woken
    <3>2. CASE JobEnd \/ SearchOver \/ StartJob
      <4>1. /\ UNCHANGED wakeAge
            /\ work # "RX" /\ work' \in {"Idle", "Job"}
        BY <3>2 DEF JobEnd, SearchOver, StartJob, NodeTurn, clockVars
      <4> QED
        BY <1>1, <1>2, <2>1, <4>1 DEF TryInv, Waked, Unstarted, Woken, Long
    <3> QED
      BY <1>5, <3>1, <3>2
  <2>3. ~Odd'
    BY <2>1 DEF Odd
  <2>4. FirstTry' /\ SecondTry' /\ ThirdTry'
    BY <1>1, <1>2, <2>1, <2>3 DEF TryInv, FirstTry, SecondTry, ThirdTry, Gap
  <2> QED
    BY <1>3, <2>2, <2>4 DEF TryInv
<1> QED
  BY <1>4, <1>5

\* A broadcast moves the beginning of the search along with the node's clock,
\* and not over its last wake-up.
LEMMA HearTries ==
  ASSUME TriesBetweenSearches, TInv, TryInv, Arrive, Hear
  PROVE  TryInv'
<1>0. /\ Long = 2 * MaxErr + SearchWait + 1
      /\ skew \in -sets..sets /\ sets \in 0..MaxCmds
      /\ err \in -MaxErr..MaxErr /\ since \in Nat /\ since <= SearchWait + 1
      /\ Phase \in 0..(SearchPeriod - 1) /\ wakeAge \in -Long..Long
      /\ SearchWait + 2 * MaxErr + 2 < SearchPeriod
  BY TryTypes, SearchFits
<1> DEFINE d == skew - err
           q == Phase + d
           s == since + d
           w == wakeAge + d
<1>1. /\ UNCHANGED <<gw, pack, tries, rest, call, started, work, excuse>>
      /\ known' = TRUE /\ err' = skew /\ air = 0 /\ air' = -1 /\ work = "Search"
      /\ since' = IF known THEN Elapsed(since, SearchWait, d) ELSE Over
      /\ wakeAge' = IF known THEN Later(wakeAge, d) ELSE Long
  BY DEF Arrive, Hear, gatewayVars, None
<1>2. Phase' = q % SearchPeriod /\ GwPhase' = GwPhase
  BY <1>1, PhaseHeard DEF GwPhase
<1>3. /\ d \in Int /\ -(2 * MaxErr) <= d /\ d <= 2 * MaxErr
      /\ q \in Int /\ q = Phase + d /\ s \in Int /\ s = since + d
      /\ w \in Int /\ w = wakeAge + d /\ s - skew = since - err
  BY <1>0, Times
<1> HIDE DEF d, q, s, w
<1>4. (since' = s /\ s \in 0..SearchWait /\ known) \/ since' = SearchWait + 1
  BY <1>0, <1>1, <1>3, Times DEF Elapsed, Over
<1>5. /\ q >= 0 /\ q < SearchPeriod => Phase' = q
      /\ q < 0 => Phase' = q + SearchPeriod
  <2>1. ASSUME q >= 0, q < SearchPeriod PROVE Phase' = q
    <3>1. q \in 0..(SearchPeriod - 1)
      BY <1>3, <2>1, Times
    <3> QED
      BY <1>2, <3>1, Times, SmallRemainder
  <2>2. ASSUME q < 0 PROVE Phase' = q + SearchPeriod
    <3>1. -q < SearchPeriod
      BY <1>0, <1>3, Times
    <3> QED
      BY <1>2, <1>3, <2>2, <3>1, Wrapped
  <2> QED
    BY <2>1, <2>2
<1>6. On' <=> On
  BY <1>1 DEF On
<1>7. Sent' /\ Unstarted'
  BY <1>1, <1>6 DEF TryInv, Sent, Unstarted
<1>8. Waked' /\ wakeAge' # 0
  <2>1. CASE wakeAge' = Long
    BY <1>0, <2>1, Times DEF Waked, Long
  <2>2. CASE wakeAge' # Long
    <3>1. /\ known /\ wakeAge # Long
          /\ w <= Long /\ wakeAge' = IF w < -Long THEN -Long ELSE w
      BY <1>0, <1>1, <1>3, <2>2, Times DEF Later
    <3>2. /\ started /\ since = Phase /\ since <= SearchWait
          /\ wakeAge > 2 * MaxErr + since
      BY <1>1, <3>1 DEF TryInv, Waked
    <3>3. w > since /\ s = q /\ q < SearchPeriod /\ wakeAge' = w
          /\ w - q > 2 * MaxErr
      BY <1>0, <1>3, <3>1, <3>2, Times
    <3>4. CASE q >= 0
      <4>1. Phase' = q
        BY <1>5, <3>3, <3>4
      <4>2. w + (IF q = 0 THEN 0 ELSE SearchPeriod - q) > 2 * MaxErr
        BY <1>0, <1>3, <3>3, <3>4, Times
      <4>3. (since' = q /\ q <= SearchWait) \/ since' = SearchWait + 1
        BY <1>4, <3>3
      <4>4. w >= 1 /\ w > 2 * MaxErr + q /\ SearchWait + 1 > SearchWait
        BY <1>0, <1>3, <3>3, Times
      <4> QED
        BY <1>0, <1>1, <1>3, <3>1, <3>2, <3>3, <4>1, <4>2, <4>3, <4>4, Times
        DEF Waked
    <3>5. CASE q < 0
      <4>1. Phase' = q + SearchPeriod /\ since' = SearchWait + 1
        BY <1>3, <1>4, <1>5, <3>3, <3>5, Times
      <4>2. /\ w + (SearchPeriod - (q + SearchPeriod)) > 2 * MaxErr
            /\ q + SearchPeriod # 0 /\ w >= 1 /\ SearchWait + 1 > SearchWait
        BY <1>0, <1>3, <3>2, <3>3, <3>5, Times
      <4> QED
        BY <1>0, <1>1, <1>3, <3>1, <3>2, <3>3, <4>1, <4>2, Times DEF Waked
    <3> QED
      BY <1>3, <3>4, <3>5
  <2> QED
    BY <2>1, <2>2
<1>9. Woken'
  BY <1>8 DEF Woken
<1>10. Odd' => known /\ Odd /\ since' - err' = since - err
  <2> SUFFICES ASSUME Odd' PROVE known /\ Odd /\ since' - err' = since - err
    OBVIOUS
  <2>1. since' # Phase' /\ since' <= SearchWait
    BY <1>1 DEF Odd
  <2>2. since' = s /\ s \in 0..SearchWait /\ known
    BY <1>4, <2>1, Times
  <2>3. since # Phase
    <3> SUFFICES ASSUME since = Phase PROVE FALSE
      OBVIOUS
    <3>1. q = s /\ q >= 0 /\ q < SearchPeriod
      BY <1>0, <1>3, <2>2, Times
    <3> QED
      BY <1>5, <2>1, <2>2, <3>1
  <2> QED
    BY <1>1, <1>3, <2>2, <2>3 DEF Odd
<1>11. FirstTry' /\ SecondTry' /\ ThirdTry'
  BY <1>1, <1>2, <1>6, <1>10
  DEF TryInv, FirstTry, SecondTry, ThirdTry, Gap
<1> QED
  BY <1>7, <1>8, <1>9, <1>11 DEF TryInv

\* A try is sent in a second before one in which the node wakes, at the end of
\* a gap after the try before.
LEMMA SendTries ==
  ASSUME TriesBetweenSearches, TInv, TryInv, SendPack
  PROVE  TryInv'
<1>0. /\ tries \in 0..3 /\ rest \in 0..11 /\ call \in 0..2 /\ Gap = 10
      /\ GwPhase \in 0..(SearchPeriod - 1) /\ gw \in Int
  BY TryTypes
<1>1. /\ UNCHANGED <<gw, pack, known, err, started, work, since, wakeAge, air>>
      /\ tries' = tries + 1 /\ rest' = 0 /\ rest = 11
      /\ (gw + 1) % WakePeriod = 0
  BY <1>0
  DEF SendPack, PackDue, nodeVars, clockVars
<1>2. Phase' = Phase /\ GwPhase' = GwPhase
  BY <1>1 DEF Phase, Rtc, GwPhase
<1>3. (Odd' <=> Odd) /\ Waked' /\ Unstarted'
  BY <1>1, <1>2 DEF TryInv, Odd, Waked, Unstarted, Long
<1>4. CASE ~On'
  BY <1>3, <1>4, NoTries
<1>5. CASE On'
  <2>1. call' = 2 /\ On
    BY <1>1, <1>5 DEF SendPack, On
  <2>2. Sent'
    BY <1>0, <1>1, <2>1 DEF Sent
  <2>3. Woken' /\ FirstTry'
    BY <2>1 DEF Woken, FirstTry
  <2>4. tries >= 1 => call = 0
    BY <1>0, <1>1, <2>1 DEF TryInv, Sent
  <2>5. SecondTry'
    <3> SUFFICES ASSUME tries = 1
                 PROVE  started /\ known /\ (Odd => since - err >= 10)
      BY <1>0, <1>1, <1>3, <2>1 DEF SecondTry
    <3> QED
      BY <1>1, <2>1, <2>4 DEF TryInv, FirstTry
  <2>6. ThirdTry'
    <3> SUFFICES ASSUME tries = 2
                 PROVE  /\ started /\ known /\ ~Odd
                        /\ GwPhase + 1 \in (SearchWait + 1)..LastTry
      BY <1>0, <1>1, <1>2, <1>3, <2>1 DEF ThirdTry
    <3>1. /\ started /\ known /\ ~Odd
          /\ GwPhase \in 10..(LastTry - 1)
      BY <1>0, <1>1, <2>1, <2>4 DEF TryInv, SecondTry
    <3>2. SearchWait <= 10 /\ LastTry \in Int
      BY <1>0, Times, LastTryIs DEF TriesBetweenSearches
    <3> QED
      BY <1>0, <3>1, <3>2, Times
  <2> QED
    BY <1>3, <2>2, <2>3, <2>5, <2>6 DEF TryInv
<1> QED
  BY <1>4, <1>5

\* Where the two clocks are in their periods after a second.
LEMMA TickPlaces ==
  ASSUME TInv, NEW g \in {0, 1}, NEW n \in {0, 1}, Tick(g, n)
  PROVE  /\ Phase + n < SearchPeriod => Phase' = Phase + n
         /\ Phase + n = SearchPeriod => Phase' = 0
         /\ GwPhase + g < SearchPeriod => GwPhase' = GwPhase + g
<1>0. /\ gw \in Int /\ err \in Int /\ g \in Int /\ n \in Int
      /\ Phase \in 0..(SearchPeriod - 1) /\ GwPhase \in 0..(SearchPeriod - 1)
  BY TryTypes
<1>1. gw' = (gw + g) % Cycle /\ err' = err + n - g
  BY DEF Tick
<1>2. Phase' = (Phase + n) % SearchPeriod
  BY <1>0, <1>1, PhaseLater
<1>3. GwPhase' = (GwPhase + g) % SearchPeriod
  <2>1. gw + g \in Int
    BY <1>0
  <2>2. ((gw + g) % Cycle) % SearchPeriod = (gw + g) % SearchPeriod
    BY <2>1, CycleRemainderOf
  <2>3. ((gw % SearchPeriod) + g) % SearchPeriod = (gw + g) % SearchPeriod
    BY <1>0, Times, RemainderOfRemainder
  <2> QED
    BY <1>1, <2>2, <2>3 DEF GwPhase
<1>4. ASSUME Phase + n < SearchPeriod PROVE Phase' = Phase + n
  <2>1. Phase + n \in 0..(SearchPeriod - 1)
    BY <1>0, <1>4, Times
  <2> QED
    BY <1>2, <2>1, Times, SmallRemainder
<1>5. ASSUME GwPhase + g < SearchPeriod PROVE GwPhase' = GwPhase + g
  <2>1. GwPhase + g \in 0..(SearchPeriod - 1)
    BY <1>0, <1>5, Times
  <2> QED
    BY <1>3, <2>1, Times, SmallRemainder
<1>6. SearchPeriod % SearchPeriod = 0
  BY Times
<1> QED
  BY <1>2, <1>4, <1>5, <1>6

\* The last second in which a try may still reach the node: if it does not, the
\* node is in a search.
LEMMA LastSecond ==
  ASSUME TInv, TryInv, NEW n \in {0, 1}, Tick(1, n),
         On', tries >= 1, call = 1
  PROVE  /\ rest = 1 /\ known /\ err = 0 /\ started /\ GwPhase = Phase
         /\ ~Odd => Phase <= SearchWait
<1>0. /\ gw \in Int /\ Phase \in Int /\ None = -1
      /\ wakeAge \in Int /\ since \in Nat
  BY TryTypes
<1>1. /\ On /\ known /\ err = 0 /\ work \notin {"Job", "RX"}
      /\ work = "Idle" => ~SearchDue /\ ~WakeDue
      /\ work = "Search" => since <= SearchWait
  <2>1. pack' = pack /\ pack' /\ ~excuse'
    BY DEF On, Tick
  <2>2. excuse' = (excuse \/ (pack /\ call # 0 /\ (~known \/ err # 0))
                          \/ (pack /\ call = 1 /\ work \in {"Job", "RX"}))
    BY DEF Tick
  <2>3. ~Due
    BY DEF Tick
  <2>4. work = "Search" => ~(since > SearchWait)
    BY <2>3 DEF Due
  <2>5. work = "Search" => since <= SearchWait
    BY <1>0, <2>4, Times
  <2>6. work = "Idle" => ~SearchDue /\ ~WakeDue
    BY <2>3, Zenon DEF Due
  <2>7. call = 1 /\ call # 0
    OBVIOUS
  <2>8. On /\ known /\ err = 0 /\ work \notin {"Job", "RX"}
    BY <2>1, <2>2, <2>7, Zenon DEF On
  <2> QED
    BY <2>5, <2>6, <2>8
<1>2. work \in {"Idle", "Search"}
  BY <1>1 DEF TInv, TypeOK
<1>3. rest = 1 /\ gw % WakePeriod = 0
  <2>1. rest = 2 - call /\ (gw - 1 + call) % WakePeriod = 0
    BY <1>1 DEF TryInv, Sent
  <2>2. gw - 1 + call = gw
    BY <1>0
  <2> QED
    BY <2>1, <2>2
<1>4. started
  BY <1>1, <1>2 DEF TryInv, Unstarted, SearchDue
<1>5. GwPhase = Phase
  <2>1. Phase = (gw + err) % SearchPeriod
    BY <1>0, <1>1, PhaseIs
  <2>2. gw + err = gw
    BY <1>0, <1>1
  <2> QED
    BY <2>1, <2>2 DEF GwPhase
<1>6. ASSUME ~Odd PROVE Phase <= SearchWait
  <2>1. CASE work = "Idle"
    <3>1. Rtc % WakePeriod = 0
      <4>1. ((gw % Cycle) + 0) % WakePeriod = (gw + 0) % WakePeriod
        <5>1. Cycle % WakePeriod = 0 /\ gw \in Int /\ 0 \in Int
          BY <1>0, CycleIsMultiple
        <5>2. WakePeriod \in Nat \ {0} /\ Cycle \in Nat \ {0}
          BY Times
        <5> QED
          BY <5>1, <5>2, RemainderOfCycle, Zenon
      <4>2. (gw % Cycle) + 0 = gw % Cycle /\ gw + 0 = gw /\ gw + err = gw
        BY <1>0, <1>1, Times
      <4> QED
        BY <1>3, <4>1, <4>2 DEF Rtc
    <3>2. wakeAge = 0
      BY <1>1, <2>1, <3>1 DEF WakeDue
    <3> QED
      BY <1>1, <2>1, <3>2 DEF TryInv, Woken
  <2>2. CASE work = "Search"
    <3>1. since <= SearchWait
      BY <1>1, <2>2
    <3>2. since = Phase
      BY <1>6, <2>2, <3>1 DEF Odd
    <3> QED
      BY <3>1, <3>2
  <2> QED
    BY <1>2, <2>1, <2>2
<1> QED
  BY <1>1, <1>3, <1>4, <1>5, <1>6

\* A second passes.
LEMMA TickTries ==
  ASSUME TriesBetweenSearches, TInv, TryInv,
         NEW g \in {0, 1}, NEW n \in {0, 1}, g = 1 \/ n = 1, Tick(g, n)
  PROVE  TryInv'
<1>0. /\ gw \in Int /\ err \in -MaxErr..MaxErr /\ err \in Int
      /\ Phase \in 0..(SearchPeriod - 1)
      /\ GwPhase \in 0..(SearchPeriod - 1)
      /\ Long = 2 * MaxErr + SearchWait + 1
      /\ None = -1 /\ Gap = 10 /\ tries \in 0..3 /\ rest \in 0..11
      /\ call \in 0..2 /\ wakeAge \in -Long..Long /\ since \in Nat
      /\ LastTry \in Int /\ SearchWait + 11 <= LastTry
      /\ LastTry < SearchPeriod /\ SearchWait \in Nat /\ SearchWait <= 10
  <2>1. LastTry \in (SearchWait + Gap + 1)..(SearchPeriod - 1) /\ Gap = 10
    BY LastTryIs DEF Gap
  <2>2. /\ LastTry \in Int /\ SearchWait + 11 <= LastTry
        /\ LastTry < SearchPeriod
    BY <2>1, Times
  <2> QED
    BY <2>1, <2>2, TryTypes, Times DEF TriesBetweenSearches
<1>1. /\ UNCHANGED <<pack, tries, known, started, work>>
      /\ gw' = (gw + g) % Cycle /\ err' = err + n - g
      /\ rest' = Elapsed(rest, Gap, g)
      /\ call' = IF call = 0 THEN 0 ELSE call - g
      /\ wakeAge' = Later(wakeAge, n)
      /\ excuse' = (excuse \/ (pack /\ call # 0 /\ (~known \/ err # 0))
                         \/ (pack /\ call = 1 /\ g = 1 /\ work \in {"Job", "RX"}))
      /\ work = "Search" => since' = Elapsed(since, SearchWait, n)
      /\ ~Due
  BY DEF Tick
<1>2. /\ Phase + n < SearchPeriod => Phase' = Phase + n
      /\ Phase + n = SearchPeriod => Phase' = 0
      /\ GwPhase + g < SearchPeriod => GwPhase' = GwPhase + g
  BY TickPlaces
<1>3. On' => On /\ (call # 0 => known /\ err = 0)
  BY <1>1, Zenon DEF On
<1>4. /\ rest' = IF rest + g <= 10 THEN rest + g ELSE 11
      /\ call # 0 => call' = call - g
      /\ call = 0 => call' = 0
  BY <1>0, <1>1 DEF Elapsed
<1>5. work = "Search" => since' = since + n /\ since <= SearchWait
  <2> SUFFICES ASSUME work = "Search"
               PROVE  since' = since + n /\ since <= SearchWait
    OBVIOUS
  <2>1. since <= SearchWait
    BY <1>0, <1>1, Times DEF Due
  <2> QED
    BY <1>0, <1>1, <2>1, Times DEF Elapsed
<1>6. Odd' => Odd /\ since' - err' = since - err + g
  <2> SUFFICES ASSUME Odd' PROVE Odd /\ since' - err' = since - err + g
    OBVIOUS
  <2>1. work = "Search" /\ since' # Phase'
    BY <1>1 DEF Odd
  <2>2. since' = since + n /\ since <= SearchWait
    BY <1>5, <2>1
  <2>3. since # Phase
    <3> SUFFICES ASSUME since = Phase PROVE FALSE
      OBVIOUS
    <3>1. Phase + n < SearchPeriod
      BY <1>0, <2>2, Times
    <3> QED
      BY <1>2, <2>1, <2>2, <3>1
  <2>4. (since + n) - (err + n - g) = since - err + g
    BY <1>0
  <2> QED
    BY <1>1, <2>1, <2>2, <2>3, <2>4 DEF Odd
<1>7. Sent'
  <2> SUFFICES ASSUME On', tries >= 1, call' # 0
               PROVE  rest' = 2 - call' /\ (gw' - 1 + call') % WakePeriod = 0
    BY <1>1 DEF Sent
  <2>1. call # 0 /\ call' = call - g /\ On
    BY <1>3, <1>4
  <2>2. rest = 2 - call /\ (gw - 1 + call) % WakePeriod = 0
    BY <2>1 DEF TryInv, Sent
  <2>3. rest' = 2 - call'
    BY <1>0, <1>4, <2>1, <2>2
  <2> DEFINE x == gw + g
             y == (call - g) - 1
  <2>4. x \in Int /\ y \in Int /\ x + y = gw - 1 + call
    BY <1>0
  <2>5. gw' - 1 + call' = (x % Cycle) + y
    BY <1>0, <1>1, <2>1, Times
  <2> HIDE DEF x, y
  <2>6. ((x % Cycle) + y) % WakePeriod = (x + y) % WakePeriod
    <3>1. WakePeriod \in Nat \ {0} /\ Cycle \in Nat \ {0}
          /\ Cycle % WakePeriod = 0
      BY Times, CycleIsMultiple
    <3> QED
      BY <2>4, <3>1, RemainderOfCycle, Zenon
  <2> QED
    BY <2>2, <2>3, <2>4, <2>5, <2>6
<1>8. wakeAge' = IF wakeAge + n > Long THEN Long ELSE wakeAge + n
  BY <1>0, <1>1, Times DEF Later
<1>9. Waked'
  <2>1. CASE wakeAge' = Long
    BY <2>1 DEF Waked, Long
  <2>2. CASE wakeAge' # Long
    <3>1. wakeAge' = wakeAge + n /\ wakeAge # Long
      BY <1>0, <1>8, <2>2, Times
    <3>2. /\ known /\ started /\ wakeAge >= 0
          /\ wakeAge + (IF Phase = 0 THEN 0 ELSE SearchPeriod - Phase)
               > 2 * MaxErr
          /\ work = "Search" => since = Phase /\ wakeAge > 2 * MaxErr + since
      BY <1>0, <1>5, <3>1 DEF TryInv, Waked
    <3>3. work = "Search" => Phase + n < SearchPeriod /\ since + n <= SearchWait
      <4> SUFFICES ASSUME work = "Search"
                   PROVE  Phase + n < SearchPeriod /\ since + n <= SearchWait
        OBVIOUS
      <4>1. wakeAge + n <= Long /\ wakeAge + n # Long
        BY <1>0, <1>8, <2>2, <3>1
      <4>2. since + n <= SearchWait /\ since + n < SearchPeriod
        BY <1>0, <3>2, <4>1, Times
      <4> QED
        BY <3>2, <4>2
    <3>4. CASE Phase + n < SearchPeriod
      <4>1. Phase' = Phase + n
        BY <1>2, <3>4
      <4>2. /\ wakeAge + n >= 0
            /\ (wakeAge + n)
                 + (IF Phase + n = 0 THEN 0 ELSE SearchPeriod - (Phase + n))
                 > 2 * MaxErr
        BY <1>0, <3>2, <3>4, Times
      <4>3. work = "Search" =>
              /\ since' = Phase + n /\ since' <= SearchWait
              /\ wakeAge + n > 2 * MaxErr + since'
        BY <1>0, <1>5, <3>2, <3>3, Times
      <4> QED
        BY <1>1, <3>1, <3>2, <4>1, <4>2, <4>3 DEF Waked
    <3>5. CASE Phase + n = SearchPeriod
      <4>1. Phase' = 0
        BY <1>2, <3>5
      <4>2. wakeAge + n >= 0 /\ wakeAge + n > 2 * MaxErr
        BY <1>0, <3>2, <3>5, Times
      <4>3. work # "Search"
        BY <3>3, <3>5, <1>0, Times
      <4> QED
        BY <1>1, <3>1, <3>2, <4>1, <4>2, <4>3 DEF Waked
    <3> QED
      BY <1>0, <3>4, <3>5, Times
  <2> QED
    BY <2>1, <2>2
<1>10. Unstarted'
  BY <1>1 DEF TryInv, Unstarted
<1>11. Woken'
  <2> SUFFICES ASSUME On', call' = 1, err' = 0, wakeAge' = 0
               PROVE  FALSE
    BY <1>1 DEF Woken
  <2>1. wakeAge + n = 0 /\ wakeAge # Long
    BY <1>0, <1>8, Times
  <2>2. wakeAge >= 0
    BY <2>1 DEF TryInv, Waked
  <2>3. n = 0 /\ g = 1
    BY <1>0, <2>1, <2>2
  <2>4. err # 0 /\ call # 0
    BY <1>0, <1>1, <1>4, <2>3
  <2> QED
    BY <1>3, <2>4
<1>12. ASSUME On', tries >= 1, call = 1, g = 1
       PROVE  /\ rest = 1 /\ known /\ err = 0 /\ started /\ GwPhase = Phase
              /\ ~Odd => Phase <= SearchWait
  <2>1. Tick(1, n)
    BY <1>12
  <2> QED
    BY <1>12, <2>1, LastSecond
<1>13. call # 0 /\ call' = 0 => call = 1 /\ g = 1
  BY <1>0, <1>4
<1>14. FirstTry'
  <2> SUFFICES ASSUME On', tries = 1, call' = 0
               PROVE  /\ started /\ known /\ rest' >= 2
                      /\ Odd' => since' - err' >= rest' - 1
    BY <1>1 DEF FirstTry
  <2>1. CASE call = 0
    <3>1. /\ started /\ known /\ rest >= 2
          /\ Odd => since - err >= rest - 1
      BY <1>3, <2>1 DEF TryInv, FirstTry
    <3>2. rest' >= 2
      BY <1>0, <1>4, <3>1
    <3>3. ASSUME Odd' PROVE since' - err' >= rest' - 1
      <4>1. since - err >= rest - 1 /\ since' - err' = since - err + g
        BY <1>6, <3>1, <3>3
      <4>2. since - err + g >= rest' - 1
        BY <1>0, <1>4, <4>1
      <4> QED
        BY <4>1, <4>2
    <3> QED
      BY <3>1, <3>2, <3>3
  <2>2. CASE call # 0
    <3>1. /\ rest = 1 /\ known /\ err = 0 /\ started /\ g = 1
      BY <1>12, <1>13, <2>2
    <3>2. rest' = 2
      BY <1>0, <1>4, <3>1
    <3>3. since - err + g >= 1
      BY <1>0, <3>1
    <3> QED
      BY <1>6, <3>1, <3>2, <3>3
  <2> QED
    BY <2>1, <2>2
<1>15. SecondTry'
  <2> SUFFICES ASSUME On', tries = 2
               PROVE  /\ started /\ known
                      /\ call' # 0 => (Odd' => since' - err' >= Gap + rest')
                      /\ call' = 0 =>
                           /\ ~Odd' /\ rest' >= 2
                           /\ GwPhase' \in (rest' - 1)..(LastTry - 1)
                           /\ rest' <= Gap => GwPhase' <= SearchWait + rest' - 1
    BY <1>1 DEF SecondTry
  <2>1. /\ started /\ known
        /\ call # 0 => (Odd => since - err >= Gap + rest)
        /\ call = 0 => /\ ~Odd /\ rest >= 2
                       /\ GwPhase \in (rest - 1)..(LastTry - 1)
                       /\ rest <= Gap => GwPhase <= SearchWait + rest - 1
    BY <1>3 DEF TryInv, SecondTry
  <2>2. ASSUME call' # 0, Odd' PROVE since' - err' >= Gap + rest'
    <3>1. since - err >= Gap + rest /\ since' - err' = since - err + g
      BY <1>4, <1>6, <2>1, <2>2
    <3>2. since - err + g >= Gap + rest'
      BY <1>0, <1>4, <3>1
    <3> QED
      BY <3>1, <3>2
  <2>3. ASSUME call' = 0
        PROVE  /\ ~Odd' /\ rest' >= 2
               /\ GwPhase' \in (rest' - 1)..(LastTry - 1)
               /\ rest' <= Gap => GwPhase' <= SearchWait + rest' - 1
    <3>1. CASE call = 0
      <4>1. /\ ~Odd /\ rest >= 2
            /\ GwPhase \in (rest - 1)..(LastTry - 1)
            /\ rest <= Gap => GwPhase <= SearchWait + rest - 1
        BY <2>1, <3>1
      <4>2. GwPhase + g <= LastTry - 1
        <5>1. CASE rest <= 10
          BY <1>0, <4>1, <5>1
        <5>2. CASE rest = 11
          <6>1. pack /\ ~PackDue
            BY <1>1, <1>3, Zenon DEF Due, On
          <6>2. rest > Gap
            BY <1>0, <5>2
          <6>3. (gw + 1) % WakePeriod # 0
            BY <6>1, <6>2, Zenon DEF PackDue
          <6>4. GwPhase + 1 # LastTry
            <7>1. ((gw % SearchPeriod) + 1) % WakePeriod = (gw + 1) % WakePeriod
              <8>1. SearchPeriod % WakePeriod = 0 /\ 1 \in Int /\ gw \in Int
                BY <1>0 DEF TriesBetweenSearches
              <8>2. WakePeriod \in Nat \ {0} /\ SearchPeriod \in Nat \ {0}
                BY Times
              <8> QED
                BY <8>1, <8>2, RemainderOfCycle, Zenon
            <7> QED
              BY <6>3, <7>1, LastTryIs DEF GwPhase
          <6> QED
            BY <1>0, <4>1, <6>4
        <5> QED
          BY <1>0, <5>1, <5>2
      <4>3. GwPhase' = GwPhase + g
        BY <1>0, <1>2, <4>2, Times
      <4>4. rest' >= 2 /\ GwPhase + g \in (rest' - 1)..(LastTry - 1)
        BY <1>0, <1>4, <4>1, <4>2
      <4>5. rest' <= Gap => GwPhase + g <= SearchWait + rest' - 1
        BY <1>0, <1>4, <4>1
      <4> QED
        BY <1>6, <4>1, <4>3, <4>4, <4>5
    <3>2. CASE call # 0
      <4>1. /\ rest = 1 /\ err = 0 /\ g = 1 /\ GwPhase = Phase
            /\ ~Odd => Phase <= SearchWait
        BY <1>12, <1>13, <2>3, <3>2
      <4>2. ~Odd
        <5> SUFFICES ASSUME Odd PROVE FALSE
          OBVIOUS
        <5>1. since - err >= Gap + rest
          BY <2>1, <3>2
        <5>2. since <= SearchWait
          BY <1>5 DEF Odd
        <5> QED
          BY <1>0, <4>1, <5>1, <5>2, Times
      <4>3. GwPhase <= SearchWait
        BY <4>1, <4>2
      <4>4. GwPhase' = GwPhase + g
        BY <1>0, <1>2, <4>1, <4>3, Times
      <4>5. rest' = 2
        BY <1>0, <1>4, <4>1
      <4>6. /\ 2 >= 2 /\ GwPhase + g \in (2 - 1)..(LastTry - 1)
            /\ GwPhase + g <= SearchWait + 2 - 1
        BY <1>0, <4>1, <4>3
      <4> QED
        BY <1>6, <4>2, <4>4, <4>5, <4>6
    <3> QED
      BY <3>1, <3>2
  <2> QED
    BY <2>1, <2>2, <2>3
<1>16. ThirdTry'
  <2> SUFFICES ASSUME On', tries = 3
               PROVE  /\ call' # 0 /\ started /\ known /\ ~Odd'
                      /\ GwPhase' + call' - 1 \in (SearchWait + 1)..LastTry
    BY <1>1 DEF ThirdTry
  <2>1. /\ call # 0 /\ started /\ known /\ ~Odd
        /\ GwPhase + call - 1 \in (SearchWait + 1)..LastTry
    BY <1>3 DEF TryInv, ThirdTry
  <2>2. call' # 0
    <3> SUFFICES ASSUME call' = 0 PROVE FALSE
      OBVIOUS
    <3>1. call = 1 /\ GwPhase = Phase /\ Phase <= SearchWait
      BY <1>12, <1>13, <2>1
    <3> QED
      BY <1>0, <2>1, <3>1
  <2>3. call' = call - g /\ call - g >= 1
    BY <1>0, <1>4, <2>1, <2>2
  <2>4. GwPhase' = GwPhase + g
    BY <1>0, <1>2, <2>1, <2>3, Times
  <2>5. (GwPhase + g) + (call - g) - 1 \in (SearchWait + 1)..LastTry
    BY <1>0, <2>1
  <2> QED
    BY <1>6, <2>1, <2>2, <2>3, <2>4, <2>5
<1> QED
  BY <1>7, <1>9, <1>10, <1>11, <1>14, <1>15, <1>16 DEF TryInv

LEMMA TriesStep ==
  ASSUME TriesBetweenSearches, TInv, TryInv, [Next]_vars
  PROVE  TryInv'
<1>1. CASE Broadcast \/ AskBroadcast
  BY <1>1, BroadcastTries
<1>2. CASE SendPack
  BY <1>2, SendTries
<1>3. CASE TakePack \/ GiveUp \/ RxEnd \/ SetTime(-1) \/ SetTime(1)
  BY <1>3, FreshTries
<1>4. CASE StartSearch \/ Wake \/ JobEnd \/ SearchOver \/ StartJob
  BY <1>4, NodeTries
<1>5. CASE Arrive
  <2>1. Hear \/ Miss
    BY <1>5 DEF Arrive
  <2> QED
    BY <1>5, <2>1, HearTries, MissTries
<1>6. CASE Tick(1, 1) \/ Tick(1, 0) \/ Tick(0, 1)
  BY <1>6, TickTries
<1>7. CASE UNCHANGED vars
  <2>1. UNCHANGED attempts
    BY <1>7
    DEF vars, attempts, gatewayVars, airVars, clockVars, nodeVars, pastVars
  <2> QED
    BY <2>1, AttemptsUnchanged
<1> QED
  BY <1>1, <1>2, <1>3, <1>4, <1>5, <1>6, <1>7 DEF Next, Gateway, Node

\* A pack is given up only if one of its three transmissions was lost, or sent
\* when the node had another job or a wrong clock, or if the server set the
\* gateway's clock meanwhile: with any times for which a try comes after each
\* search and before the next, the searches do not use up three tries. Nothing
\* is asked of the broadcasts.
THEOREM TriesSuffice == TriesBetweenSearches => (Spec => GivenUpForReason)
<1> SUFFICES ASSUME TriesBetweenSearches
             PROVE  Spec => GivenUpForReason
  OBVIOUS
<1>1. Init => TInv /\ TryInv
  <2> SUFFICES ASSUME Init PROVE TInv /\ TryInv
    OBVIOUS
  <2>1. ~On /\ work = "Idle" /\ wakeAge = Long
    BY DEF Init, On
  <2>2. /\ Waked /\ Sent /\ Unstarted /\ Woken
        /\ FirstTry /\ SecondTry /\ ThirdTry
    BY <2>1
    DEF Waked, Sent, Unstarted, Woken, FirstTry, SecondTry, ThirdTry
  <2> QED
    BY <2>2, TypeInit DEF TryInv
<1>2. TInv /\ TryInv /\ [Next]_vars => (TInv /\ TryInv)'
  BY TypeStep, TriesStep
<1>3. TInv /\ TryInv /\ [Next]_vars => [GiveUp => excuse]_vars
  <2> SUFFICES ASSUME TInv, TryInv, GiveUp, ~excuse PROVE FALSE
    OBVIOUS
  <2>1. tries = 3 /\ rest > 10 /\ On
    BY DEF GiveUp, PackDue, On, Tries, Gap
  <2>2. call # 0
    BY <2>1 DEF TryInv, ThirdTry
  <2>3. rest = 2 - call
    BY <2>1, <2>2 DEF TryInv, Sent
  <2> QED
    BY <2>1, <2>2, <2>3, TryTypes
<1> QED
  BY <1>1, <1>2, <1>3, PTL DEF Spec, GivenUpForReason
=============================================================================
