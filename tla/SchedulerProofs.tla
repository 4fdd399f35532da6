--------------------------- MODULE SchedulerProofs ---------------------------
(***************************************************************************)
(* Theorems about the cron scheduler: for any jobs and schedules, however  *)
(* late the runtime polls it and however long a full channel holds it up,  *)
(* no job fires twice in a minute or more often than once a whole minute,  *)
(* and while nothing holds it up no occurrence in reach is missed.         *)
(***************************************************************************)
EXTENDS Scheduler, FiniteSetTheorems, TLAPS

USE DEF clockVars, checkVars

-----------------------------------------------------------------------------
(* The inductive invariant *)

FiringsOf(j) == {r \in fired : r.job = j}

\* The running check has yet to decide about job j.
Left(j) == \E i \in DOMAIN checking : checking[i] = j /\ (sending => i > 1)

\* The deadline is a whole number of minutes from the start, and the tick before it
\* is past.
ClockInv ==
  /\ \E d \in Nat : deadline = started + Minute * d
  /\ started + Minute <= deadline
  /\ deadline <= now + Minute
  /\ seen <= now

\* A check looks at each job once.
CheckInv ==
  \A i, k \in DOMAIN checking : checking[i] = checking[k] => i = k

\* The last minute a job fired in is that of its latest firing, and later checks
\* fire in later minutes.
MinuteInv ==
  /\ \A j \in Job : lastFired[j] <= CurrentMinute
  /\ \A r \in fired : r.minute <= lastFired[r.job]
  /\ \A j \in Job : lastFired[j] = -1 \/ \E r \in FiringsOf(j) : r.minute = lastFired[j]
  /\ \A r, s \in fired : r.job = s.job /\ r.tick < s.tick => r.minute < s.minute

\* The firings of a job belong to different checks, a minute of deadlines apart.
TickInv ==
  /\ \A r \in fired : /\ r.tick <= deadline
                      /\ Left(r.job) => r.tick + Minute <= deadline
  /\ \A r, s \in fired : r.job = s.job =>
       /\ r.tick < s.tick => r.tick + Minute <= s.tick
       /\ r.tick = s.tick => r = s

\* Each check begun allows each job one firing.
BudgetInv ==
  /\ IsFiniteSet(fired)
  /\ \A j \in Job :
       Minute * Cardinality(FiringsOf(j)) + (IF Left(j) THEN Minute ELSE 0)
         <= deadline - Minute - started

\* An occurrence that the tick at t has in reach has fired its job.
Served(j, t) ==
  Upcoming(j, t) < t + 2 * Second =>
    \E r \in fired : r.job = j /\ r.tick = t + Minute

\* While nothing was late, a check is over before the clock moves on.
PunctualInv ==
  ~late =>
    /\ now <= deadline
    /\ checking # <<>> => seen = now /\ deadline = now + Minute
    /\ \A r \in fired : /\ r.tick = r.at + Minute
                        /\ r.minute = r.at \div Minute
                        /\ r.occurrence = Upcoming(r.job, r.at)
                        /\ r.occurrence < r.at + 2 * Second
    /\ \A t \in (started + Minute)..(deadline - Minute) : \A i \in DOMAIN Registered :
         (t - started) % Minute = 0 =>
            \/ Served(Registered[i], t)
            \/ t + Minute = deadline /\ Left(Registered[i])

IInv ==
  /\ TypeOK
  /\ ClockInv
  /\ CheckInv
  /\ MinuteInv
  /\ TickInv
  /\ BudgetInv
  /\ PunctualInv

-----------------------------------------------------------------------------
(* Minutes and schedules *)

\* Division by a positive number.
LEMMA DivMod ==
  ASSUME NEW a \in Nat, NEW m \in Nat \ {0}
  PROVE  \E k \in Nat, r \in 0..(m - 1) : /\ k = a \div m /\ r = a % m
                                         /\ a = m * k + r
<1>1. a \div m \in Nat /\ a % m \in 0..(m - 1)
  OBVIOUS
<1>2. PICK k \in Int, r \in Int : k = a \div m /\ r = a % m
  BY <1>1
<1>3. a = m * k + r
  BY <1>2
<1>4. k \in Nat /\ r \in 0..(m - 1)
  BY <1>1, <1>2
<1>. QED
  BY <1>2, <1>3, <1>4

\* A quotient and a remainder are the only ones of their number.
LEMMA DivModUnique ==
  ASSUME NEW k \in Int, NEW r \in Int, NEW m \in Nat \ {0}, 0 <= r, r < m
  PROVE  (m * k + r) % m = r /\ (m * k + r) \div m = k
OBVIOUS

\* Whole multiples are a whole multiple apart.
LEMMA Multiples ==
  ASSUME NEW a \in Int, NEW b \in Int, NEW m \in Nat \ {0}
  PROVE  /\ m * (a + 1) = m * a + m
         /\ a < b => m * a + m <= m * b
         /\ m * a < m * b => a < b
OBVIOUS

\* A later moment is in no earlier minute, and one at least a minute later is in a
\* later one.
LEMMA MinutesGrow ==
  ASSUME NEW a \in Nat, NEW b \in Nat, NEW m \in Nat \ {0}, a <= b
  PROVE  /\ a \div m <= b \div m
         /\ a + m <= b => a \div m < b \div m
<1>1. a \div m <= b \div m
  OBVIOUS
<1>2. (a + m) \div m = a \div m + 1
  <2>1. PICK k \in Nat, r \in 0..(m - 1) : k = a \div m /\ a = m * k + r
    BY DivMod
  <2>2. a + m = m * (k + 1) + r
    BY <2>1, Multiples
  <2>3. (m * (k + 1) + r) \div m = k + 1
    BY DivModUnique
  <2>. QED
    BY <2>1, <2>2, <2>3
<1>3. a + m <= b => (a + m) \div m <= b \div m
  OBVIOUS
<1>4. a \div m \in Nat /\ b \div m \in Nat
  OBVIOUS
<1>. QED
  BY <1>1, <1>2, <1>3, <1>4

\* A schedule has a first occurrence after any moment, at most a period later.
LEMMA FirstOccurrence ==
  ASSUME NEW j \in Job, NEW t \in Nat
  PROVE  \E n \in (t + 1)..(t + Period[j] * Second) :
            Occurs(j, n) /\ \A m \in (t + 1)..(n - 1) : ~Occurs(j, m)
<1>1. /\ Period[j] \in Nat \ {0} /\ Offset[j] \in Nat /\ Second \in Nat \ {0}
      /\ Offset[j] < Period[j]
  BY SchedulerAssumption
<1>2. PICK q \in Nat \ {0}, o \in Nat :
        q = Period[j] * Second /\ o = Offset[j] * Second /\ o < q
  <2>1. Second * Offset[j] + Second <= Second * Period[j]
    BY <1>1, Multiples
  <2>. QED
    BY <1>1, <2>1
<1>3. o < q
  BY <1>2
<1> SUFFICES \E n \in (t + 1)..(t + q) :
               n % q = o /\ \A m \in (t + 1)..(n - 1) : m % q # o
  <2>1. \A m \in Nat : Occurs(j, m) <=> m % q = o
    BY <1>2 DEF Occurs
  <2>. QED
    BY <1>2, <2>1
<1>4. PICK k \in Nat, r \in 0..(q - 1) : t = q * k + r
  BY DivMod
<1>5. q * (k + 1) = q * k + q
  BY <1>3, <1>4, Multiples
<1>6. q * k \in Int /\ q * (k + 1) \in Int
  BY <1>3, <1>4
<1>7. CASE r < o
  <2>1. t + (o - r) = q * k + o /\ (q * k + o) % q = o
    BY <1>3, <1>4, DivModUnique
  <2>2. ASSUME NEW m \in (t + 1)..(t + (o - r) - 1) PROVE m % q # o
    <3>1. PICK x \in Nat : m = q * k + x /\ r < x /\ x < o
      BY <1>3, <1>4, <1>7, <1>6
    <3>2. (q * k + x) % q = x
      BY <1>3, <1>4, <3>1, DivModUnique
    <3>. QED
      BY <3>1, <3>2
  <2>. QED
    BY <1>3, <1>4, <1>7, <2>1, <2>2
<1>8. CASE o <= r
  <2>1. t + (o - r) + q = q * (k + 1) + o /\ (q * (k + 1) + o) % q = o
    BY <1>3, <1>4, <1>5, DivModUnique
  <2>2. ASSUME NEW m \in (t + 1)..(t + (o - r) + q - 1) PROVE m % q # o
    <3>1. CASE m < q * (k + 1)
      <4>1. PICK x \in Nat : m = q * k + x /\ x < q /\ r < x
        BY <1>3, <1>4, <1>5, <1>6, <3>1
      <4>2. (q * k + x) % q = x
        BY <1>3, <1>4, <4>1, DivModUnique
      <4>. QED
        BY <1>3, <1>4, <1>8, <4>1, <4>2
    <3>2. CASE q * (k + 1) <= m
      <4>1. PICK x \in Nat : m = q * (k + 1) + x /\ x < o
        BY <1>3, <1>4, <1>5, <1>6, <3>2
      <4>2. (q * (k + 1) + x) % q = x
        BY <1>3, <1>4, <4>1, DivModUnique
      <4>. QED
        BY <4>1, <4>2
    <3>. QED
      BY <1>6, <3>1, <3>2
  <2>3. PICK n \in (t + 1)..(t + q) : n = t + (o - r) + q
    BY <1>4, <1>8
  <2>4. n % q = o /\ \A m \in (t + 1)..(n - 1) : m % q # o
    BY <2>1, <2>2, <2>3
  <2>. QED
    BY <2>4
<1>. QED
  BY <1>3, <1>4, <1>7, <1>8

\* upcoming(Utc).next() is after the moment it is asked about.
LEMMA UpcomingIsLater ==
  ASSUME NEW j \in Job, NEW t \in Nat
  PROVE  Upcoming(j, t) \in Nat /\ t < Upcoming(j, t)
<1>1. Upcoming(j, t) \in (t + 1)..(t + Period[j] * Second)
  BY FirstOccurrence DEF Upcoming
<1>2. t + Period[j] * Second \in Nat
  BY SchedulerAssumption
<1>. QED
  BY <1>1, <1>2

-----------------------------------------------------------------------------
(* The running check, and the firings of a job *)

\* What Registered is.
LEMMA RegisteredJobs ==
  /\ Registered \in Seq(Job)
  /\ \A i \in DOMAIN Registered : Registered[i] \in Job
BY SchedulerAssumption

\* Once the check has decided about its head, the others are left.
LEMMA HeadDecided ==
  ASSUME TypeOK, CheckInv, checking # <<>>, ~sending,
         \/ checking' = Tail(checking) /\ sending' = sending
         \/ checking' = checking /\ sending' = TRUE
  PROVE  /\ checking' \in Seq(Job) /\ CheckInv'
         /\ Head(checking) \in Job /\ Left(Head(checking))
         /\ \A j : Left(j)' <=> Left(j) /\ j # Head(checking)
<1>1. /\ checking \in Seq(Job) /\ Head(checking) = checking[1] /\ 1 \in DOMAIN checking
      /\ Head(checking) \in Job /\ Tail(checking) \in Seq(Job)
      /\ \A i \in DOMAIN Tail(checking) :
           i \in Nat \ {0} /\ i + 1 \in DOMAIN checking /\ Tail(checking)[i] = checking[i + 1]
      /\ \A i \in DOMAIN checking : i \in Nat \ {0} /\ (i > 1 => i - 1 \in DOMAIN Tail(checking))
  BY DEF TypeOK
<1>2. Left(Head(checking))
  BY <1>1 DEF Left
<1>3. CASE checking' = Tail(checking) /\ sending' = sending
  <2>1. CheckInv'
    BY <1>1, <1>3 DEF CheckInv
  <2>2. ASSUME NEW j PROVE Left(j)' <=> Left(j) /\ j # Head(checking)
    <3>1. ASSUME NEW i \in DOMAIN checking', checking'[i] = j
          PROVE  Left(j) /\ j # Head(checking)
      BY <1>1, <1>3, <3>1 DEF Left, CheckInv
    <3>2. ASSUME NEW i \in DOMAIN checking, checking[i] = j, j # Head(checking)
          PROVE  i - 1 \in DOMAIN checking' /\ checking'[i - 1] = j
      BY <1>1, <1>3, <3>2
    <3>. QED
      BY <1>3, <3>1, <3>2 DEF Left
  <2>. QED
    BY <1>1, <1>2, <1>3, <2>1, <2>2
<1>4. CASE checking' = checking /\ sending' = TRUE
  BY <1>1, <1>2, <1>4 DEF CheckInv, Left
<1>. QED
  BY <1>3, <1>4

\* The job that is sent was decided about before.
LEMMA HeadSent ==
  ASSUME TypeOK, CheckInv, sending, checking' = Tail(checking), sending' = FALSE
  PROVE  /\ checking' \in Seq(Job) /\ CheckInv'
         /\ \A j : Left(j)' <=> Left(j)
<1>1. /\ checking \in Seq(Job) /\ checking # <<>> /\ Tail(checking) \in Seq(Job)
      /\ \A i \in DOMAIN Tail(checking) :
           i \in Nat \ {0} /\ i + 1 \in DOMAIN checking /\ Tail(checking)[i] = checking[i + 1]
      /\ \A i \in DOMAIN checking : i \in Nat \ {0} /\ (i > 1 => i - 1 \in DOMAIN Tail(checking))
  BY DEF TypeOK
<1>2. CheckInv'
  BY <1>1 DEF CheckInv
<1>3. ASSUME NEW j PROVE Left(j)' <=> Left(j)
  <2>1. ASSUME NEW i \in DOMAIN checking', checking'[i] = j PROVE Left(j)
    BY <1>1, <2>1 DEF Left
  <2>2. ASSUME NEW i \in DOMAIN checking, checking[i] = j, i > 1
        PROVE  i - 1 \in DOMAIN checking' /\ checking'[i - 1] = j
    BY <1>1, <2>2
  <2>. QED
    BY <2>1, <2>2 DEF Left
<1>. QED
  BY <1>1, <1>2, <1>3

\* A firing more is one of its own job.
LEMMA OneMoreFiring ==
  ASSUME IsFiniteSet(fired), NEW r, fired' = fired \cup {r}
  PROVE  /\ IsFiniteSet(fired')
         /\ \A j : /\ Cardinality(FiringsOf(j)) \in Nat
                   /\ j # r.job => FiringsOf(j)' = FiringsOf(j)
                   /\ Cardinality(FiringsOf(r.job)') <= Cardinality(FiringsOf(r.job)) + 1
                   /\ Cardinality(FiringsOf(j)') \in Nat
<1>1. IsFiniteSet(fired')
  BY FS_AddElement
<1>2. ASSUME NEW j PROVE IsFiniteSet(FiringsOf(j)) /\ IsFiniteSet(FiringsOf(j)')
  <2>1. FiringsOf(j) \subseteq fired /\ FiringsOf(j)' \subseteq fired'
    BY DEF FiringsOf
  <2>. QED
    BY <1>1, <2>1, FS_Subset
<1>3. \A j : Cardinality(FiringsOf(j)) \in Nat /\ Cardinality(FiringsOf(j)') \in Nat
  BY <1>2, FS_CardinalityType
<1>4. \A j : j # r.job => FiringsOf(j)' = FiringsOf(j)
  BY DEF FiringsOf
<1>5. FiringsOf(r.job)' = FiringsOf(r.job) \cup {r}
  BY DEF FiringsOf
<1>6. Cardinality(FiringsOf(r.job)') <= Cardinality(FiringsOf(r.job)) + 1
  BY <1>2, <1>3, <1>5, FS_AddElement
<1>. QED
  BY <1>1, <1>3, <1>4, <1>6

-----------------------------------------------------------------------------
(* The initial states *)

LEMMA InitIInv == Init => IInv
<1> SUFFICES ASSUME Init PROVE IInv
  OBVIOUS
<1> USE SchedulerAssumption DEF Init, FirstDeadline
<1>1. TypeOK
  <2>1. now \in Nat /\ started \in Nat /\ deadline \in Nat /\ seen \in Nat
    OBVIOUS
  <2>2. checking \in Seq(Job) /\ channel \in Seq(Job) /\ Len(channel) <= Cap
    OBVIOUS
  <2>3. lastFired \in [Job -> Nat \cup {-1}]
    OBVIOUS
  <2>4. fired \in SUBSET Firing
    OBVIOUS
  <2>5. sending \in BOOLEAN /\ late \in BOOLEAN /\ (sending => checking # <<>>)
    OBVIOUS
  <2>. QED
    BY <2>1, <2>2, <2>3, <2>4, <2>5 DEF TypeOK
<1>2. ClockInv
  <2>1. now \in Nat /\ deadline = started + Minute * 1
    OBVIOUS
  <2>. QED
    BY <2>1 DEF ClockInv
<1>3. \A j : ~Left(j) /\ FiringsOf(j) = {}
  BY DEF Left, FiringsOf
<1>4. CheckInv
  BY DEF CheckInv
<1>5. MinuteInv
  <2>1. seen \in Nat /\ Minute \in Nat \ {0}
    OBVIOUS
  <2>2. CurrentMinute \in Nat
    BY ONLY <2>1, DivMod DEF CurrentMinute
  <2>3. \A j \in Job : lastFired[j] = -1
    OBVIOUS
  <2>. QED
    BY <2>2, <2>3 DEF MinuteInv
<1>6. TickInv
  BY DEF TickInv
<1>7. BudgetInv
  <2>1. Minute * 0 = 0 /\ deadline - Minute - started = 0
    OBVIOUS
  <2>2. \A j : Cardinality(FiringsOf(j)) = 0 /\ ~Left(j)
    BY <1>3, FS_EmptySet
  <2>3. IsFiniteSet(fired)
    BY FS_EmptySet
  <2>. QED
    BY <2>1, <2>2, <2>3 DEF BudgetInv
<1>8. PunctualInv
  BY DEF PunctualInv
<1>. QED
  BY <1>1, <1>2, <1>4, <1>5, <1>6, <1>7, <1>8 DEF IInv

-----------------------------------------------------------------------------
(* Each step keeps the invariant *)

\* A step that leaves the firings, the deadline and what is left of the check alone.
LEMMA FiringsKept ==
  ASSUME IInv, UNCHANGED <<started, deadline, seen, lastFired, fired>>,
         \A j : Left(j)' <=> Left(j)
  PROVE  MinuteInv' /\ TickInv' /\ BudgetInv'
<1>1. \A j : FiringsOf(j)' = FiringsOf(j)
  BY DEF FiringsOf
<1>2. MinuteInv'
  BY <1>1 DEF IInv, MinuteInv, CurrentMinute
<1>3. TickInv'
  BY DEF IInv, TickInv
<1>4. BudgetInv'
  BY <1>1 DEF IInv, BudgetInv
<1>. QED
  BY <1>2, <1>3, <1>4

\* The same for the promise about occurrences.
LEMMA PunctualKept ==
  ASSUME IInv, UNCHANGED <<now, started, late, deadline, seen, lastFired, fired>>,
         checking' # <<>> => checking # <<>>,
         \A j : Left(j)' <=> Left(j)
  PROVE  PunctualInv'
<1>1. \A j, t : Served(j, t)' <=> Served(j, t)
  BY DEF Served
<1>. QED
  BY <1>1 DEF IInv, PunctualInv

\* When the clock moves on, a check under way or a tick that is due becomes late.
LEMMA TimePassesKeeps ==
  ASSUME IInv, TimePasses
  PROVE  IInv'
<1> USE SchedulerAssumption DEF TimePasses
<1>1. TypeOK'
  BY DEF IInv, TypeOK, Due
<1>2. ClockInv' /\ CheckInv'
  <2>1. deadline <= now' + Minute /\ seen <= now'
    BY DEF IInv, TypeOK, ClockInv
  <2>. QED
    BY <2>1 DEF IInv, ClockInv, CheckInv
<1>3. \A j, t : (Left(j)' <=> Left(j)) /\ (Served(j, t)' <=> Served(j, t))
  BY DEF Left, Served
<1>4. MinuteInv' /\ TickInv' /\ BudgetInv'
  BY <1>3, FiringsKept
<1>5. PunctualInv'
  <2>1. ~late' => ~late /\ ~Due(now) /\ checking = <<>>
    BY Zenon
  <2>2. ~Due(now) => now' <= deadline
    BY DEF IInv, TypeOK, Due
  <2>. QED
    BY <1>3, <2>1, <2>2 DEF IInv, PunctualInv
<1>. QED
  BY <1>1, <1>2, <1>4, <1>5 DEF IInv

\* The event loop takes a job from the channel.
LEMMA BridgeKeeps ==
  ASSUME IInv, Bridge
  PROVE  IInv'
<1> USE SchedulerAssumption DEF Bridge
<1>1. TypeOK'
  BY DEF IInv, TypeOK
<1>2. ClockInv' /\ CheckInv'
  BY DEF IInv, ClockInv, CheckInv
<1>3. \A j : Left(j)' <=> Left(j)
  BY DEF Left
<1>4. MinuteInv' /\ TickInv' /\ BudgetInv' /\ PunctualInv'
  BY <1>3, FiringsKept, PunctualKept
<1>. QED
  BY <1>1, <1>2, <1>4 DEF IInv

\* A job that fired enters the channel.
LEMMA SendDueKeeps ==
  ASSUME IInv, SendDue
  PROVE  IInv'
<1> USE SchedulerAssumption DEF SendDue
<1>1. checking # <<>> /\ checking' \in Seq(Job) /\ CheckInv' /\ \A j : Left(j)' <=> Left(j)
  BY HeadSent DEF IInv, TypeOK
<1>2. TypeOK'
  <2>1. Head(checking) \in Job
    BY <1>1 DEF IInv, TypeOK
  <2>2. channel' \in Seq(Job) /\ Len(channel') <= Cap
    BY <2>1 DEF IInv, TypeOK
  <2>. QED
    BY <1>1, <2>2 DEF IInv, TypeOK
<1>3. ClockInv'
  BY DEF IInv, ClockInv
<1>4. MinuteInv' /\ TickInv' /\ BudgetInv' /\ PunctualInv'
  BY <1>1, FiringsKept, PunctualKept
<1>. QED
  BY <1>1, <1>2, <1>3, <1>4 DEF IInv

\* A tick begins a check: every registered job is left, and none was before.
LEMMA TickKeeps ==
  ASSUME IInv, Tick
  PROVE  IInv'
<1> USE DEF Tick, Due
<1>1. /\ now \in Nat /\ started \in Nat /\ deadline \in Nat /\ seen \in Nat
      /\ Minute \in Nat \ {0} /\ seen <= now
      /\ deadline <= now /\ deadline <= now + Minute /\ started + Minute <= deadline
  BY SchedulerAssumption DEF IInv, TypeOK, ClockInv
<1>2. PICK d \in Nat : deadline = started + Minute * d
  BY DEF IInv, ClockInv
<1>3. ~sending /\ sending' = sending /\ checking = <<>>
  BY DEF IInv, TypeOK
<1>4. \A j : ~Left(j) /\ (Left(j)' <=> \E i \in DOMAIN Registered : Registered[i] = j)
  BY <1>3 DEF Left
<1>5. TypeOK'
  <2>1. deadline' \in Nat /\ seen' \in Nat /\ checking' \in Seq(Job)
    BY <1>1, RegisteredJobs
  <2>. QED
    BY <1>3, <2>1 DEF IInv, TypeOK
<1>6. ClockInv'
  <2>1. deadline' = started + Minute * (d + 1) /\ d + 1 \in Nat
    BY <1>1, <1>2, Multiples
  <2>2. started' + Minute <= deadline' /\ deadline' <= now' + Minute /\ seen' <= now'
    BY <1>1
  <2>3. \E e \in Nat : deadline' = started' + Minute * e
    BY <2>1
  <2>. QED
    BY ONLY <2>2, <2>3 DEF ClockInv
<1>7. CheckInv'
  BY SchedulerAssumption DEF CheckInv
<1>8. MinuteInv'
  <2>1. CurrentMinute \in Nat /\ CurrentMinute' \in Nat /\ CurrentMinute <= CurrentMinute'
    <3>1. seen \div Minute <= now \div Minute
      BY ONLY <1>1, MinutesGrow
    <3>2. seen \div Minute \in Nat /\ now \div Minute \in Nat
      BY ONLY <1>1, DivMod
    <3>. QED
      BY <3>1, <3>2 DEF CurrentMinute
  <2>2. lastFired \in [Job -> Nat \cup {-1}] /\ lastFired' = lastFired
    BY DEF IInv, TypeOK
  <2>3. \A j \in Job : lastFired[j] <= CurrentMinute'
    BY <2>1, <2>2 DEF IInv, MinuteInv
  <2>4. \A j : FiringsOf(j)' = FiringsOf(j)
    BY DEF FiringsOf
  <2>. QED
    BY <2>2, <2>3, <2>4 DEF IInv, MinuteInv
<1>9. TickInv'
  <2>1. ASSUME NEW r \in fired PROVE r.tick <= deadline' /\ r.tick + Minute <= deadline'
    <3>1. r.tick \in Nat /\ r.tick <= deadline
      BY DEF IInv, TypeOK, Firing, TickInv
    <3>. QED
      BY <1>1, <3>1
  <2>. QED
    BY <2>1 DEF IInv, TickInv
<1>10. BudgetInv'
  <2>1. \A j : FiringsOf(j)' = FiringsOf(j)
    BY DEF FiringsOf
  <2>2. ASSUME NEW j \in Job
        PROVE  Minute * Cardinality(FiringsOf(j)) + Minute <= deadline' - Minute - started
    <3>1. IsFiniteSet(FiringsOf(j))
      BY FS_Subset DEF FiringsOf, IInv, BudgetInv
    <3>2. PICK b \in Int : b = Minute * Cardinality(FiringsOf(j))
      BY <1>1, <3>1, FS_CardinalityType
    <3>3. b <= deadline - Minute - started
      BY <1>1, <1>4, <3>2 DEF IInv, BudgetInv
    <3>. QED
      BY <1>1, <3>2, <3>3
  <2>3. ASSUME NEW j \in Job
        PROVE  Minute * Cardinality(FiringsOf(j)) + 0 <= deadline' - Minute - started
    <3>1. IsFiniteSet(FiringsOf(j))
      BY FS_Subset DEF FiringsOf, IInv, BudgetInv
    <3>2. PICK b \in Int : b = Minute * Cardinality(FiringsOf(j))
      BY <1>1, <3>1, FS_CardinalityType
    <3>3. b + Minute <= deadline' - Minute - started
      BY <2>2, <3>2
    <3>. QED
      BY <1>1, <3>2, <3>3
  <2>4. IsFiniteSet(fired') /\ started' = started
    BY DEF IInv, BudgetInv
  <2>. QED
    BY <2>1, <2>2, <2>3, <2>4 DEF BudgetInv
<1>11. PunctualInv'
  <2> SUFFICES ASSUME ~late' PROVE PunctualInv'
    BY DEF PunctualInv
  <2>1. ~late /\ now = deadline
    BY <1>1 DEF IInv, PunctualInv
  <2>2. seen' = now' /\ deadline' = now' + Minute /\ now' <= deadline'
    BY <1>1, <2>1
  <2>3. ASSUME NEW t \in (started + Minute)..(deadline' - Minute), NEW i \in DOMAIN Registered,
               (t - started) % Minute = 0
        PROVE  \/ Served(Registered[i], t)
               \/ t + Minute = deadline' /\ Left(Registered[i])'
    <3>1. t \in Int /\ started + Minute <= t /\ t <= deadline
      BY <1>1
    <3>2. CASE t = deadline
      BY <1>4, <3>2
    <3>3. CASE t < deadline
      <4>1. t - started \in Nat
        BY <1>1, <3>1
      <4>2. PICK k \in Nat : t - started = Minute * k
        BY ONLY <1>1, <2>3, <4>1, DivMod
      <4>3. Minute * k < Minute * d
        BY <1>1, <1>2, <3>1, <3>3, <4>2
      <4>4. Minute * k + Minute <= Minute * d
        BY ONLY <1>1, <4>2, <1>2, <4>3, Multiples
      <4>5. t \in (started + Minute)..(deadline - Minute)
        BY <1>1, <1>2, <3>1, <4>2, <4>4
      <4>6. Served(Registered[i], t) \/ Left(Registered[i])
        BY <2>1, <2>3, <4>5 DEF IInv, PunctualInv
      <4>. QED
        BY <1>4, <4>6
    <3>. QED
      BY <1>1, <3>1, <3>2, <3>3
  <2>4. \A j, t : Served(j, t)' <=> Served(j, t)
    BY DEF Served
  <2>. QED
    BY <2>1, <2>2, <2>3, <2>4 DEF IInv, PunctualInv
<1>. QED
  BY <1>5, <1>6, <1>7, <1>8, <1>9, <1>10, <1>11 DEF IInv

\* A job that fired in this minute, or whose next occurrence is out of reach.
LEMMA SkipJobKeeps ==
  ASSUME IInv, SkipJob
  PROVE  IInv'
<1> DEFINE h == Head(checking)
<1> USE DEF SkipJob
<1>1. /\ now \in Nat /\ started \in Nat /\ deadline \in Nat /\ seen \in Nat
      /\ Minute \in Nat \ {0} /\ Second \in Nat /\ 2 * Second <= Minute
  BY SchedulerAssumption DEF IInv, TypeOK
<1>2. /\ checking' \in Seq(Job) /\ CheckInv' /\ h \in Job /\ Left(h)
      /\ \A j : Left(j)' <=> Left(j) /\ j # h
  BY HeadDecided DEF IInv
<1>3. TypeOK'
  BY <1>2 DEF IInv, TypeOK
<1>4. ClockInv'
  BY DEF IInv, ClockInv
<1>5. \A j : FiringsOf(j)' = FiringsOf(j)
  BY DEF FiringsOf
<1>6. MinuteInv'
  BY <1>5 DEF IInv, MinuteInv, CurrentMinute
<1>7. TickInv'
  BY <1>2 DEF IInv, TickInv
<1>8. BudgetInv'
  <2>1. ASSUME NEW j \in Job
        PROVE  Minute * Cardinality(FiringsOf(j)) + (IF Left(j)' THEN Minute ELSE 0)
                 <= deadline - Minute - started
    <3>1. IsFiniteSet(FiringsOf(j))
      BY FS_Subset DEF FiringsOf, IInv, BudgetInv
    <3>2. PICK b \in Int : b = Minute * Cardinality(FiringsOf(j))
      BY <1>1, <3>1, FS_CardinalityType
    <3>3. b + (IF Left(j) THEN Minute ELSE 0) <= deadline - Minute - started
      BY <3>2 DEF IInv, BudgetInv
    <3>4. b + (IF Left(j)' THEN Minute ELSE 0) <= deadline - Minute - started
      BY <1>1, <1>2, <3>3
    <3>. QED
      BY <3>2, <3>4
  <2>. QED
    BY <1>5, <2>1 DEF IInv, BudgetInv
<1>9. PunctualInv'
  <2> SUFFICES ASSUME ~late' PROVE PunctualInv'
    BY DEF PunctualInv
  <2>1. ~late /\ seen = now /\ deadline = now + Minute
    BY DEF IInv, PunctualInv
  <2>2. ~FiredThisMinute(h)
    <3> SUFFICES ASSUME FiredThisMinute(h) PROVE FALSE
      OBVIOUS
    <3>1. CurrentMinute \in Nat
      BY ONLY <1>1, DivMod DEF CurrentMinute
    <3>2. PICK r \in fired : r.job = h /\ r.minute = CurrentMinute
      BY <1>2, <3>1 DEF IInv, MinuteInv, FiredThisMinute, FiringsOf
    <3>3. r.at \in Nat /\ r.tick = r.at + Minute /\ r.minute = r.at \div Minute
      BY <2>1 DEF IInv, TypeOK, Firing, PunctualInv
    <3>4. r.tick + Minute <= deadline
      BY <1>2, <3>2 DEF IInv, TickInv
    <3>5. r.at <= seen /\ r.at + Minute <= seen
      BY <1>1, <2>1, <3>3, <3>4
    <3>6. r.at \div Minute < seen \div Minute
      BY ONLY <1>1, <3>3, <3>5, MinutesGrow
    <3>. QED
      BY <3>1, <3>2, <3>3, <3>6 DEF CurrentMinute
  <2>3. Served(h, now)
    <3>1. Upcoming(h, now) \in Nat
      BY <1>1, <1>2, UpcomingIsLater
    <3>2. ~(Upcoming(h, now) - seen < 2 * Second)
      BY <2>2 DEF InReach
    <3>. QED
      BY <1>1, <2>1, <3>1, <3>2 DEF Served
  <2>4. \A j, t : Served(j, t)' <=> Served(j, t)
    BY DEF Served
  <2>5. ASSUME NEW t \in (started + Minute)..(deadline - Minute), NEW i \in DOMAIN Registered,
               (t - started) % Minute = 0
        PROVE  \/ Served(Registered[i], t)
               \/ t + Minute = deadline /\ Left(Registered[i])'
    <3>1. \/ Served(Registered[i], t)
          \/ t + Minute = deadline /\ Left(Registered[i])
      BY <2>1, <2>5 DEF IInv, PunctualInv
    <3>2. t + Minute = deadline => t = now
      BY <1>1, <2>1
    <3>. QED
      BY <1>2, <2>3, <3>1, <3>2
  <2>6. checking' # <<>> => checking # <<>>
    OBVIOUS
  <2>7. now <= deadline /\ (seen = now /\ deadline = now + Minute)
    BY <1>1, <2>1
  <2>. QED
    BY <2>1, <2>4, <2>5, <2>7 DEF IInv, PunctualInv
<1>. QED
  BY <1>2, <1>3, <1>4, <1>6, <1>7, <1>8, <1>9 DEF IInv

\* A job that has an occurrence in reach and has not fired in this minute.
LEMMA FireJobKeeps ==
  ASSUME IInv, FireJob
  PROVE  IInv'
<1>a. PICK h : h = Head(checking)
  OBVIOUS
<1>b. PICK new : new = [job |-> h, tick |-> deadline, minute |-> CurrentMinute,
                        at |-> now, occurrence |-> Upcoming(h, now)]
  OBVIOUS
<1>1. /\ now \in Nat /\ started \in Nat /\ deadline \in Nat /\ seen \in Nat
      /\ Minute \in Nat \ {0} /\ Second \in Nat
  BY SchedulerAssumption DEF IInv, TypeOK
<1>2. /\ checking # <<>> /\ ~sending /\ checking' = checking /\ sending' = TRUE
      /\ ~FiredThisMinute(h) /\ InReach(h)
      /\ lastFired' = [lastFired EXCEPT ![h] = CurrentMinute]
      /\ fired' = fired \cup {new}
      /\ UNCHANGED <<now, started, late, deadline, seen, channel>>
  BY <1>a, <1>b DEF FireJob
<1>3. /\ CheckInv' /\ h \in Job /\ Left(h)
      /\ \A j : Left(j)' <=> Left(j) /\ j # h
  BY <1>2, <1>a, HeadDecided DEF IInv
<1>4. CurrentMinute \in Nat
  BY ONLY <1>1, DivMod DEF CurrentMinute
<1>5. /\ new.job = h /\ new.tick = deadline /\ new.minute = CurrentMinute
      /\ new.at = now /\ new.occurrence = Upcoming(h, now) /\ new \in Firing
  <2>1. Upcoming(h, now) \in Nat
    BY <1>1, <1>3, UpcomingIsLater
  <2>. QED
    BY <1>1, <1>3, <1>4, <1>b, <2>1 DEF Firing
<1>6. /\ lastFired \in [Job -> Nat \cup {-1}] /\ lastFired' \in [Job -> Nat \cup {-1}]
      /\ lastFired'[h] = CurrentMinute
      /\ \A j \in Job : j # h => lastFired'[j] = lastFired[j]
  BY <1>2, <1>3, <1>4 DEF IInv, TypeOK
<1>7. \A r \in fired : /\ r \in Firing /\ r.job \in Job /\ r.tick \in Nat /\ r.minute \in Nat
                       /\ r.at \in Nat
  BY DEF IInv, TypeOK, Firing
<1>8. CurrentMinute' = CurrentMinute
  BY <1>2 DEF CurrentMinute
<1>9. lastFired[h] < CurrentMinute
  <2>1. lastFired[h] # CurrentMinute /\ lastFired[h] <= CurrentMinute
    BY <1>2, <1>3 DEF FiredThisMinute, IInv, MinuteInv
  <2>. QED
    BY <1>3, <1>4, <1>6, <2>1
<1>10. ASSUME NEW r \in fired, r.job = h
       PROVE  r.tick + Minute <= deadline /\ r.minute < CurrentMinute
  <2>1. r.minute <= lastFired[h]
    BY <1>10 DEF IInv, MinuteInv
  <2>2. r.tick + Minute <= deadline
    BY <1>3, <1>10 DEF IInv, TickInv
  <2>. QED
    BY <1>3, <1>4, <1>6, <1>7, <1>9, <2>1, <2>2
<1>11. TypeOK'
  BY <1>2, <1>5, <1>6 DEF IInv, TypeOK
<1>12. ClockInv'
  BY <1>2 DEF IInv, ClockInv
<1>13. MinuteInv'
  <2>1. \A j \in Job : lastFired'[j] <= CurrentMinute'
    BY <1>4, <1>6, <1>8 DEF IInv, MinuteInv
  <2>2. \A r \in fired' : r.minute <= lastFired'[r.job]
    <3>1. new.minute <= lastFired'[new.job]
      BY <1>4, <1>5, <1>6
    <3>2. ASSUME NEW r \in fired PROVE r.minute <= lastFired'[r.job]
      <4>1. r.minute <= lastFired[r.job]
        BY DEF IInv, MinuteInv
      <4>. QED
        BY <1>4, <1>6, <1>7, <1>10, <4>1
    <3>. QED
      BY <1>2, <3>1, <3>2
  <2>3. \A j \in Job : lastFired'[j] = -1 \/ \E r \in FiringsOf(j)' : r.minute = lastFired'[j]
    <3>1. \A j : FiringsOf(j) \subseteq FiringsOf(j)'
      BY <1>2 DEF FiringsOf
    <3>2. new \in FiringsOf(h)'
      BY <1>2, <1>5 DEF FiringsOf
    <3>3. \A j \in Job : lastFired[j] = -1 \/ \E r \in FiringsOf(j) : r.minute = lastFired[j]
      BY DEF IInv, MinuteInv
    <3>. QED
      BY <1>5, <1>6, <3>1, <3>2, <3>3
  <2>4. ASSUME NEW r \in fired', NEW s \in fired', r.job = s.job, r.tick < s.tick
        PROVE  r.minute < s.minute
    <3>1. CASE r \in fired /\ s \in fired
      BY <2>4, <3>1 DEF IInv, MinuteInv
    <3>2. CASE r \in fired /\ s = new
      BY <1>5, <1>10, <2>4, <3>2
    <3>3. CASE r = new /\ s \in fired
      BY <1>1, <1>5, <1>7, <1>10, <2>4, <3>3
    <3>4. CASE r = new /\ s = new
      BY <1>1, <1>5, <2>4, <3>4
    <3>. QED
      BY <1>2, <3>1, <3>2, <3>3, <3>4
  <2>. QED
    BY <2>1, <2>2, <2>3, <2>4 DEF MinuteInv
<1>14. TickInv'
  <2>1. ASSUME NEW r \in fired'
        PROVE  r.tick <= deadline' /\ (Left(r.job)' => r.tick + Minute <= deadline')
    <3>1. CASE r = new
      BY <1>1, <1>2, <1>3, <1>5, <3>1
    <3>2. CASE r \in fired
      BY <1>2, <1>3, <3>2 DEF IInv, TickInv
    <3>. QED
      BY <1>2, <3>1, <3>2
  <2>2. ASSUME NEW r \in fired', NEW s \in fired', r.job = s.job
        PROVE  /\ r.tick < s.tick => r.tick + Minute <= s.tick
               /\ r.tick = s.tick => r = s
    <3>1. CASE r \in fired /\ s \in fired
      BY <2>2, <3>1 DEF IInv, TickInv
    <3>2. CASE r \in fired /\ s = new
      BY <1>1, <1>5, <1>7, <1>10, <2>2, <3>2
    <3>3. CASE r = new /\ s \in fired
      BY <1>1, <1>5, <1>7, <1>10, <2>2, <3>3
    <3>4. CASE r = new /\ s = new
      BY <1>1, <1>5, <2>2, <3>4
    <3>. QED
      BY <1>2, <3>1, <3>2, <3>3, <3>4
  <2>. QED
    BY <2>1, <2>2 DEF TickInv
<1>15. BudgetInv'
  <2>1. /\ IsFiniteSet(fired')
        /\ \A j : /\ Cardinality(FiringsOf(j)) \in Nat
                  /\ j # h => FiringsOf(j)' = FiringsOf(j)
                  /\ Cardinality(FiringsOf(h)') <= Cardinality(FiringsOf(h)) + 1
                  /\ Cardinality(FiringsOf(j)') \in Nat
    BY <1>2, <1>5, OneMoreFiring DEF IInv, BudgetInv
  <2>2. ASSUME NEW j \in Job, j # h
        PROVE  Minute * Cardinality(FiringsOf(j)') + (IF Left(j)' THEN Minute ELSE 0)
                 <= deadline' - Minute - started'
    BY <1>2, <1>3, <2>1, <2>2 DEF IInv, BudgetInv
  <2>3. Minute * Cardinality(FiringsOf(h)') + (IF Left(h)' THEN Minute ELSE 0)
          <= deadline' - Minute - started'
    <3>1. PICK a \in Nat, b \in Nat : /\ a = Cardinality(FiringsOf(h))
                                      /\ b = Cardinality(FiringsOf(h)')
      BY <2>1
    <3>2. Minute * a + Minute <= deadline - Minute - started
      BY <1>3, <3>1 DEF IInv, BudgetInv
    <3>3. b < a + 1 + 1
      BY <2>1, <3>1
    <3>4. Minute * b <= Minute * (a + 1) /\ Minute * (a + 1) = Minute * a + Minute
      <4>1. Minute * b + Minute <= Minute * (a + 1 + 1)
        BY ONLY <1>1, <3>1, <3>3, Multiples
      <4>2. /\ Minute * (a + 1 + 1) = Minute * (a + 1) + Minute
            /\ Minute * (a + 1) = Minute * a + Minute
        BY ONLY <1>1, <3>1, Multiples
      <4>3. Minute * b \in Int /\ Minute * (a + 1) \in Int
        BY <1>1, <3>1
      <4>. QED
        BY <1>1, <4>1, <4>2, <4>3
    <3>5. PICK x \in Int, y \in Int : x = Minute * b /\ y = Minute * a
      BY <1>1, <3>1
    <3>6. x <= deadline - Minute - started
      BY <1>1, <3>2, <3>4, <3>5
    <3>. QED
      BY <1>2, <1>3, <3>1, <3>5, <3>6
  <2>. QED
    BY <2>1, <2>2, <2>3 DEF BudgetInv
<1>16. PunctualInv'
  <2> SUFFICES ASSUME ~late' PROVE PunctualInv'
    BY DEF PunctualInv
  <2>1. ~late /\ seen = now /\ deadline = now + Minute /\ now <= deadline
    BY <1>2 DEF IInv, PunctualInv
  <2>2. ASSUME NEW r \in fired'
        PROVE  /\ r.tick = r.at + Minute
               /\ r.minute = r.at \div Minute
               /\ r.occurrence = Upcoming(r.job, r.at)
               /\ r.occurrence < r.at + 2 * Second
    <3>1. CASE r \in fired
      BY <2>1, <3>1 DEF IInv, PunctualInv
    <3>2. CASE r = new
      <4>1. new.tick = new.at + Minute /\ new.minute = new.at \div Minute
        BY <1>5, <2>1 DEF CurrentMinute
      <4>2. new.occurrence = Upcoming(new.job, new.at)
        BY <1>5
      <4>3. Upcoming(h, now) \in Nat /\ Upcoming(h, now) - seen < 2 * Second
        BY <1>1, <1>2, <1>3, UpcomingIsLater DEF InReach
      <4>4. new.occurrence < new.at + 2 * Second
        BY <1>1, <1>5, <2>1, <4>3
      <4>. QED
        BY <3>2, <4>1, <4>2, <4>4
    <3>. QED
      BY <1>2, <3>1, <3>2
  <2>3. \A j, t : Served(j, t) => Served(j, t)'
    BY <1>2 DEF Served
  <2>4. \A t : t + Minute = deadline => Served(h, t)'
    BY <1>2, <1>5 DEF Served
  <2>5. ASSUME NEW t \in (started + Minute)..(deadline - Minute), NEW i \in DOMAIN Registered,
               (t - started) % Minute = 0
        PROVE  \/ Served(Registered[i], t)'
               \/ t + Minute = deadline /\ Left(Registered[i])'
    <3>1. \/ Served(Registered[i], t)
          \/ t + Minute = deadline /\ Left(Registered[i])
      BY <2>1, <2>5 DEF IInv, PunctualInv
    <3>. QED
      BY <1>3, <2>3, <2>4, <3>1
  <2>. QED
    BY <1>2, <2>1, <2>2, <2>5 DEF PunctualInv
<1>. QED
  BY <1>3, <1>11, <1>12, <1>13, <1>14, <1>15, <1>16 DEF IInv

LEMMA NextKeeps == IInv /\ [Next]_vars => IInv'
<1> SUFFICES ASSUME IInv, [Next]_vars PROVE IInv'
  OBVIOUS
<1>1. CASE UNCHANGED vars
  <2>1. \A j : (Left(j)' <=> Left(j)) /\ FiringsOf(j)' = FiringsOf(j)
    BY <1>1 DEF vars, Left, FiringsOf
  <2>2. \A j, t : Served(j, t)' <=> Served(j, t)
    BY <1>1 DEF vars, Served
  <2>3. TypeOK' /\ ClockInv' /\ CheckInv'
    BY <1>1 DEF vars, IInv, TypeOK, ClockInv, CheckInv
  <2>4. MinuteInv' /\ TickInv' /\ BudgetInv' /\ PunctualInv'
    BY <1>1, <2>1, FiringsKept, PunctualKept DEF vars
  <2>. QED
    BY <2>3, <2>4 DEF IInv
<1>. QED
  BY <1>1, TimePassesKeeps, TickKeeps, SkipJobKeeps, FireJobKeeps, SendDueKeeps, BridgeKeeps
  DEF Next

-----------------------------------------------------------------------------
(* Theorems *)

\* The invariant is inductive.
THEOREM InductiveInvariant == Spec => []IInv
BY InitIInv, NextKeeps, PTL DEF Spec

\* The scheduler's state keeps its types, and the channel its capacity.
THEOREM TypeCorrect == Spec => []TypeOK
<1>1. IInv => TypeOK
  BY DEF IInv
<1>. QED
  BY <1>1, InductiveInvariant, PTL

\* A burst of missed ticks fires no job twice in a minute: a check fires a job only
\* in a minute later than that of every firing the job had before.
THEOREM FiresOncePerMinute == Spec => []OncePerMinute
<1>1. IInv => OncePerMinute
  <2> SUFFICES ASSUME IInv, NEW r \in fired, NEW s \in fired,
                      r.job = s.job, r.minute = s.minute
               PROVE  r = s
    BY DEF OncePerMinute
  <2>1. r.tick \in Nat /\ s.tick \in Nat /\ r.minute \in Nat /\ s.minute \in Nat
    BY DEF IInv, TypeOK, Firing
  <2>2. ~(r.tick < s.tick) /\ ~(s.tick < r.tick)
    BY <2>1 DEF IInv, MinuteInv
  <2>3. r.tick = s.tick
    BY <2>1, <2>2
  <2>. QED
    BY <2>3 DEF IInv, TickInv
<1>. QED
  BY <1>1, InductiveInvariant, PTL

\* However late the checks, a job has fired at most once for each whole minute the
\* scheduler has run.
THEOREM FiringsWithinBudget == Spec => []FireBudget
<1>1. IInv => FireBudget
  <2> SUFFICES ASSUME IInv, NEW j \in Job
               PROVE  Minute * Cardinality(FiringsOf(j)) <= now - started
    BY DEF FireBudget, FiringsOf
  <2>1. /\ now \in Nat /\ started \in Nat /\ deadline \in Nat /\ Minute \in Nat \ {0}
        /\ deadline <= now + Minute
    BY SchedulerAssumption DEF IInv, TypeOK, ClockInv
  <2>2. IsFiniteSet(FiringsOf(j))
    BY FS_Subset DEF FiringsOf, IInv, BudgetInv
  <2>3. PICK b \in Int : b = Minute * Cardinality(FiringsOf(j))
    BY <2>1, <2>2, FS_CardinalityType
  <2>4. b + (IF Left(j) THEN Minute ELSE 0) <= deadline - Minute - started
    BY <2>3 DEF IInv, BudgetInv
  <2>5. b <= deadline - Minute - started
    BY <2>1, <2>4
  <2>. QED
    BY <2>1, <2>3, <2>5
<1>. QED
  BY <1>1, InductiveInvariant, PTL

\* Two firings for the same occurrence, while nothing was late, are one.
LEMMA OneFiringAnOccurrence ==
  ASSUME IInv, ~late, NEW r \in fired, NEW s \in fired,
         r.job = s.job, r.occurrence = s.occurrence
  PROVE  ~(r.tick < s.tick)
<1> SUFFICES ASSUME r.tick < s.tick PROVE FALSE
  OBVIOUS
<1>1. /\ r.at \in Nat /\ s.at \in Nat /\ s.job \in Job
      /\ r.occurrence \in Nat
      /\ Minute \in Nat /\ Second \in Nat /\ 2 * Second <= Minute
  BY SchedulerAssumption DEF IInv, TypeOK, Firing
<1>2. /\ r.tick = r.at + Minute /\ s.tick = s.at + Minute
      /\ r.occurrence < r.at + 2 * Second /\ s.occurrence = Upcoming(s.job, s.at)
  BY DEF IInv, PunctualInv
<1>3. r.tick + Minute <= s.tick
  BY DEF IInv, TickInv
<1>4. s.at < s.occurrence
  BY <1>1, <1>2, UpcomingIsLater
<1>. QED
  BY <1>1, <1>2, <1>3, <1>4

\* While neither the runtime nor the channel holds the scheduler up, each of its
\* ticks fires every job whose next occurrence is in reach, and no other tick fires
\* the job for that occurrence.
THEOREM PunctualJobs == Spec => []PunctualJobsFire
<1>1. IInv => PunctualJobsFire
  <2> SUFFICES ASSUME IInv, ~late, NEW t \in TickTimes, NEW i \in DOMAIN Registered,
                      NEW j, j = Registered[i],
                      NEW n, n = Upcoming(j, t), n < t + 2 * Second
               PROVE  Cardinality({r \in fired : r.job = j /\ r.occurrence = n}) = 1
    BY DEF PunctualJobsFire
  <2>1. /\ now \in Nat /\ started \in Nat /\ deadline \in Nat /\ Minute \in Nat \ {0}
        /\ now <= deadline
    BY SchedulerAssumption DEF IInv, TypeOK, PunctualInv
  <2>2. t \in Nat /\ started + Minute <= t /\ t < now /\ (t - started) % Minute = 0
    BY <2>1 DEF TickTimes
  <2>3. t + Minute <= deadline
    <3>1. PICK d \in Nat : deadline = started + Minute * d
      BY DEF IInv, ClockInv
    <3>2. t - started \in Nat
      BY <2>1, <2>2
    <3>3. PICK k \in Nat : t - started = Minute * k
      BY ONLY <2>1, <2>2, <3>2, DivMod
    <3>4. Minute * k < Minute * d
      BY <2>1, <2>2, <3>1, <3>3
    <3>5. Minute * k + Minute <= Minute * d
      BY ONLY <2>1, <3>1, <3>3, <3>4, Multiples
    <3>. QED
      BY <2>1, <2>2, <3>1, <3>3, <3>5
  <2>4. Served(j, t)
    <3>1. t \in (started + Minute)..(deadline - Minute)
      BY <2>1, <2>2, <2>3
    <3>2. \/ Served(Registered[i], t)
          \/ t + Minute = deadline /\ Left(Registered[i])
      <4>1. PunctualInv /\ ~late
        BY DEF IInv
      <4>. QED
        BY <2>2, <3>1, <4>1 DEF PunctualInv
    <3>3. ~(t + Minute = deadline /\ Left(j))
      <4>1. Left(j) => checking # <<>>
        BY DEF Left
      <4>2. checking # <<>> => deadline = now + Minute
        BY DEF IInv, PunctualInv
      <4>. QED
        BY <2>1, <2>2, <4>1, <4>2
    <3>. QED
      BY <3>2, <3>3
  <2>5. PICK r \in fired : r.job = j /\ r.tick = t + Minute
    BY <2>4 DEF Served
  <2>6. r.at = t /\ r.occurrence = n
    <3>1. r.at \in Nat /\ r.tick = r.at + Minute /\ r.occurrence = Upcoming(r.job, r.at)
      BY DEF IInv, TypeOK, Firing, PunctualInv
    <3>2. r.at = t
      BY <2>1, <2>2, <2>5, <3>1
    <3>. QED
      BY <2>5, <3>1, <3>2
  <2>7. ASSUME NEW s \in fired, s.job = j, s.occurrence = n PROVE s = r
    <3>1. r.tick \in Nat /\ s.tick \in Nat
      BY DEF IInv, TypeOK, Firing
    <3>2. ~(r.tick < s.tick) /\ ~(s.tick < r.tick)
      BY <2>5, <2>6, <2>7, OneFiringAnOccurrence
    <3>. QED
      BY <2>5, <2>7, <3>1, <3>2 DEF IInv, TickInv
  <2>8. {s \in fired : s.job = j /\ s.occurrence = n} = {r}
    BY <2>5, <2>6, <2>7
  <2>. QED
    BY <2>8, FS_Singleton
<1>. QED
  BY <1>1, InductiveInvariant, PTL

=============================================================================
