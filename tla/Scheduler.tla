------------------------------ MODULE Scheduler ------------------------------
(***************************************************************************)
(* The cron scheduler (crates/scheduler/src/runner.rs) and the channel     *)
(* between it and the supervisor's event loop.  Time is counted in ticks   *)
(* of a clock finer than a second; a minute is scaled down.  The runtime   *)
(* may run the scheduler late, and a full channel blocks it in the middle  *)
(* of a check, so that ticks of its interval pile up and are then taken in *)
(* a burst.                                                                *)
(***************************************************************************)
EXTENDS Integers, Sequences, FiniteSets

CONSTANTS Job,         \* configured jobs
          Registered,  \* the enabled ones whose cron expression parses, in order
          Period,      \* a job's schedule: every Period[j] seconds ...
          Offset,      \* ... at second Offset[j]
          Second,      \* units of time in a second
          Minute,      \* units of time in a minute (60 seconds in the code)
          Cap,         \* capacity of the DueJob channel (32 in the code)
          Horizon      \* bound: time a behaviour may last

ASSUME SchedulerAssumption ==
  /\ Registered \in Seq(Job)
  /\ \A i, k \in DOMAIN Registered : Registered[i] = Registered[k] => i = k
  /\ Period \in [Job -> Nat \ {0}]
  /\ Offset \in [Job -> Nat]
  /\ \A j \in Job : Offset[j] < Period[j]
  /\ Second \in Nat \ {0}
  /\ Minute \in Nat \ {0} /\ Minute >= 2 * Second
  /\ Cap \in Nat \ {0}
  /\ Horizon \in Nat

VARIABLES now,        \* the wall clock
          started,    \* when the interval was created
          deadline,   \* the interval's next tick
          checking,   \* jobs the running check has yet to look at
          seen,       \* the running check's `now`
          sending,    \* the first of them is due and waits for the channel
          lastFired,  \* last_fired_minute of a job, -1 for None
          channel,    \* DueJobs on their way to the event loop
          fired,      \* history: the jobs fired
          late        \* history: the scheduler had to wait, for the runtime or the channel

clockVars == <<now, started, late>>
checkVars == <<checking, seen, sending>>
vars == <<clockVars, deadline, checkVars, lastFired, channel, fired>>

Firing == [job : Job, tick : Nat, minute : Nat, at : Nat, occurrence : Nat]

TypeOK ==
  /\ now \in Nat
  /\ started \in Nat
  /\ deadline \in Nat
  /\ checking \in Seq(Job)
  /\ seen \in Nat
  /\ sending \in BOOLEAN
  /\ sending => checking # <<>>
  /\ lastFired \in [Job -> Nat \cup {-1}]
  /\ channel \in Seq(Job) /\ Len(channel) <= Cap
  /\ fired \in SUBSET Firing
  /\ late \in BOOLEAN

\* Mutant: the immediate first tick of the interval is not skipped.
FirstDeadlineAtOnce(start) == start

\* The interval's first tick fires at once and is skipped.
FirstDeadline(start) == start + Minute

Init ==
  /\ now \in 0..(Minute - 1)
  /\ started = now
  /\ deadline = FirstDeadline(now)
  /\ checking = <<>>
  /\ seen = now
  /\ sending = FALSE
  /\ lastFired = [j \in Job |-> -1]
  /\ channel = <<>>
  /\ fired = {}
  /\ late = FALSE

-----------------------------------------------------------------------------

Due(t) == t >= deadline

TimePasses ==
  /\ now < Horizon
  /\ now' = now + 1
  /\ late' = (late \/ Due(now) \/ checking # <<>>)
  /\ UNCHANGED <<started, deadline, checkVars, lastFired, channel, fired>>

\* A tick that was missed is made up for at once (MissedTickBehavior::Burst).
Tick ==
  /\ checking = <<>>
  /\ Due(now)
  /\ deadline' = deadline + Minute
  /\ checking' = Registered
  /\ seen' = now
  /\ UNCHANGED <<clockVars, sending, lastFired, channel, fired>>

Occurs(j, t) == t % (Period[j] * Second) = Offset[j] * Second

\* schedule.upcoming(Utc).next(): the first occurrence after t.
Upcoming(j, t) ==
  CHOOSE n \in (t + 1)..(t + Period[j] * Second) :
     Occurs(j, n) /\ \A m \in (t + 1)..(n - 1) : ~Occurs(j, m)

CurrentMinute == seen \div Minute

\* Mutant: the minute of the last firing is not looked at.
FiredThisMinuteNever(j) == FALSE

FiredThisMinute(j) == lastFired[j] = CurrentMinute

\* Mutant: only an occurrence less than a second ahead counts.
InReachStrictly(j) == Upcoming(j, now) - seen < Second

\* The whole seconds from the check's `now` to the occurrence are at most 1; the
\* occurrence is looked up from the clock as it is by then.
InReach(j) == Upcoming(j, now) - seen < 2 * Second

SkipJob ==
  /\ checking # <<>>
  /\ ~sending
  /\ FiredThisMinute(Head(checking)) \/ ~InReach(Head(checking))
  /\ checking' = Tail(checking)
  /\ UNCHANGED <<clockVars, deadline, seen, sending, lastFired, channel, fired>>

FireJob ==
  /\ checking # <<>>
  /\ ~sending
  /\ LET j == Head(checking) IN
       /\ ~FiredThisMinute(j)
       /\ InReach(j)
       /\ lastFired' = [lastFired EXCEPT ![j] = CurrentMinute]
       /\ fired' = fired \cup {[job |-> j, tick |-> deadline, minute |-> CurrentMinute,
                                at |-> now, occurrence |-> Upcoming(j, now)]}
  /\ sending' = TRUE
  /\ UNCHANGED <<clockVars, deadline, checking, seen, channel>>

\* tx.send waits while the channel is full.
SendDue ==
  /\ sending
  /\ Len(channel) < Cap
  /\ channel' = Append(channel, Head(checking))
  /\ checking' = Tail(checking)
  /\ sending' = FALSE
  /\ UNCHANGED <<clockVars, deadline, seen, lastFired, fired>>

\* The bridge task of Supervisor::run turns a DueJob into an event.
Bridge ==
  /\ channel # <<>>
  /\ channel' = Tail(channel)
  /\ UNCHANGED <<clockVars, deadline, checkVars, lastFired, fired>>

Next == TimePasses \/ Tick \/ SkipJob \/ FireJob \/ SendDue \/ Bridge

Spec == Init /\ [][Next]_vars

-----------------------------------------------------------------------------
(* Properties *)

\* A job fires at most once in the minute of the check that fires it, even when
\* missed ticks are taken in a burst (last_fired_minute).
OncePerMinute ==
  \A r, s \in fired : r.job = s.job /\ r.minute = s.minute => r = s

\* Nothing fires on startup, and a burst never makes a job fire more often than
\* once for each whole minute the scheduler has run.
FireBudget ==
  \A j \in Job : Minute * Cardinality({r \in fired : r.job = j}) <= now - started

TickTimes == {t \in (started + Minute)..(now - 1) : (t - started) % Minute = 0}

\* While the scheduler is never held up, an occurrence that a tick precedes by
\* less than two seconds fires its job, once, however often the job occurs.
PunctualJobsFire ==
  ~late =>
    \A t \in TickTimes : \A i \in DOMAIN Registered :
       LET j == Registered[i]
           n == Upcoming(j, t)
       IN  n < t + 2 * Second
             => Cardinality({r \in fired : r.job = j /\ r.occurrence = n}) = 1
=============================================================================
