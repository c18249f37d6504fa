------------------------------ MODULE Periodic ------------------------------
(***************************************************************************)
(* The launch times of a periodic job (src/src/periodic.rs), as a caller   *)
(* meets them who passes each answer of next() back as the next argument,  *)
(* while the clock goes on.  next() reads the clock itself: the cron       *)
(* iterator starts at the present moment, whatever the argument.           *)
(*                                                                         *)
(* A schedule is the set of the instants it fires at, or Unparsable when   *)
(* its spec does not parse.  time_zone and prohibit_overlap are read by    *)
(* nothing here.                                                           *)
(***************************************************************************)
EXTENDS Integers, Sequences

CONSTANTS
  Schedule,  \* the schedules to look at
  Unparsable,
  MaxClock   \* bound: the clock, in seconds

\* Instants are Unix seconds.
ASSUME PeriodicAssumption == \A s \in Schedule : s = Unparsable \/ s \subseteq Nat

VARIABLES
  schedule,
  clock,
  planned  \* history: the answers of next(), each with the time it was asked at

periodicVars == <<schedule, clock, planned>>

PeriodicInit == schedule \in Schedule /\ clock = 0 /\ planned = <<>>

Tick == clock < MaxClock /\ clock' = clock + 1 /\ UNCHANGED <<schedule, planned>>

\* Faulty variant: the firing at `after` counts as one after it.
FiringsFrom(now, after) == {t \in schedule : t > now /\ t >= after}

\* schedule.upcoming(Utc).filter(> after)
FiringsAfter(now, after) == {t \in schedule : t > now /\ t > after}

LastPlanned == IF planned = <<>> THEN 0 ELSE planned[Len(planned)].launch

\* next(LastPlanned) returning Ok; a spec that does not parse, and one that
\* has no more firings, are errors and change nothing.
NextLaunch ==
  /\ schedule # Unparsable
  /\ \E t \in FiringsAfter(clock, LastPlanned) :
       /\ \A u \in FiringsAfter(clock, LastPlanned) : t <= u
       /\ planned' = Append(planned, [asked |-> clock, launch |-> t])
  /\ UNCHANGED <<schedule, clock>>

PeriodicNext == Tick \/ NextLaunch

PeriodicSpec == PeriodicInit /\ [][PeriodicNext]_periodicVars

----------------------------------------------------------------------------
(* Properties.                                                             *)

\* The argument of the i-th call.
Argument(i) == IF i = 1 THEN 0 ELSE planned[i - 1].launch

\* What the code keeps of a schedule over a chain of calls made early or late:
\* no firing is answered twice or out of order, and one is passed over only if
\* it was past already when next() was called.
FollowsSchedule ==
  \A i \in DOMAIN planned :
    /\ Argument(i) < planned[i].launch
    /\ \A t \in schedule :
         (Argument(i) < t /\ t < planned[i].launch) => t <= planned[i].asked

\* "Next launch time (Unix seconds) strictly after `after_unix`": the answer is
\* the next firing after the argument, whenever it is asked for.
NextAfterArgument ==
  \A i \in DOMAIN planned : \A t \in schedule : Argument(i) < t => planned[i].launch <= t

============================================================================
