------------------------------ MODULE FairShare ------------------------------
(***************************************************************************)
(* The fair-share accounts (master/src/scheduler/fair_share.cpp) and the   *)
(* comparator the scheduler sorts by when there is usage.  Every method    *)
(* holds the mutex for its whole body and is one action.                   *)
(*                                                                         *)
(* The doubles are scaled integers.  The clock counts half lives, and an   *)
(* amount of usage is a multiple of 2^MaxNow units, so that halving it as  *)
(* often as the clock allows is exact, as it is for a double.  Factors and *)
(* priorities count hundredths.                                            *)
(***************************************************************************)
EXTENDS Integers, Functions

CONSTANTS
  Users,
  Charges,                      \* amounts a job can cost
  MaxCharges,                   \* bound on the calls of add_usage
  MaxNow,                       \* bound on the clock
  Penalty,                      \* usage -> factor, 1 / (1 + log1p(hours))
  Priorities, Submissions       \* of the jobs that are compared

Times == 0..MaxNow

ASSUME FairShareAssumption ==
  /\ MaxNow \in Nat /\ MaxCharges \in Nat
  /\ Charges \subseteq {k * 2^MaxNow : k \in 1..MaxCharges}
  /\ Priorities \subseteq Int /\ Submissions \subseteq Int

VARIABLES
  clock,                        \* now_unix(), which may be set back
  user_usage,
  last_decay_time,
  charged                       \* history: user -> decay time -> amount added

fairVars == <<clock, user_usage, last_decay_time, charged>>

FairShareInit ==
  /\ clock \in Times
  /\ last_decay_time = clock
  /\ user_usage = [u \in {} |-> 0]
  /\ charged = [u \in Users |-> [t \in Times |-> 0]]

(* An entry that is not there counts as nothing.                           *)
Usage(u) == IF u \in DOMAIN user_usage THEN user_usage[u] ELSE 0

TotalCharged(u) == SumFunctionOnSet(charged[u], Times)

add_usage(u, amount) ==
  /\ user_usage' = [v \in DOMAIN user_usage \cup {u} |->
                      IF v = u THEN Usage(u) + amount ELSE user_usage[v]]
  /\ charged' = [charged EXCEPT ![u][last_decay_time] = @ + amount]
  /\ UNCHANGED <<clock, last_decay_time>>

(* usage * 0.5 ^ (elapsed / half_life)                                     *)
Aged(amount, elapsed) ==
  IF elapsed >= 0 THEN amount \div 2^elapsed ELSE amount * 2^(-elapsed)

(* Faulty: a clock that was set back is taken for time that passed.        *)
apply_decay_AnyClock ==
  /\ clock # last_decay_time
  /\ user_usage' = [u \in DOMAIN user_usage |->
                      Aged(user_usage[u], clock - last_decay_time)]
  /\ last_decay_time' = clock
  /\ UNCHANGED <<clock, charged>>

(* Faulty: the time of the decay is not kept.                              *)
apply_decay_Again ==
  /\ clock > last_decay_time
  /\ user_usage' = [u \in DOMAIN user_usage |->
                      Aged(user_usage[u], clock - last_decay_time)]
  /\ UNCHANGED <<clock, last_decay_time, charged>>

apply_decay ==
  /\ clock > last_decay_time
  /\ user_usage' = [u \in DOMAIN user_usage |->
                      Aged(user_usage[u], clock - last_decay_time)]
  /\ last_decay_time' = clock
  /\ UNCHANGED <<clock, charged>>

get_priority_factor(u) == IF Usage(u) <= 0 THEN 100 ELSE Penalty[Usage(u)]

-----------------------------------------------------------------------------
(* The comparator of schedule_pass (scheduler_engine.cpp:49).              *)
Job == [user: Users, priority: Priorities, submitted_at: Submissions]

Effective(job) == job.priority * get_priority_factor(job.user)

Near(p, q) == p - q <= 10 /\ q - p <= 10

(* Faulty: jobs of one moment sort before each other.                      *)
SortsBefore_OrEqual(a, b) ==
  IF Near(Effective(a), Effective(b))
  THEN a.submitted_at <= b.submitted_at
  ELSE Effective(a) > Effective(b)

SortsBefore(a, b) ==
  IF Near(Effective(a), Effective(b))
  THEN a.submitted_at < b.submitted_at
  ELSE Effective(a) > Effective(b)

-----------------------------------------------------------------------------
ClockIsSet ==
  /\ clock' \in Times \ {clock}
  /\ UNCHANGED <<user_usage, last_decay_time, charged>>

FairShareNext ==
  \/ \E u \in Users, amount \in Charges :
       /\ SumFunction([v \in Users |-> TotalCharged(v)]) + amount <= MaxCharges * 2^MaxNow
       /\ add_usage(u, amount)
  \/ apply_decay
  \/ ClockIsSet

FairShareSpec == FairShareInit /\ [][FairShareNext]_fairVars

-----------------------------------------------------------------------------
(* What decay leaves of the amounts charged at each time.                  *)
LeftOf(u) ==
  [t \in Times |-> IF t <= last_decay_time
                   THEN Aged(charged[u][t], last_decay_time - t)
                   ELSE charged[u][t]]

(* Whatever the clock does and however often a pass applies the decay, an  *)
(* amount has been halved once for every half life that last_decay_time    *)
(* advanced since it was added.                                            *)
UsageIsAgedOnce ==
  \A u \in Users : Usage(u) = SumFunctionOnSet(LeftOf(u), Times)

(* A user's usage grows by what is charged to that user and by nothing     *)
(* else, a clock that is set back included.                                *)
GrowsByCharges ==
  [][\A u \in Users :
       Usage(u)' > Usage(u) =>
         Usage(u)' - Usage(u) <= TotalCharged(u)' - TotalCharged(u)]_fairVars

StrictWeakOrder ==
  \A a, b, c \in Job :
    /\ ~(SortsBefore(a, b) /\ SortsBefore(b, a))
    /\ SortsBefore(a, b) => SortsBefore(a, c) \/ SortsBefore(c, b)

(* std::sort may be given this comparator while no usage is charged, which *)
(* is how the program runs.  With usage it is no strict weak order: two    *)
(* jobs that are nearly equal to a third need not be nearly equal.         *)
OrderIsWeak == (\A u \in Users : Usage(u) = 0) => StrictWeakOrder
=============================================================================
