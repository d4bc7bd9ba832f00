-------------------------- MODULE Accounting_proofs --------------------------
(***************************************************************************)
(* For any machines, jobs, users, amounts and widths of the fields: the    *)
(* ledger keeps its types, balances, and is never overdrawn on a node      *)
(* whose capacity was not lowered below what was taken; usage is aged once *)
(* and grows by charges only; and the comparator of the scheduler is a     *)
(* strict weak order while nobody has usage.                               *)
(*                                                                         *)
(* That a grant does not wrap needs more than NoOvercommit: a total is one *)
(* of the announced ones and so less than Modulus.  LedgerInv says both.   *)
(* The balance and the usage are sums over sets of any finite size, moved  *)
(* one summand at a time by the lemmas of Arithmetic_proofs.               *)
(***************************************************************************)
EXTENDS Accounting, Arithmetic_proofs

TotalsAreAnnounced == \A n \in DOMAIN capacities : capacities[n].total \in Capacities

LedgerInv == ResourceTypeOK /\ TotalsAreAnnounced /\ NoOvercommit

-----------------------------------------------------------------------------
(* Unsigned arithmetic of a field.                                         *)
LEMMA Modular ==
  ASSUME NEW x \in Int
  PROVE  /\ x % Modulus \in Nat
         /\ x \in 0..(Modulus - 1) => x % Modulus = x
BY ResourceAssumption

(* A node that is not overdrawn has what is not taken, and a request that  *)
(* is accommodated fits on top of what is taken.                           *)
LEMMA GrantFits ==
  ASSUME LedgerInv, NEW n \in DOMAIN capacities \ lowered, NEW req \in Requests,
         NEW d \in Dims, can_accommodate(n, req)
  PROVE  /\ (capacities[n].allocated[d] + req[d]) % Modulus = capacities[n].allocated[d] + req[d]
         /\ capacities[n].allocated[d] + req[d] <= capacities[n].total[d]
<1> DEFINE total == capacities[n].total[d]
           taken == capacities[n].allocated[d]
<1>1. total \in 0..(Modulus - 1) /\ taken \in Nat /\ req[d] \in Nat /\ Modulus \in Nat
  BY ResourceAssumption DEF LedgerInv, ResourceTypeOK, TotalsAreAnnounced, Capacity
<1>2. taken <= total
  BY DEF LedgerInv, NoOvercommit
<1>3. (total - taken) % Modulus = total - taken
  BY <1>1, <1>2, Modular
<1>4. req[d] <= total - taken
  BY <1>3 DEF can_accommodate, Available
<1>5. taken + req[d] \in 0..(Modulus - 1) /\ taken + req[d] <= total
  BY <1>1, <1>2, <1>4
<1> HIDE DEF total, taken
<1>6. (taken + req[d]) % Modulus = taken + req[d]
  BY <1>5, Modular
<1> QED
  BY <1>5, <1>6 DEF total, taken

-----------------------------------------------------------------------------
LEMMA InitLedgerInv == ResourceInit => LedgerInv
BY DEF ResourceInit, LedgerInv, ResourceTypeOK, TotalsAreAnnounced, NoOvercommit,
       EmptyTable

(* A machine announces a capacity, for the first time or again.            *)
LEMMA SetCapacityKeepsInv ==
  ASSUME LedgerInv, NEW n \in NodeIds, NEW total \in Capacities,
         set_node_capacity(n, total)
  PROVE  LedgerInv'
<1>1. Allocated(n) \in [Dims -> Nat] /\ total \in [Dims -> Nat]
  BY ResourceAssumption
     DEF LedgerInv, ResourceTypeOK, Capacity, Allocated, Nothing
<1>2. /\ DOMAIN capacities' = DOMAIN capacities \cup {n}
      /\ capacities'[n] = [total |-> total, allocated |-> Allocated(n)]
      /\ \A m \in DOMAIN capacities : m # n => capacities'[m] = capacities[m]
  BY DEF set_node_capacity, Put
<1>3. /\ held' = held /\ lowered \subseteq lowered' /\ lowered' \subseteq lowered \cup {n}
      /\ n \notin lowered' => \A d \in Dims : ~(total[d] < Allocated(n)[d])
  BY DEF set_node_capacity
<1>4. capacities' \in [DOMAIN capacities' -> Capacity]
  <2>1. \A m \in DOMAIN capacities' : capacities'[m] \in Capacity
    BY <1>1, <1>2 DEF LedgerInv, ResourceTypeOK, Capacity
  <2>2. capacities' = [m \in DOMAIN capacities' |-> capacities'[m]]
    BY <1>2 DEF set_node_capacity, Put
  <2> QED
    BY <2>1, <2>2
<1>5. ResourceTypeOK'
  BY <1>2, <1>3, <1>4 DEF LedgerInv, ResourceTypeOK
<1>6. TotalsAreAnnounced'
  BY <1>2 DEF LedgerInv, TotalsAreAnnounced
<1>7. NoOvercommit'
  BY <1>1, <1>2, <1>3 DEF LedgerInv, NoOvercommit
<1> QED
  BY <1>5, <1>6, <1>7 DEF LedgerInv

(* Both other steps change what is taken of one node.                      *)
LEMMA AmountKeepsInv ==
  ASSUME LedgerInv, NEW n \in DOMAIN capacities, NEW amount \in [Dims -> Nat],
         capacities' = [capacities EXCEPT ![n].allocated = amount],
         lowered' = lowered,
         held' \in [DOMAIN held' -> [node: DOMAIN capacities, amount: Requests]],
         DOMAIN held' \subseteq JobIds,
         n \notin lowered => \A d \in Dims : amount[d] <= capacities[n].total[d]
  PROVE  LedgerInv'
<1>1. /\ DOMAIN capacities' = DOMAIN capacities
      /\ capacities'[n].total = capacities[n].total
      /\ capacities'[n].allocated = amount
      /\ capacities'[n] \in Capacity
      /\ \A m \in DOMAIN capacities : m # n => capacities'[m] = capacities[m]
  BY DEF LedgerInv, ResourceTypeOK, Capacity
<1>2. capacities' \in [DOMAIN capacities' -> Capacity]
  BY <1>1 DEF LedgerInv, ResourceTypeOK, Capacity
<1>3. ResourceTypeOK'
  BY <1>1, <1>2 DEF LedgerInv, ResourceTypeOK
<1>4. TotalsAreAnnounced'
  BY <1>1 DEF LedgerInv, TotalsAreAnnounced
<1>5. NoOvercommit'
  BY <1>1 DEF LedgerInv, NoOvercommit
<1> QED
  BY <1>3, <1>4, <1>5 DEF LedgerInv

LEMMA TakeKeepsInv ==
  ASSUME LedgerInv, NEW j \in JobIds, NEW n \in NodeIds, NEW req \in Requests,
         Take(j, n, req)
  PROVE  LedgerInv'
<1> DEFINE amount ==
      [d \in Dims |-> (capacities[n].allocated[d] + req[d]) % Modulus]
<1>1. n \in DOMAIN capacities /\ can_accommodate(n, req)
  BY DEF Take, allocate, can_accommodate
<1>2. capacities' = [capacities EXCEPT ![n].allocated = amount] /\ lowered' = lowered
  BY <1>1 DEF Take, allocate
<1>3. amount \in [Dims -> Nat]
  <2>1. capacities[n].allocated \in [Dims -> Nat] /\ req \in [Dims -> Nat]
    BY <1>1, ResourceAssumption DEF LedgerInv, ResourceTypeOK, Capacity
  <2>2. \A d \in Dims : (capacities[n].allocated[d] + req[d]) % Modulus \in Nat
    BY <2>1, Modular
  <2> QED
    BY <2>2
<1>4. n \notin lowered => \A d \in Dims : amount[d] <= capacities[n].total[d]
  BY <1>1, GrantFits
<1>5. /\ held' \in [DOMAIN held' -> [node: DOMAIN capacities, amount: Requests]]
      /\ DOMAIN held' \subseteq JobIds
  BY <1>1 DEF Take, Put, LedgerInv, ResourceTypeOK
<1> HIDE DEF amount
<1> QED
  BY <1>1, <1>2, <1>3, <1>4, <1>5, AmountKeepsInv

LEMMA GiveBackKeepsInv ==
  ASSUME LedgerInv, NEW j \in JobIds, GiveBack(j)
  PROVE  LedgerInv'
<1> DEFINE n == held[j].node
           taken == capacities[n].allocated
           amount == Reduced(taken, held[j].amount)
<1>1. n \in DOMAIN capacities /\ held[j].amount \in [Dims -> Nat] /\ taken \in [Dims -> Nat]
  BY ResourceAssumption DEF GiveBack, LedgerInv, ResourceTypeOK, Capacity
<1>2. capacities' = [capacities EXCEPT ![n].allocated = amount] /\ lowered' = lowered
  BY <1>1 DEF GiveBack, deallocate
<1>3. amount \in [Dims -> Nat] /\ \A d \in Dims : amount[d] <= taken[d]
  BY <1>1 DEF Reduced
<1>4. n \notin lowered => \A d \in Dims : amount[d] <= capacities[n].total[d]
  <2>1. capacities[n].total \in [Dims -> Nat]
    BY <1>1 DEF LedgerInv, ResourceTypeOK, Capacity
  <2> QED
    BY <1>1, <1>3, <2>1 DEF LedgerInv, NoOvercommit
<1>5. /\ held' \in [DOMAIN held' -> [node: DOMAIN capacities, amount: Requests]]
      /\ DOMAIN held' \subseteq JobIds
  BY DEF GiveBack, LedgerInv, ResourceTypeOK
<1> HIDE DEF n, amount
<1> QED
  BY <1>1, <1>2, <1>3, <1>4, <1>5, AmountKeepsInv

LEMMA NextKeepsInv ==
  LedgerInv /\ [AccountingNext]_<<resourceVars, fairVars>> => LedgerInv'
<1> SUFFICES ASSUME LedgerInv, [AccountingNext]_<<resourceVars, fairVars>>
             PROVE  LedgerInv'
  OBVIOUS
<1>1. CASE ResourceNext
  BY <1>1, SetCapacityKeepsInv, TakeKeepsInv, GiveBackKeepsInv DEF ResourceNext
<1>2. CASE UNCHANGED resourceVars
  BY <1>2 DEF resourceVars, LedgerInv, ResourceTypeOK, TotalsAreAnnounced, NoOvercommit
<1> QED
  BY <1>1, <1>2 DEF AccountingNext

(* LedgerInv is an invariant of the two ledgers together.                  *)
THEOREM LedgerInvariant == AccountingSpec => []LedgerInv
<1>1. AccountingInit => LedgerInv
  BY InitLedgerInv DEF AccountingInit
<1> QED
  BY <1>1, NextKeepsInv, PTL DEF AccountingSpec

(* resource_manager.cpp keeps its table well formed.                       *)
THEOREM LedgerTyped == AccountingSpec => []ResourceTypeOK
<1>1. LedgerInv => ResourceTypeOK
  BY DEF LedgerInv
<1> QED
  BY <1>1, LedgerInvariant, PTL

(* The unsigned differences of allocate and can_accommodate do not wrap on *)
(* a node whose capacity was never set below what was taken from it.       *)
THEOREM LedgerNotOverdrawn == AccountingSpec => []NoOvercommit
<1>1. LedgerInv => NoOvercommit
  BY DEF LedgerInv
<1> QED
  BY <1>1, LedgerInvariant, PTL

-----------------------------------------------------------------------------
(* The balance.  A grant adds its amount to the sum of the node it is on,  *)
(* and giving it back takes the same amount out, because the sum of the    *)
(* others cannot be negative: Reduced cuts nothing off.                    *)
BalanceInv == IsFiniteSet(DOMAIN held) /\ LedgerBalances

LEMMA HeldTyped ==
  ASSUME LedgerInv, NEW j \in DOMAIN held, NEW d \in Dims
  PROVE  held[j].node \in DOMAIN capacities /\ held[j].amount[d] \in Nat
BY ResourceAssumption DEF LedgerInv, ResourceTypeOK

LEMMA GrantedIsNat ==
  ASSUME LedgerInv, IsFiniteSet(DOMAIN held), NEW n, NEW d \in Dims
  PROVE  Granted(n, d) \in Nat /\ IsFiniteSet(HeldOn(n))
<1>1. IsFiniteSet(HeldOn(n))
  BY FS_Subset DEF HeldOn
<1>2. \A j \in HeldOn(n) : [k \in DOMAIN held |-> held[k].amount[d]][j] \in Nat
  BY HeldTyped DEF HeldOn
<1> QED
  BY <1>1, <1>2, SumNat DEF Granted

(* A node is granted the same when the same jobs hold the same there.      *)
LEMMA GrantedSame ==
  ASSUME IsFiniteSet(DOMAIN held), NEW n, NEW d, HeldOn(n)' = HeldOn(n),
         \A j \in HeldOn(n) : held'[j] = held[j]
  PROVE  Granted(n, d)' = Granted(n, d)
<1> DEFINE f == [j \in DOMAIN held |-> held[j].amount[d]]
           e == [j \in DOMAIN held' |-> held'[j].amount[d]]
<1>1. IsFiniteSet(HeldOn(n)) /\ HeldOn(n) \subseteq DOMAIN held /\ HeldOn(n) \subseteq DOMAIN held'
  BY FS_Subset DEF HeldOn
<1>2. \A j \in HeldOn(n) : f[j] = e[j]
  BY <1>1
<1> HIDE DEF f, e
<1>3. SumFunctionOnSet(f, HeldOn(n)) = SumFunctionOnSet(e, HeldOn(n))
  BY <1>1, <1>2, SumCongruent
<1> QED
  BY <1>3 DEF Granted, f, e

LEMMA SetCapacityKeepsBalance ==
  ASSUME LedgerInv, BalanceInv, NEW n \in NodeIds, NEW total \in Capacities,
         set_node_capacity(n, total)
  PROVE  BalanceInv'
<1>1. /\ DOMAIN capacities' = DOMAIN capacities \cup {n}
      /\ capacities'[n].allocated = Allocated(n)
      /\ \A m \in DOMAIN capacities : m # n => capacities'[m] = capacities[m]
      /\ held' = held /\ lowered \subseteq lowered'
  BY DEF set_node_capacity, Put
<1>2. \A m, d : Granted(m, d)' = Granted(m, d)
  BY <1>1 DEF Granted, HeldOn
<1>3. ASSUME n \notin DOMAIN capacities, NEW d \in Dims
      PROVE  Allocated(n)[d] = Granted(n, d)
  <2>1. HeldOn(n) = {}
    BY <1>3, HeldTyped DEF HeldOn
  <2> QED
    BY <1>3, <2>1, SumEmpty DEF Granted, Allocated, Nothing
<1>4. n \in DOMAIN capacities => Allocated(n) = capacities[n].allocated
  BY DEF Allocated
<1> QED
  BY <1>1, <1>2, <1>3, <1>4 DEF BalanceInv, LedgerBalances

(* Both other steps change the entry of one node by as much as the sum.    *)
LEMMA EntryKeepsBalance ==
  ASSUME LedgerInv, BalanceInv, NEW n \in DOMAIN capacities, NEW amount,
         capacities' = [capacities EXCEPT ![n].allocated = amount],
         lowered' = lowered, IsFiniteSet(DOMAIN held'),
         \A m : m # n => HeldOn(m)' = HeldOn(m) /\ \A k \in HeldOn(m) : held'[k] = held[k],
         n \notin lowered => \A d \in Dims : amount[d] = Granted(n, d)'
  PROVE  BalanceInv'
<1>1. /\ DOMAIN capacities' = DOMAIN capacities
      /\ capacities'[n].allocated = amount
      /\ \A m \in DOMAIN capacities : m # n => capacities'[m] = capacities[m]
  BY DEF LedgerInv, ResourceTypeOK, Capacity
<1>2. \A m, d : m # n => Granted(m, d)' = Granted(m, d)
  BY GrantedSame DEF BalanceInv
<1> QED
  BY <1>1, <1>2 DEF BalanceInv, LedgerBalances

LEMMA TakeKeepsBalance ==
  ASSUME LedgerInv, BalanceInv, NEW j \in JobIds, NEW n \in NodeIds, NEW req \in Requests,
         Take(j, n, req)
  PROVE  BalanceInv'
<1> DEFINE amount ==
      [d \in Dims |-> (capacities[n].allocated[d] + req[d]) % Modulus]
<1>1. /\ n \in DOMAIN capacities /\ can_accommodate(n, req) /\ lowered' = lowered
      /\ capacities' = [capacities EXCEPT ![n].allocated = amount]
  BY DEF Take, allocate, can_accommodate
<1>2. /\ j \notin DOMAIN held /\ DOMAIN held' = DOMAIN held \cup {j}
      /\ held'[j].node = n /\ held'[j].amount = req
      /\ \A k \in DOMAIN held : held'[k] = held[k]
  BY DEF Take, Put
<1>3. IsFiniteSet(DOMAIN held')
  BY <1>2, FS_AddElement DEF BalanceInv
<1>4. /\ HeldOn(n)' = HeldOn(n) \cup {j} /\ j \notin HeldOn(n)
      /\ \A m : m # n => HeldOn(m)' = HeldOn(m)
      /\ \A m : \A k \in HeldOn(m) : held'[k] = held[k]
  BY <1>2 DEF HeldOn
<1>5. ASSUME n \notin lowered, NEW d \in Dims PROVE amount[d] = Granted(n, d)'
  <2> DEFINE f == [k \in DOMAIN held |-> held[k].amount[d]]
             e == [k \in DOMAIN held' |-> held'[k].amount[d]]
  <2>1. amount[d] = Granted(n, d) + req[d]
    BY <1>1, <1>5, GrantFits DEF BalanceInv, LedgerBalances
  <2>2. IsFiniteSet(HeldOn(n)) /\ Granted(n, d) \in Nat /\ req[d] \in Nat
    BY GrantedIsNat, ResourceAssumption DEF BalanceInv
  <2>3. e[j] = req[d] /\ \A k \in HeldOn(n) : e[k] = f[k] /\ f[k] \in Nat
    BY <1>2, HeldTyped DEF HeldOn
  <2>4. Granted(n, d) = SumFunctionOnSet(f, HeldOn(n))
    BY DEF Granted
  <2>5. Granted(n, d)' = SumFunctionOnSet(e, HeldOn(n) \cup {j})
    BY <1>4 DEF Granted
  <2> HIDE DEF f, e, amount
  <2>6. SumFunctionOnSet(e, HeldOn(n) \cup {j}) = e[j] + SumFunctionOnSet(e, HeldOn(n))
    <3>1. \A k \in HeldOn(n) \cup {j} : e[k] \in Int
      BY <2>2, <2>3
    <3> QED
      BY <1>4, <2>2, <3>1, SumAdd
  <2>7. SumFunctionOnSet(f, HeldOn(n)) = SumFunctionOnSet(e, HeldOn(n))
    BY <2>2, <2>3, SumCongruent
  <2> QED
    BY <2>1, <2>2, <2>3, <2>4, <2>5, <2>6, <2>7
<1> HIDE DEF amount
<1> QED
  BY <1>1, <1>3, <1>4, <1>5, EntryKeepsBalance

LEMMA GiveBackKeepsBalance ==
  ASSUME LedgerInv, BalanceInv, NEW j \in JobIds, GiveBack(j)
  PROVE  BalanceInv'
<1>0. PICK n : n = held[j].node
  OBVIOUS
<1> DEFINE amount == Reduced(capacities[n].allocated, held[j].amount)
<1>1. /\ j \in DOMAIN held /\ n \in DOMAIN capacities /\ lowered' = lowered
      /\ capacities' = [capacities EXCEPT ![n].allocated = amount]
  BY <1>0, HeldTyped DEF GiveBack, deallocate
<1>2. DOMAIN held' = DOMAIN held \ {j} /\ \A k \in DOMAIN held' : held'[k] = held[k]
  BY DEF GiveBack
<1>3. IsFiniteSet(DOMAIN held')
  BY <1>2, FS_Subset DEF BalanceInv
<1>4. /\ HeldOn(n)' = HeldOn(n) \ {j} /\ j \in HeldOn(n)
      /\ \A m : m # n => HeldOn(m)' = HeldOn(m) /\ \A k \in HeldOn(m) : held'[k] = held[k]
  BY <1>0, <1>1, <1>2 DEF HeldOn
<1>5. ASSUME n \notin lowered, NEW d \in Dims PROVE amount[d] = Granted(n, d)'
  <2> DEFINE f == [k \in DOMAIN held |-> held[k].amount[d]]
             e == [k \in DOMAIN held' |-> held'[k].amount[d]]
             rest == HeldOn(n) \ {j}
  <2>1. capacities[n].allocated[d] = Granted(n, d)
    BY <1>1, <1>5 DEF BalanceInv, LedgerBalances
  <2>2. IsFiniteSet(HeldOn(n)) /\ IsFiniteSet(rest)
    BY GrantedIsNat, FS_Subset DEF BalanceInv
  <2>3. /\ f[j] = held[j].amount[d]
        /\ \A k \in HeldOn(n) : f[k] \in Nat
        /\ \A k \in rest : e[k] = f[k]
    BY <1>1, <1>2, HeldTyped DEF HeldOn
  <2>4. Granted(n, d) = SumFunctionOnSet(f, HeldOn(n))
    BY DEF Granted
  <2>5. Granted(n, d)' = SumFunctionOnSet(e, rest)
    BY <1>4 DEF Granted
  <2>6. amount[d] = IF Granted(n, d) > f[j] THEN Granted(n, d) - f[j] ELSE 0
    BY <2>1, <2>3 DEF Reduced
  <2> HIDE DEF f, e, amount
  <2>7. SumFunctionOnSet(f, HeldOn(n)) = f[j] + SumFunctionOnSet(f, rest)
    <3>1. \A k \in HeldOn(n) : f[k] \in Int
      BY <2>3
    <3> QED
      BY <1>4, <2>2, <3>1, SumRemove
  <2>8. SumFunctionOnSet(f, rest) \in Nat /\ f[j] \in Nat
    BY <1>4, <2>2, <2>3, SumNat
  <2>9. SumFunctionOnSet(f, rest) = SumFunctionOnSet(e, rest)
    BY <2>2, <2>3, SumCongruent
  <2> QED
    BY <2>4, <2>5, <2>6, <2>7, <2>8, <2>9
<1> HIDE DEF amount
<1> QED
  BY <1>1, <1>3, <1>4, <1>5, EntryKeepsBalance

(* resource_manager.cpp:10-50: nothing is lost when a machine announces    *)
(* itself again, and nothing is given back twice.                          *)
THEOREM LedgerAlwaysBalances == AccountingSpec => []LedgerBalances
<1>1. AccountingInit => BalanceInv
  BY FS_EmptySet DEF AccountingInit, ResourceInit, EmptyTable, BalanceInv, LedgerBalances
<1>2. ASSUME LedgerInv, BalanceInv, [AccountingNext]_<<resourceVars, fairVars>>
      PROVE  BalanceInv'
  <2>1. CASE ResourceNext
    BY <1>2, <2>1, SetCapacityKeepsBalance, TakeKeepsBalance, GiveBackKeepsBalance
       DEF ResourceNext
  <2>2. CASE UNCHANGED resourceVars
    BY <1>2, <2>2 DEF resourceVars, BalanceInv, LedgerBalances, Granted, HeldOn
  <2> QED
    BY <1>2, <2>1, <2>2 DEF AccountingNext
<1>3. BalanceInv => LedgerBalances
  BY DEF BalanceInv
<1> QED
  BY <1>1, <1>2, <1>3, LedgerInvariant, PTL DEF AccountingSpec

-----------------------------------------------------------------------------
(* Without usage the effective priority is a hundredfold integer, and      *)
(* nearly equal means equal.                                               *)
LEMMA UnusedFactor ==
  ASSUME \A u \in Users : Usage(u) = 0, NEW a \in Job
  PROVE  a.priority \in Int /\ a.submitted_at \in Int /\ Effective(a) = a.priority * 100
<1>1. Priorities \subseteq Int /\ Submissions \subseteq Int
  BY FairShareAssumption, Zenon
<1>2. a.user \in Users /\ a.priority \in Int /\ a.submitted_at \in Int
  BY <1>1 DEF Job
<1>3. get_priority_factor(a.user) = 100
  BY <1>2 DEF get_priority_factor
<1> QED
  BY <1>2, <1>3 DEF Effective

LEMMA UnusedOrder ==
  ASSUME \A u \in Users : Usage(u) = 0, NEW a \in Job, NEW b \in Job
  PROVE  SortsBefore(a, b) <=>
           \/ a.priority > b.priority
           \/ a.priority = b.priority /\ a.submitted_at < b.submitted_at
BY UnusedFactor DEF SortsBefore, Near

(* std::sort may be given the comparator of schedule_pass                  *)
(* (scheduler_engine.cpp:50) while no usage is charged.                    *)
THEOREM ComparatorIsWeak == AccountingSpec => []OrderIsWeak
<1>1. ASSUME \A u \in Users : Usage(u) = 0 PROVE StrictWeakOrder
  <2>1. \A a, b \in Job :
          SortsBefore(a, b) <=>
            \/ a.priority > b.priority
            \/ a.priority = b.priority /\ a.submitted_at < b.submitted_at
    BY <1>1, UnusedOrder
  <2>2. \A a \in Job : a.priority \in Int /\ a.submitted_at \in Int
    BY <1>1, UnusedFactor
  <2> QED
    BY <2>1, <2>2 DEF StrictWeakOrder
<1>2. OrderIsWeak
  BY <1>1 DEF OrderIsWeak
<1> QED
  BY <1>2, PTL

-----------------------------------------------------------------------------
(* The usage.  Amounts are multiples of 2^MaxNow, so what is left of one   *)
(* after fewer than MaxNow halvings can be halved again without a rest,    *)
(* and halving the sum is halving what is left of every amount.            *)
Multiple == {m * 2^MaxNow : m \in Nat}

FairTyped ==
  /\ clock \in Times /\ last_decay_time \in Times
  /\ user_usage \in [DOMAIN user_usage -> Nat]
  /\ charged \in [Users -> [Times -> Multiple]]
  /\ \A u \in Users, t \in Times : t > last_decay_time => charged[u][t] = 0

FairInv == FairTyped /\ UsageIsAgedOnce

LEMMA TimesFinite ==
  IsFiniteSet(Times) /\ \A t \in Times : t \in Nat /\ t <= MaxNow
BY FairShareAssumption, FS_Interval DEF Times

LEMMA MultipleIsNat ==
  ASSUME NEW c \in Multiple
  PROVE  c \in Nat /\ \E m \in Nat : c = m * 2^MaxNow
<1>1. PICK m \in Nat : c = m * 2^MaxNow
  BY DEF Multiple
<1> QED
  BY <1>1, FairShareAssumption, PowerPositive

LEMMA MultipleSum ==
  ASSUME NEW c \in Multiple, NEW d \in Multiple
  PROVE  c + d \in Multiple
<1>1. PICK m \in Nat : c = m * 2^MaxNow
  BY DEF Multiple
<1>2. PICK n \in Nat : d = n * 2^MaxNow
  BY DEF Multiple
<1>3. \A p \in Nat : m * p + n * p = (m + n) * p
  OBVIOUS
<1>4. c + d = (m + n) * 2^MaxNow
  BY <1>1, <1>2, <1>3, FairShareAssumption, PowerPositive
<1> QED
  BY <1>4 DEF Multiple

LEMMA ChargesAreMultiples ==
  ASSUME NEW amount \in Charges
  PROVE  amount \in Multiple
BY FairShareAssumption DEF Multiple

(* What is left of an amount after a half lives.                           *)
LEMMA AgedExactly ==
  ASSUME NEW m \in Nat, NEW a \in Nat, a <= MaxNow
  PROVE  Aged(m * 2^MaxNow, a) = m * 2^(MaxNow - a)
<1> DEFINE p == 2^a
           q == m * 2^(MaxNow - a)
<1>1. MaxNow - a \in Nat /\ (MaxNow - a) + a = MaxNow
  BY FairShareAssumption
<1>2. p \in Nat \ {0} /\ 2^(MaxNow - a) \in Nat
  BY <1>1, PowerPositive
<1>3. 2^MaxNow = 2^(MaxNow - a) * p
  BY <1>1, PowerSum
<1> HIDE DEF p
<1>4. \A x \in Nat : m * (x * p) = (m * x) * p
  BY <1>2
<1>5. m * 2^MaxNow = q * p /\ q \in Nat
  BY <1>2, <1>3, <1>4
<1> HIDE DEF q
<1>6. (q * p) \div p = q
  BY <1>2, <1>5
<1> QED
  BY <1>5, <1>6 DEF Aged, p, q

LEMMA AgedFurther ==
  ASSUME NEW c \in Multiple, NEW a \in Nat, NEW k \in Nat, a + k <= MaxNow
  PROVE  Aged(c, a + k) \in Nat /\ Aged(c, a) = 2^k * Aged(c, a + k)
<1>1. PICK m \in Nat : c = m * 2^MaxNow
  BY DEF Multiple
<1> DEFINE r == MaxNow - (a + k)
<1>2. /\ r \in Nat /\ a + k \in Nat /\ MaxNow - a = k + r /\ a <= MaxNow
  BY FairShareAssumption
<1>3. Aged(c, a + k) = m * 2^r /\ Aged(c, a) = m * 2^(MaxNow - a)
  BY <1>1, <1>2, AgedExactly
<1> HIDE DEF r
<1>4. 2^(MaxNow - a) = 2^k * 2^r /\ 2^k \in Nat /\ 2^r \in Nat
  BY <1>2, PowerSum, PowerPositive
<1>5. \A x, y \in Nat : m * (x * y) = x * (m * y)
  OBVIOUS
<1> QED
  BY <1>3, <1>4, <1>5

LEMMA AgedNow ==
  ASSUME NEW c \in Multiple
  PROVE  Aged(c, 0) = c
<1>1. 2^0 = 1 /\ c \in Nat
  BY MultipleIsNat
<1> QED
  BY <1>1 DEF Aged

LEMMA AgedLess ==
  ASSUME NEW x \in Nat, NEW k \in Nat
  PROVE  Aged(x, k) \in Nat /\ Aged(x, k) <= x
<1>1. \A p \in Nat \ {0} : x \div p \in Nat /\ x \div p <= x
  OBVIOUS
<1> QED
  BY <1>1, PowerPositive DEF Aged

LEMMA LeftTyped ==
  ASSUME NEW c \in [Times -> Multiple], NEW s \in Times, NEW t \in Times,
         NEW left, left = IF t <= s THEN Aged(c[t], s - t) ELSE c[t]
  PROVE  /\ c[t] \in Multiple /\ c[t] \in Nat
         /\ left \in Nat /\ left <= c[t]
         /\ t = s => left = c[t]
<1>1. c[t] \in Multiple /\ c[t] \in Nat
  BY MultipleIsNat
<1>2. s \in Nat /\ t \in Nat
  BY TimesFinite
<1>3. t <= s => s - t \in Nat
  BY <1>2
<1>4. t = s => left = c[t]
  <2>1. s <= s /\ s - s = 0
    BY <1>2
  <2> QED
    BY <1>1, <2>1, AgedNow
<1> QED
  BY <1>1, <1>3, <1>4, AgedLess

LEMMA UsageIsNat ==
  ASSUME FairTyped, NEW u
  PROVE  Usage(u) \in Nat
BY DEF FairTyped, Usage

-----------------------------------------------------------------------------
LEMMA InitFairInv == FairShareInit => FairInv
<1> SUFFICES ASSUME FairShareInit PROVE FairInv
  OBVIOUS
<1>1. 0 \in Multiple
  <2>1. 0 = 0 * 2^MaxNow
    BY FairShareAssumption, PowerPositive
  <2> QED
    BY <2>1 DEF Multiple
<1>2. FairTyped
  BY <1>1 DEF FairShareInit, FairTyped
<1>3. ASSUME NEW u \in Users PROVE SumFunctionOnSet(LeftOf(u), Times) = 0
  <2>1. \A t \in Times : LeftOf(u)[t] = 0 * LeftOf(u)[t] /\ LeftOf(u)[t] \in Int
    <3>1. TAKE t \in Times
    <3>2. charged[u][t] = 0
      BY DEF FairShareInit
    <3>3. LeftOf(u)[t] \in Nat /\ LeftOf(u)[t] <= charged[u][t]
      BY <1>2, LeftTyped DEF LeftOf, FairTyped
    <3> QED
      BY <3>2, <3>3
  <2>2. SumFunctionOnSet(LeftOf(u), Times) = 0 * SumFunctionOnSet(LeftOf(u), Times)
    BY <2>1, TimesFinite, SumScale
  <2>3. SumFunctionOnSet(LeftOf(u), Times) \in Int
    BY <2>1, TimesFinite, SumInt
  <2> QED
    BY <2>2, <2>3
<1>4. \A u \in Users : Usage(u) = 0
  BY DEF FairShareInit, Usage
<1> QED
  BY <1>2, <1>3, <1>4 DEF FairInv, UsageIsAgedOnce

(* A charge is added to the usage and to the history of its user.          *)
LEMMA ChargeAdds ==
  ASSUME FairTyped, NEW u \in Users, NEW amount \in Charges, add_usage(u, amount)
  PROVE  /\ FairTyped' /\ Usage(u)' = Usage(u) + amount /\ amount \in Nat
         /\ \A v \in Users \ {u} : Usage(v)' = Usage(v) /\ charged'[v] = charged[v]
         /\ \A t \in Times \ {last_decay_time} : charged'[u][t] = charged[u][t]
         /\ charged'[u][last_decay_time] = charged[u][last_decay_time] + amount
         /\ last_decay_time' = last_decay_time
<1>1. amount \in Multiple /\ amount \in Nat
  BY ChargesAreMultiples, MultipleIsNat
<1>2. last_decay_time \in Times /\ charged[u] \in [Times -> Multiple]
      /\ UNCHANGED <<clock, last_decay_time>>
  BY DEF FairTyped, add_usage
<1>3. /\ charged' = [charged EXCEPT ![u] =
                       [charged[u] EXCEPT ![last_decay_time] = @ + amount]]
      /\ \A v \in Users \ {u} : charged'[v] = charged[v]
      /\ charged'[u] = [charged[u] EXCEPT ![last_decay_time] = @ + amount]
  BY DEF FairTyped, add_usage
<1>4. /\ \A t \in Times \ {last_decay_time} : charged'[u][t] = charged[u][t]
      /\ charged'[u][last_decay_time] = charged[u][last_decay_time] + amount
      /\ charged'[u] \in [Times -> Multiple]
  BY <1>1, <1>2, <1>3, MultipleSum
<1>5. charged' \in [Users -> [Times -> Multiple]]
  BY <1>3, <1>4 DEF FairTyped
<1>6. /\ user_usage' \in [DOMAIN user_usage' -> Nat]
      /\ Usage(u)' = Usage(u) + amount
      /\ \A v : v # u => Usage(v)' = Usage(v)
  BY <1>1, UsageIsNat DEF FairTyped, add_usage, Usage
<1>7. \A v \in Users, t \in Times : t > last_decay_time => charged'[v][t] = 0
  BY <1>2, <1>3, <1>4, TimesFinite DEF FairTyped
<1> QED
  BY <1>1, <1>2, <1>3, <1>4, <1>5, <1>6, <1>7 DEF FairTyped

LEMMA ChargeKeepsInv ==
  ASSUME FairInv, NEW u \in Users, NEW amount \in Charges, add_usage(u, amount)
  PROVE  FairInv'
<1>1. /\ FairTyped /\ FairTyped' /\ last_decay_time \in Times
      /\ amount \in Nat /\ Usage(u)' = Usage(u) + amount
      /\ last_decay_time' = last_decay_time
      /\ \A v \in Users \ {u} : Usage(v)' = Usage(v) /\ charged'[v] = charged[v]
      /\ \A t \in Times \ {last_decay_time} : charged'[u][t] = charged[u][t]
      /\ charged'[u][last_decay_time] = charged[u][last_decay_time] + amount
  BY ChargeAdds DEF FairInv, FairTyped
<1>2. \A v \in Users \ {u} : LeftOf(v)' = LeftOf(v)
  BY <1>1 DEF LeftOf
<1>3. SumFunctionOnSet(LeftOf(u)', Times) = SumFunctionOnSet(LeftOf(u), Times) + amount
  <2> DEFINE f == LeftOf(u)
             e == LeftOf(u)'
             s == last_decay_time
  <2>1. /\ charged[u] \in [Times -> Multiple] /\ charged'[u] \in [Times -> Multiple]
        /\ s \in Times /\ s' = s
    BY <1>1 DEF FairTyped
  <2>2. /\ \A t \in Times : f[t] = IF t <= s THEN Aged(charged[u][t], s - t) ELSE charged[u][t]
        /\ \A t \in Times : e[t] = IF t <= s THEN Aged(charged'[u][t], s - t) ELSE charged'[u][t]
    BY <2>1 DEF LeftOf
  <2>3. /\ \A t \in Times : f[t] \in Int /\ e[t] \in Int
        /\ f[s] = charged[u][s] /\ e[s] = charged'[u][s] /\ charged[u][s] \in Nat
    <3> HIDE DEF f, e, s
    <3> QED
      BY <2>1, <2>2, LeftTyped
  <2>4. \A t \in Times \ {s} : f[t] = e[t]
    BY <1>1 DEF LeftOf
  <2> HIDE DEF f, e, s
  <2>5. SumFunctionOnSet(e, Times) = SumFunctionOnSet(f, Times) + e[s] - f[s]
    <3>1. IsFiniteSet(Times) /\ s \in Times
      BY <2>1, TimesFinite
    <3>2. \A t \in Times : f[t] \in Int /\ e[t] \in Int
      BY <2>3
    <3> QED
      BY <2>4, <3>1, <3>2, SumChange
  <2>6. SumFunctionOnSet(f, Times) \in Int
    BY <2>3, TimesFinite, SumInt
  <2>7. e[s] = f[s] + amount
    BY <1>1, <2>3 DEF s
  <2>8. SumFunctionOnSet(e, Times) = SumFunctionOnSet(f, Times) + amount
    BY <1>1, <2>3, <2>5, <2>6, <2>7
  <2> QED
    BY <2>8 DEF f, e
<1>4. UsageIsAgedOnce'
  BY <1>1, <1>2, <1>3 DEF FairInv, UsageIsAgedOnce
<1> QED
  BY <1>1, <1>4 DEF FairInv

(* A pass halves what is left of every amount as often.                    *)
LEMMA DecayKeepsInv ==
  ASSUME FairInv, apply_decay
  PROVE  FairInv' /\ \A u \in Users : Usage(u)' \in Nat /\ Usage(u)' <= Usage(u)
<1> DEFINE k == clock - last_decay_time
<1>1. /\ FairTyped /\ clock \in Times /\ last_decay_time \in Times
      /\ clock > last_decay_time /\ last_decay_time' = clock
      /\ UNCHANGED <<clock, charged>>
      /\ user_usage' = [u \in DOMAIN user_usage |-> Aged(user_usage[u], k)]
  BY DEF FairInv, FairTyped, apply_decay
<1>2. clock \in Nat /\ last_decay_time \in Nat /\ k \in Nat /\ clock = last_decay_time + k
  BY <1>1, TimesFinite
<1>3. 2^k \in Nat \ {0}
  BY <1>2, PowerPositive
<1>4. \A u : Usage(u)' = Aged(Usage(u), k) /\ Usage(u) \in Nat
  <2>1. Aged(0, k) = 0
    <3>1. \A p \in Nat \ {0} : 0 \div p = 0
      OBVIOUS
    <3> QED
      BY <1>2, <1>3, <3>1 DEF Aged
  <2> HIDE DEF k
  <2> QED
    BY <1>1, <2>1, UsageIsNat DEF Usage
<1>5. FairTyped'
  <2>1. \A u \in DOMAIN user_usage : Aged(user_usage[u], k) \in Nat
    BY <1>1, <1>2, AgedLess DEF FairTyped
  <2>2. user_usage' \in [DOMAIN user_usage' -> Nat]
    BY <1>1, <2>1
  <2>3. \A u \in Users, t \in Times : t > clock => charged[u][t] = 0
    BY <1>1, <1>2, TimesFinite DEF FairTyped
  <2> QED
    BY <1>1, <2>2, <2>3 DEF FairTyped
<1>6. ASSUME NEW u \in Users
      PROVE  Aged(Usage(u), k) = SumFunctionOnSet(LeftOf(u)', Times)
  <2> DEFINE f == LeftOf(u)
             e == LeftOf(u)'
             p == 2^k
  <2>1. /\ charged[u] \in [Times -> Multiple]
        /\ \A t \in Times : t > last_decay_time => charged[u][t] = 0
    BY <1>1 DEF FairTyped
  <2>2. ASSUME NEW t \in Times PROVE e[t] \in Nat /\ f[t] = p * e[t]
    <3>1. f[t] = IF t <= last_decay_time
                 THEN Aged(charged[u][t], last_decay_time - t) ELSE charged[u][t]
      BY DEF LeftOf
    <3>2. e[t] = IF t <= clock THEN Aged(charged[u][t], clock - t) ELSE charged[u][t]
      BY <1>1 DEF LeftOf
    <3> HIDE DEF f, e, k
    <3>3. CASE t <= last_decay_time
      <4> DEFINE a == last_decay_time - t
      <4>1. /\ a \in Nat /\ clock - t = a + k /\ a + k <= MaxNow /\ t <= clock
        <5>1. t \in Nat /\ clock <= MaxNow /\ MaxNow \in Nat
          BY <1>1, TimesFinite, FairShareAssumption
        <5> QED
          BY <1>2, <3>3, <5>1 DEF k
      <4>2. f[t] = Aged(charged[u][t], a) /\ e[t] = Aged(charged[u][t], a + k)
        BY <3>1, <3>2, <3>3, <4>1
      <4> HIDE DEF a
      <4> QED
        BY <1>2, <2>1, <4>1, <4>2, AgedFurther
    <3>4. CASE ~(t <= last_decay_time)
      <4>1. charged[u][t] = 0
        BY <1>2, <2>1, <3>4, TimesFinite
      <4>2. e[t] \in Nat /\ e[t] <= charged[u][t]
        BY <1>1, <2>1, <3>2, LeftTyped
      <4>3. f[t] = 0 /\ e[t] = 0 /\ p * 0 = 0
        BY <1>3, <3>1, <3>4, <4>1, <4>2
      <4> QED
        BY <4>3
    <3> QED
      BY <3>3, <3>4
  <2> HIDE DEF f, e
  <2>3. SumFunctionOnSet(f, Times) = p * SumFunctionOnSet(e, Times)
    <3>1. \A t \in Times : e[t] \in Int /\ f[t] = p * e[t]
      BY <2>2
    <3>2. p \in Int
      BY <1>3
    <3> HIDE DEF p
    <3> QED
      BY <3>1, <3>2, TimesFinite, SumScale
  <2>4. SumFunctionOnSet(e, Times) \in Nat
    BY <2>2, TimesFinite, SumNat
  <2>5. Usage(u) = SumFunctionOnSet(f, Times)
    BY DEF FairInv, UsageIsAgedOnce, f
  <2>6. Aged(Usage(u), k) = Usage(u) \div p
    BY <1>2 DEF Aged
  <2>7. \A q \in Nat, r \in Nat \ {0} : (r * q) \div r = q
    OBVIOUS
  <2> HIDE DEF p
  <2>8. p \in Nat \ {0}
    BY <1>3 DEF p
  <2>9. Aged(Usage(u), k) = SumFunctionOnSet(e, Times)
    BY <2>3, <2>4, <2>5, <2>6, <2>7, <2>8
  <2> QED
    BY <2>9 DEF e
<1>7. UsageIsAgedOnce'
  BY <1>4, <1>6 DEF UsageIsAgedOnce
<1>8. \A u \in Users : Usage(u)' \in Nat /\ Usage(u)' <= Usage(u)
  BY <1>2, <1>4, AgedLess
<1> QED
  BY <1>1, <1>5, <1>7, <1>8 DEF FairInv

LEMMA FairStandsStill ==
  ASSUME FairInv, UNCHANGED <<user_usage, last_decay_time, charged>>, clock' \in Times
  PROVE  FairInv'
BY DEF FairInv, FairTyped, UsageIsAgedOnce, Usage, LeftOf

LEMMA NextKeepsFairInv ==
  ASSUME FairInv, [AccountingNext]_<<resourceVars, fairVars>>
  PROVE  FairInv'
<1>1. CASE \E u \in Users, amount \in Charges : add_usage(u, amount)
  BY <1>1, ChargeKeepsInv
<1>2. CASE apply_decay
  BY <1>2, DecayKeepsInv
<1>3. CASE UNCHANGED <<user_usage, last_decay_time, charged>> /\ clock' \in Times
  BY <1>3, FairStandsStill
<1>4. clock \in Times
  BY DEF FairInv, FairTyped
<1> QED
  BY <1>1, <1>2, <1>3, <1>4 DEF AccountingNext, FairShareNext, ClockIsSet, fairVars

THEOREM FairInvariant == AccountingSpec => []FairInv
<1>1. AccountingInit => FairInv
  BY InitFairInv DEF AccountingInit
<1> QED
  BY <1>1, NextKeepsFairInv, PTL DEF AccountingSpec

(* fair_share.cpp:17-33: whatever the clock does, no interval is taken     *)
(* twice from an amount, and none is left out.                             *)
THEOREM UsageAlwaysAgedOnce == AccountingSpec => []UsageIsAgedOnce
<1>1. FairInv => UsageIsAgedOnce
  BY DEF FairInv
<1> QED
  BY <1>1, FairInvariant, PTL

(* fair_share.cpp:22: a pass that finds the clock set back adds nothing.   *)
THEOREM UsageGrowsByCharges == AccountingSpec => GrowsByCharges
<1> DEFINE Grows == \A u \in Users :
                      Usage(u)' > Usage(u) =>
                        Usage(u)' - Usage(u) <= TotalCharged(u)' - TotalCharged(u)
<1>1. ASSUME FairInv, [AccountingNext]_<<resourceVars, fairVars>>
      PROVE  [Grows]_fairVars
  <2>1. \A u : Usage(u) \in Nat
    BY <1>1, UsageIsNat DEF FairInv
  <2>2. CASE \E u \in Users, amount \in Charges : add_usage(u, amount)
    <3>1. PICK u \in Users, amount \in Charges : add_usage(u, amount)
      BY <2>2
    <3> DEFINE s == last_decay_time
    <3>2. /\ Usage(u)' = Usage(u) + amount /\ amount \in Nat
          /\ s \in Times /\ charged[u] \in [Times -> Multiple]
          /\ charged'[u] \in [Times -> Multiple]
          /\ \A t \in Times \ {s} : charged'[u][t] = charged[u][t]
          /\ charged'[u][s] = charged[u][s] + amount
          /\ \A v \in Users \ {u} : Usage(v)' = Usage(v)
      BY <1>1, <3>1, ChargeAdds DEF FairInv, FairTyped
    <3> HIDE DEF s
    <3>3. \A t \in Times : charged[u][t] \in Int /\ charged'[u][t] \in Int
      BY <3>2, MultipleIsNat
    <3>4. TotalCharged(u)' = TotalCharged(u) + charged'[u][s] - charged[u][s]
      <4>1. PICK f, e : f = charged[u] /\ e = charged'[u]
        OBVIOUS
      <4>2. /\ IsFiniteSet(Times) /\ s \in Times
            /\ \A t \in Times : f[t] \in Int /\ e[t] \in Int
            /\ \A t \in Times \ {s} : f[t] = e[t]
        BY <3>2, <3>3, <4>1, TimesFinite
      <4>3. SumFunctionOnSet(e, Times) = SumFunctionOnSet(f, Times) + e[s] - f[s]
        BY <4>2, SumChange
      <4> QED
        BY <4>1, <4>3 DEF TotalCharged
    <3>5. TotalCharged(u) \in Int
      BY <3>3, TimesFinite, SumInt DEF TotalCharged
    <3>6. TotalCharged(u)' = TotalCharged(u) + amount
      BY <3>2, <3>3, <3>4, <3>5
    <3>7. \A v \in Users \ {u} : ~(Usage(v)' > Usage(v))
      BY <2>1, <3>2
    <3>8. Usage(u)' - Usage(u) = TotalCharged(u)' - TotalCharged(u)
          /\ Usage(u)' - Usage(u) \in Int
      BY <2>1, <3>2, <3>5, <3>6
    <3> QED
      BY <3>7, <3>8
  <2>3. CASE apply_decay
    <3>1. \A u \in Users : Usage(u)' <= Usage(u) /\ Usage(u)' \in Nat
      BY <1>1, <2>3, DecayKeepsInv
    <3> QED
      BY <2>1, <3>1
  <2>4. CASE UNCHANGED user_usage
    <3>1. \A u : Usage(u)' = Usage(u)
      BY <2>4 DEF Usage
    <3> QED
      BY <2>1, <3>1
  <2> QED
    BY <1>1, <2>2, <2>3, <2>4 DEF AccountingNext, FairShareNext, ClockIsSet, fairVars
<1> QED
  BY <1>1, FairInvariant, PTL DEF AccountingSpec, GrowsByCharges
=============================================================================
