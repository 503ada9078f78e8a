------------------------- MODULE QuotaPolicyProofs -------------------------
(***************************************************************************)
(* Facts about the arithmetic of QuotaPolicy, for every amount and ratio.  *)
(***************************************************************************)
EXTENDS QuotaPolicy, FiniteSetTheorems, TLAPS

(***************************************************************************)
(* Sums                                                                    *)
(***************************************************************************)

\* The units of a finite function into Nat are finitely many, so a sum is a
\* natural number (NodesCpuAllocatable, PodsCpuRequest, totalResourceQuota).
LEMMA UnitsFinite ==
    ASSUME NEW S, IsFiniteSet(S), NEW f \in [S -> Nat]
    PROVE  IsFiniteSet(Units(f)) /\ SumOf(f) \in Nat
<1> DEFINE part(x) == {x} \X (1 .. f[x])
           parts == {part(x) : x \in S}
           pick == [x \in S |-> part(x)]
<1>1. IsFiniteSet(parts)
  <2>1. pick \in Surjection(S, parts)
    BY DEF Surjection
  <2> QED BY <2>1, FS_Surjection
<1>2. ASSUME NEW p \in parts PROVE IsFiniteSet(p)
  <2>1. PICK x \in S : p = part(x)
    OBVIOUS
  <2>2. IsFiniteSet({x})
    BY FS_Singleton
  <2>3. 1 \in Int /\ f[x] \in Int
    OBVIOUS
  <2>4. IsFiniteSet(1 .. f[x])
    BY <2>3, FS_Interval
  <2> QED BY <2>1, <2>2, <2>4, FS_Product
<1>3. IsFiniteSet(UNION parts)
  BY <1>1, <1>2, FS_UNION
<1>4. Units(f) = UNION parts
  BY DEF Units
<1> QED BY <1>3, <1>4, FS_CardinalityType DEF SumOf

\* Summing over more things, or over larger ones, gives no less.
LEMMA SumMonotone ==
    ASSUME NEW T, IsFiniteSet(T), NEW S \in SUBSET T,
           NEW f \in [S -> Nat], NEW g \in [T -> Nat],
           \A x \in S : f[x] <= g[x]
    PROVE  SumOf(f) <= SumOf(g)
<1>1. Units(f) \subseteq Units(g)
  BY DEF Units
<1> QED BY <1>1, UnitsFinite, FS_Subset DEF SumOf

LEMMA TotalType ==
    ASSUME NEW S, IsFiniteSet(S), NEW f \in [S -> NatAmount]
    PROVE  Total(f) \in NatAmount
<1>1. ASSUME NEW r \in Resource PROVE SumOf([x \in S |-> f[x][r]]) \in Nat
  <2>1. [x \in S |-> f[x][r]] \in [S -> Nat]
    BY DEF NatAmount
  <2> QED BY <2>1, UnitsFinite
<1> QED BY <1>1 DEF Total, NatAmount

LEMMA TotalMonotone ==
    ASSUME NEW T, IsFiniteSet(T), NEW S \in SUBSET T,
           NEW f \in [S -> NatAmount], NEW g \in [T -> NatAmount],
           \A x \in S : Covers(g[x], f[x])
    PROVE  Covers(Total(g), Total(f))
<1> SUFFICES ASSUME NEW r \in Resource
             PROVE  SumOf([x \in S |-> f[x][r]]) <= SumOf([x \in T |-> g[x][r]])
  BY DEF Covers, Total
<1>1. /\ [x \in S |-> f[x][r]] \in [S -> Nat]
      /\ [x \in T |-> g[x][r]] \in [T -> Nat]
  BY DEF NatAmount
<1>2. \A x \in S : f[x][r] <= g[x][r]
  BY DEF Covers
<1> QED BY <1>1, <1>2, SumMonotone

\* One term may be taken out of a sum.
LEMMA SumSplit ==
    ASSUME NEW S, IsFiniteSet(S), NEW x \in S, NEW f \in [S -> Nat]
    PROVE  SumOf(f) = SumOf([y \in S \ {x} |-> f[y]]) + f[x]
<1> DEFINE rest == [y \in S \ {x} |-> f[y]]
           own == {x} \X (1 .. f[x])
<1>1. Units(f) = Units(rest) \cup own /\ Units(rest) \cap own = {}
  BY DEF Units
<1>2. IsFiniteSet(Units(rest)) /\ SumOf(rest) \in Nat
  <2>1. IsFiniteSet(S \ {x}) /\ rest \in [S \ {x} -> Nat]
    BY FS_Subset
  <2> HIDE DEF rest
  <2> QED BY <2>1, UnitsFinite
<1>3. IsFiniteSet(own) /\ Cardinality(own) = f[x]
  <2>1. IsFiniteSet({x}) /\ Cardinality({x}) = 1
    BY FS_Singleton
  <2>2. 1 \in Int /\ f[x] \in Int /\ f[x] \in Nat
    OBVIOUS
  <2>3. IsFiniteSet(1 .. f[x]) /\ Cardinality(1 .. f[x]) = f[x]
    BY <2>2, FS_Interval
  <2>4. /\ IsFiniteSet(own)
        /\ Cardinality(own) = Cardinality({x}) * Cardinality(1 .. f[x])
    BY <2>1, <2>3, FS_Product, Zenon
  <2>5. 1 * f[x] = f[x]
    BY <2>2
  <2> QED BY <2>1, <2>3, <2>4, <2>5, Zenon
<1> HIDE DEF rest, own
<1>4. Cardinality(Units(f)) = Cardinality(Units(rest)) + Cardinality(own) - Cardinality({})
  BY <1>1, <1>2, <1>3, FS_Union
<1>5. Cardinality({}) = 0
  BY FS_EmptySet
<1>6. f[x] \in Nat
  OBVIOUS
<1> QED BY <1>2, <1>3, <1>4, <1>5, <1>6 DEF SumOf, rest

LEMMA TotalSplit ==
    ASSUME NEW S, IsFiniteSet(S), NEW x \in S, NEW f \in [S -> NatAmount]
    PROVE  \A r \in Resource : Total(f)[r] = Total([y \in S \ {x} |-> f[y]])[r] + f[x][r]
<1> DEFINE rest == [y \in S \ {x} |-> f[y]]
<1> SUFFICES ASSUME NEW r \in Resource PROVE Total(f)[r] = Total(rest)[r] + f[x][r]
  OBVIOUS
<1> DEFINE g == [y \in S |-> f[y][r]]
<1>1. g \in [S -> Nat]
  BY DEF NatAmount
<1>2. SumOf(g) = SumOf([y \in S \ {x} |-> g[y]]) + g[x]
  BY <1>1, SumSplit
<1>3. [y \in S \ {x} |-> g[y]] = [y \in DOMAIN rest |-> rest[y][r]]
  OBVIOUS
<1>4. Total(f)[r] = SumOf(g) /\ Total(rest)[r] = SumOf([y \in DOMAIN rest |-> rest[y][r]])
  BY DEF Total
<1> QED BY <1>2, <1>3, <1>4

(***************************************************************************)
(* Ratios                                                                  *)
(***************************************************************************)

\* Quotients grow with what is divided.
LEMMA DivMonotone ==
    ASSUME NEW m \in Nat, NEW n \in Nat, NEW d \in Nat \ {0}, m <= n
    PROVE  m \div d \in Nat /\ n \div d \in Nat /\ m \div d <= n \div d
<1> DEFINE p == m \div d
           q == n \div d
<1>1. p \in Int /\ q \in Int
  OBVIOUS
<1>2. m = d * p + (m % d) /\ m % d \in 0 .. (d - 1)
  OBVIOUS
<1>3. n = d * q + (n % d) /\ n % d \in 0 .. (d - 1)
  OBVIOUS
<1>4. d * p <= d * q + d - 1
  BY <1>1, <1>2, <1>3
<1>5. p <= q
  <2>1. SUFFICES ASSUME p >= q + 1 PROVE FALSE
    BY <1>1
  <2>2. d * p >= d * (q + 1)
    BY <1>1, <2>1
  <2> QED BY <1>1, <1>4, <2>2
<1>6. p >= 0 /\ q >= 0
  OBVIOUS
<1> QED BY <1>1, <1>5, <1>6

\* A rounded share of more is not less (math.Round in applyOverProvisioning
\* and checkAllocationLimit).
LEMMA ScaleMonotone ==
    ASSUME NEW v \in Nat, NEW w \in Nat, NEW ratio \in Ratio, v <= w
    PROVE  /\ Scale(v, ratio) \in Nat
           /\ Scale(w, ratio) \in Nat
           /\ Scale(v, ratio) <= Scale(w, ratio)
<1>1. ratio.num \in Nat /\ ratio.den \in Nat \ {0}
  BY DEF Ratio
<1> DEFINE m == 2 * v * ratio.num + ratio.den
           n == 2 * w * ratio.num + ratio.den
<1>2. v * ratio.num <= w * ratio.num
  BY <1>1
<1>3. m \in Nat /\ n \in Nat /\ m <= n
  BY <1>1, <1>2
<1>4. 2 * ratio.den \in Nat \ {0}
  BY <1>1
<1> QED BY <1>3, <1>4, DivMonotone DEF Scale

LEMMA LimitMonotone ==
    ASSUME NEW small \in NatAmount, NEW big \in NatAmount, Covers(big, small)
    PROVE  /\ allocationLimit(small) \in NatAmount
           /\ allocationLimit(big) \in NatAmount
           /\ Covers(allocationLimit(big), allocationLimit(small))
<1>1. ASSUME NEW r \in Resource
      PROVE  /\ Scale(small[r], RatioMaxAllocation[r]) \in Nat
             /\ Scale(big[r], RatioMaxAllocation[r]) \in Nat
             /\ Scale(small[r], RatioMaxAllocation[r]) <= Scale(big[r], RatioMaxAllocation[r])
  <2>1. small[r] \in Nat /\ big[r] \in Nat /\ small[r] <= big[r]
    BY DEF NatAmount, Covers
  <2>2. RatioMaxAllocation[r] \in Ratio
    BY RatioAssumption
  <2> QED BY <2>1, <2>2, ScaleMonotone
<1> QED BY <1>1 DEF allocationLimit, NatAmount, Covers

LEMMA OverProvisioningMonotone ==
    ASSUME NEW small \in NatAmount, NEW big \in NatAmount, Covers(big, small)
    PROVE  /\ applyOverProvisioning(small) \in NatAmount
           /\ applyOverProvisioning(big) \in NatAmount
           /\ Covers(applyOverProvisioning(big), applyOverProvisioning(small))
<1>1. ASSUME NEW r \in Resource
      PROVE  /\ Scale(small[r], RatioOverCommit[r]) \in Nat
             /\ Scale(big[r], RatioOverCommit[r]) \in Nat
             /\ Scale(small[r], RatioOverCommit[r]) <= Scale(big[r], RatioOverCommit[r])
  <2>1. small[r] \in Nat /\ big[r] \in Nat /\ small[r] <= big[r]
    BY DEF NatAmount, Covers
  <2>2. RatioOverCommit[r] \in Ratio
    BY RatioAssumption
  <2> QED BY <2>1, <2>2, ScaleMonotone
<1> QED BY <1>1 DEF applyOverProvisioning, NatAmount, Covers

(***************************************************************************)
(* What the checks let through                                             *)
(***************************************************************************)

\* Whatever the nodes report, what they offer is at most what they all hold.
LEMMA CapacityBounded ==
    ASSUME NEW N, IsFiniteSet(N), NEW states \in [N -> NodeState],
           NEW capacity \in [N -> NatAmount]
    PROVE  /\ nodesTotalCapacity(states, capacity) \in NatAmount
           /\ Total(capacity) \in NatAmount
           /\ Covers(Total(capacity), nodesTotalCapacity(states, capacity))
<1> DEFINE S == FilterNodesWithPredicate(states)
           f == [n \in S |-> capacity[n]]
<1>1. S \in SUBSET N
  BY DEF FilterNodesWithPredicate
<1>2. IsFiniteSet(S) /\ f \in [S -> NatAmount]
  BY <1>1, FS_Subset
<1>3. \A x \in S : Covers(capacity[x], f[x])
  BY <1>1 DEF Covers, NatAmount
<1>4. nodesTotalCapacity(states, capacity) = Total(f)
  BY DEF nodesTotalCapacity
<1> QED BY <1>1, <1>2, <1>3, <1>4, TotalType, TotalMonotone

\* A message that says something is a message and is not the empty one.
LEMMA MessageSaysSomething ==
    ASSUME NEW kind \in {"MemoryAllocationLimit", "CpuAllocationLimit", "RejectedMemory",
                         "RejectedCPU", "PendingMemoryDownscale", "PendingCpuDownscale"},
           NEW claimed \in Int, NEW n \in Nat, NEW message, message = <<kind, claimed, n>>
    PROVE  message \in Message /\ message # EmptyMsg
BY DEF Message, EmptyMsg

LEMMA EmptyMessage == EmptyMsg \in Message
<1> DEFINE kinds == {"", "MemoryAllocationLimit", "CpuAllocationLimit", "RejectedMemory",
                     "RejectedCPU", "PendingMemoryDownscale", "PendingCpuDownscale"}
<1>1. "" \in kinds /\ 0 \in Int /\ 0 \in Nat
  OBVIOUS
<1> HIDE DEF kinds
<1>2. <<"", 0, 0>> \in kinds \X Int \X Nat
  BY <1>1
<1> QED BY <1>2 DEF kinds, Message, EmptyMsg

\* A claim the limit check lets through is within the limit, and every message
\* quotes a natural number.
LEMMA AllocationLimitCheck ==
    ASSUME NEW spec \in Amount, NEW available \in NatAmount
    PROVE  /\ checkAllocationLimit(spec, available) \in Message
           /\ checkAllocationLimit(spec, available) = EmptyMsg
                => Covers(allocationLimit(available), spec)
<1> DEFINE limit == allocationLimit(available)
           result == checkAllocationLimit(spec, available)
<1>1. limit \in NatAmount
  BY LimitMonotone DEF Covers, NatAmount
<1>2. Resource = {"cpu", "memory"}
  BY DEF Resource
<1>3. /\ limit["cpu"] \in Nat /\ limit["memory"] \in Nat
      /\ spec["cpu"] \in Int /\ spec["memory"] \in Int
  BY <1>1, <1>2 DEF NatAmount, Amount
<1>4. CASE spec["memory"] > limit["memory"]
  <2>1. result = <<"MemoryAllocationLimit", spec["memory"], limit["memory"]>>
    BY <1>4 DEF checkAllocationLimit
  <2> QED BY <2>1, <1>3, MessageSaysSomething
<1>5. CASE spec["memory"] <= limit["memory"] /\ spec["cpu"] > limit["cpu"]
  <2>1. result = <<"CpuAllocationLimit", spec["cpu"], limit["cpu"]>>
    BY <1>3, <1>5 DEF checkAllocationLimit
  <2> QED BY <2>1, <1>3, MessageSaysSomething
<1>6. CASE spec["memory"] <= limit["memory"] /\ spec["cpu"] <= limit["cpu"]
  <2>1. result = EmptyMsg
    BY <1>3, <1>6 DEF checkAllocationLimit
  <2>2. Covers(limit, spec)
    BY <1>2, <1>6 DEF Covers
  <2> QED BY <2>1, <2>2, EmptyMessage
<1> QED BY <1>3, <1>4, <1>5, <1>6

\* The free amount and the difference are clamped at zero, so the message of a
\* claim that does not fit quotes a natural number; a claim that fits leaves the
\* over-committed cluster strictly more than what is reserved beside it.
LEMMA ResourceFitCheck ==
    ASSUME NEW spec \in NatAmount, NEW available \in NatAmount, NEW reserved \in NatAmount,
           checkResourceFit(spec, available, reserved) = EmptyMsg
    PROVE  \A r \in Resource : reserved[r] + spec[r] < applyOverProvisioning(available)[r]
<1> DEFINE over == applyOverProvisioning(available)
           free == SubtractWithNonNegativeResult(over, reserved)
           diff == SubtractWithNonNegativeResult(free, spec)
<1>1. over \in NatAmount
  BY OverProvisioningMonotone DEF Covers, NatAmount
<1>2. diff["memory"] # 0 /\ diff["cpu"] # 0
  BY DEF checkResourceFit, EmptyMsg
<1> SUFFICES ASSUME NEW r \in Resource PROVE reserved[r] + spec[r] < over[r]
  OBVIOUS
<1>3. diff[r] # 0
  BY <1>2 DEF Resource
<1>4. over[r] \in Nat /\ reserved[r] \in Nat /\ spec[r] \in Nat
  BY <1>1 DEF NatAmount
<1>5. free[r] = IF over[r] > reserved[r] THEN over[r] - reserved[r] ELSE 0
  BY DEF SubtractWithNonNegativeResult
<1>6. diff[r] = IF free[r] > spec[r] THEN free[r] - spec[r] ELSE 0
  BY DEF SubtractWithNonNegativeResult
<1> QED BY <1>3, <1>4, <1>5, <1>6

LEMMA ResourceFitType ==
    ASSUME NEW spec \in Amount, NEW available \in NatAmount, NEW reserved \in NatAmount
    PROVE  checkResourceFit(spec, available, reserved) \in Message
<1> DEFINE over == applyOverProvisioning(available)
           free == SubtractWithNonNegativeResult(over, reserved)
           diff == SubtractWithNonNegativeResult(free, spec)
           result == checkResourceFit(spec, available, reserved)
<1>1. over \in NatAmount
  BY OverProvisioningMonotone DEF Covers, NatAmount
<1>2. \A r \in Resource : free[r] \in Nat
  BY <1>1 DEF SubtractWithNonNegativeResult, NatAmount
<1>3. /\ free["memory"] \in Nat /\ free["cpu"] \in Nat
      /\ spec["memory"] \in Int /\ spec["cpu"] \in Int
  BY <1>2 DEF Resource, Amount
<1>4. \/ result = <<"RejectedMemory", spec["memory"], free["memory"]>>
      \/ result = <<"RejectedCPU", spec["cpu"], free["cpu"]>>
      \/ result = EmptyMsg
  BY DEF checkResourceFit
<1> QED BY <1>3, <1>4, MessageSaysSomething, EmptyMessage

LEMMA DownscaleType ==
    ASSUME NEW spec \in Amount, NEW total \in NatAmount
    PROVE  canDownscaleQuota(spec, total) \in Message
<1>1. /\ total["memory"] \in Nat /\ total["cpu"] \in Nat
      /\ spec["memory"] \in Int /\ spec["cpu"] \in Int
  BY DEF NatAmount, Amount, Resource
<1>2. \/ canDownscaleQuota(spec, total) = <<"PendingMemoryDownscale", spec["memory"], total["memory"]>>
      \/ canDownscaleQuota(spec, total) = <<"PendingCpuDownscale", spec["cpu"], total["cpu"]>>
      \/ canDownscaleQuota(spec, total) = EmptyMsg
  BY DEF canDownscaleQuota
<1> QED BY <1>1, <1>2, MessageSaysSomething, EmptyMessage

\* A claim that may shrink the quota covers what is requested.
LEMMA DownscaleCheck ==
    ASSUME NEW spec \in Amount, NEW total \in NatAmount,
           canDownscaleQuota(spec, total) = EmptyMsg
    PROVE  Covers(spec, total)
<1>1. /\ total["memory"] \in Nat /\ total["cpu"] \in Nat
      /\ spec["memory"] \in Int /\ spec["cpu"] \in Int
  BY DEF NatAmount, Amount, Resource
<1>2. ~(total["memory"] > spec["memory"])
  <2> SUFFICES ASSUME total["memory"] > spec["memory"] PROVE FALSE
    OBVIOUS
  <2>1. canDownscaleQuota(spec, total) = <<"PendingMemoryDownscale", spec["memory"], total["memory"]>>
    BY DEF canDownscaleQuota
  <2> QED BY <1>1, <2>1, MessageSaysSomething
<1>3. ~(total["cpu"] > spec["cpu"])
  <2> SUFFICES ASSUME total["cpu"] > spec["cpu"] PROVE FALSE
    OBVIOUS
  <2>1. canDownscaleQuota(spec, total) = <<"PendingCpuDownscale", spec["cpu"], total["cpu"]>>
    BY <1>2 DEF canDownscaleQuota
  <2> QED BY <1>1, <2>1, MessageSaysSomething
<1> QED BY <1>1, <1>2, <1>3 DEF Covers, Resource
=============================================================================
