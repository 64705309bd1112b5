-------------------------- MODULE Capacity_proofs --------------------------
(* Proofs about Capacity: the thresholds of the backend and of the agent    *)
(* agree, for any machines, any hardware and any requests.                  *)
EXTENDS Capacity, FiniteSetTheorems, TLAPS

-----------------------------------------------------------------------------
(* The larger and the smaller of two numbers.                               *)

LEMMA MaxOfTwo ==
    ASSUME NEW a \in Int, NEW b \in Int
    PROVE  Max({a, b}) = IF a >= b THEN a ELSE b
<1>. DEFINE m == IF a >= b THEN a ELSE b
<1>1. m \in {a, b} /\ \A y \in {a, b} : m >= y
  OBVIOUS
<1>2. \A x \in {a, b} : (\A y \in {a, b} : x >= y) => x = m
  OBVIOUS
<1>. QED
  BY <1>1, <1>2 DEF Max

LEMMA MinOfTwo ==
    ASSUME NEW a \in Int, NEW b \in Int
    PROVE  Min({a, b}) = IF a <= b THEN a ELSE b
<1>. DEFINE m == IF a <= b THEN a ELSE b
<1>1. m \in {a, b} /\ \A y \in {a, b} : m =< y
  OBVIOUS
<1>2. \A x \in {a, b} : (\A y \in {a, b} : x =< y) => x = m
  OBVIOUS
<1>. QED
  BY <1>1, <1>2 DEF Min

-----------------------------------------------------------------------------
(* Tiers.                                                                   *)

Tiers == {"gb8", "gb12", "gb16", "gb24", "gb32", "gb48", "gb64"}

LEMMA CoresOfTier ==
    ASSUME NEW q \in Requests
    PROVE  Cores(q.cpu) \in {2, 4, 8}
  BY CapacityAssumption DEF Cores

LEMMA GigabytesOfTier ==
    ASSUME NEW t \in Tiers
    PROVE  Gigabytes(t) \in 8..64
  BY DEF Gigabytes, Tiers

\* Whatever the backend tolerates of a GPU is more than the agent allocates.
LEMMA ToleratedEnough ==
    ASSUME NEW q \in Requests, q.gpu # None
    PROVE  Tolerated(Megabytes(q.gpu)) >= 7373
<1>1. q.gpu \in Tiers
  BY CapacityAssumption DEF Tiers
<1>2. Megabytes(q.gpu) \in Nat /\ Megabytes(q.gpu) >= 8192
  BY <1>1, GigabytesOfTier DEF Megabytes
<1>. QED
  BY <1>2 DEF Tolerated

-----------------------------------------------------------------------------
(* Allocation.                                                              *)

\* An allocation lies between the agent's minimum and both what is asked for and
\* what the snapshot found.
LEMMA AllocationBounds ==
    ASSUME NEW q \in Requests, NEW cores \in Int, NEW ram \in Int, NEW vram \in Int
    PROVE  LET a == Allocation(q, cores, ram, vram) IN
           /\ a.cores \in 5..80 /\ a.ram \in 5..640 /\ a.vram \in {0, 2000}
           /\ a.cores <= 10 * Cores(q.cpu)
           /\ cores >= 50 => a.cores <= Round(cores)
           /\ vram >= 7373 => a.vram = 2000
<1>. DEFINE c == Max({Min({100 * Cores(q.cpu), cores}), 50})
            r == Max({Min({100 * Gigabytes(q.memory), ram}), 50})
<1>1. Cores(q.cpu) \in {2, 4, 8}
  BY CoresOfTier
<1>2. Gigabytes(q.memory) \in 8..64
  BY CapacityAssumption, GigabytesOfTier DEF Tiers
<1>3. /\ c \in Int /\ c >= 50 /\ c <= 100 * Cores(q.cpu)
      /\ cores >= 50 => c <= cores
  <2>1. Min({100 * Cores(q.cpu), cores}) = IF 100 * Cores(q.cpu) <= cores THEN 100 * Cores(q.cpu) ELSE cores
    BY <1>1, MinOfTwo
  <2>2. Min({100 * Cores(q.cpu), cores}) \in Int
    BY <1>1, <2>1
  <2>. DEFINE x == Min({100 * Cores(q.cpu), cores})
  <2>3. c = Max({x, 50}) /\ x \in Int
    BY <2>2
  <2>. HIDE DEF x, c
  <2>4. c = IF x >= 50 THEN x ELSE 50
    BY <2>3, MaxOfTwo
  <2>. QED
    BY <1>1, <2>1, <2>3, <2>4 DEF x
<1>4. r \in Int /\ r >= 50 /\ r <= 6400
  <2>1. Min({100 * Gigabytes(q.memory), ram}) = IF 100 * Gigabytes(q.memory) <= ram THEN 100 * Gigabytes(q.memory) ELSE ram
    BY <1>2, MinOfTwo
  <2>2. Min({100 * Gigabytes(q.memory), ram}) \in Int
    BY <1>2, <2>1
  <2>3. r = IF Min({100 * Gigabytes(q.memory), ram}) >= 50 THEN Min({100 * Gigabytes(q.memory), ram}) ELSE 50
    BY <2>2, MaxOfTwo
  <2>. QED
    BY <1>2, <2>1, <2>3
<1>. DEFINE a == Allocation(q, cores, ram, vram)
<1>5. /\ a.cores = Round(c) /\ a.ram = Round(r)
      /\ a.vram = IF vram > 0 /\ vram + 64 >= 2000 THEN 2000 ELSE 0
  BY DEF Allocation, NeededVram
<1>. HIDE DEF c, r, a
<1>6. Round(c) \in 5..80 /\ Round(c) <= 10 * Cores(q.cpu) /\ (cores >= 50 => Round(c) <= Round(cores))
  BY <1>1, <1>3 DEF Round
<1>7. Round(r) \in 5..640
  BY <1>4 DEF Round
<1>8. a.cores \in 5..80 /\ a.ram \in 5..640 /\ a.vram \in {0, 2000} /\ (vram >= 7373 => a.vram = 2000)
  BY <1>5, <1>6, <1>7
<1>9. a.cores <= 10 * Cores(q.cpu) /\ (cores >= 50 => a.cores <= Round(cores))
  BY <1>5, <1>6
<1>. QED
  BY <1>8, <1>9 DEF a

\* What the snapshot finds of a machine.
LEMMA SnapshotBounds ==
    ASSUME NEW h \in Hardware, NEW idle \in {0, 50, 100}, NEW unused \in {0, 50, 100},
           NEW answers \in BOOLEAN
    PROVE  /\ UsableCores(h, idle) \in Int /\ UsableRam(h, unused) \in Int
           /\ Vram(h, answers) \in Nat
           /\ UsableCores(h, idle) >= 50
           /\ \/ Round(UsableCores(h, idle)) <= 5
              \/ Round(UsableCores(h, idle)) <= 10 * (h.cores - 1)
<1>1. h.cores \in Nat \ {0} /\ h.ram \in Nat /\ h.vram \in Nat
  BY CapacityAssumption
<1>2. idle * h.cores \in Int /\ idle * h.cores <= 100 * h.cores
  BY <1>1
<1>3. UsableCores(h, idle) = IF 50 >= idle * h.cores - 100 THEN 50 ELSE idle * h.cores - 100
  <2>1. idle * h.cores - 100 \in Int
    BY <1>2
  <2>. QED
    BY <2>1, MaxOfTwo DEF UsableCores
<1>4. UsableRam(h, unused) \in Int
  <2>1. (unused * h.ram) \div 100 - 150 \in Int
    BY <1>1
  <2>. QED
    BY <2>1, MaxOfTwo DEF UsableRam
<1>5. \/ Round(UsableCores(h, idle)) <= 5
      \/ Round(UsableCores(h, idle)) <= 10 * (h.cores - 1)
  <2>1. CASE UsableCores(h, idle) = 50
    BY <1>1, <2>1 DEF Round
  <2>2. CASE UsableCores(h, idle) = idle * h.cores - 100 /\ idle * h.cores - 100 > 50
    BY <1>1, <1>2, <2>2 DEF Round
  <2>. QED
    BY <1>2, <1>3, <2>1, <2>2
<1>. QED
  BY <1>1, <1>2, <1>3, <1>4, <1>5 DEF Vram

-----------------------------------------------------------------------------
(* The match.                                                               *)

\* The machine of a match is eligible.
LEMMA MatchEligible ==
    ASSUME TypeOK, NEW q \in Requests, Eligible(q) # {}, NEW m \in Matched(q)
    PROVE  m \in Eligible(q)
<1>1. PICK s \in SetToSeqs(Eligible(q)) : m = s[1]
  BY DEF Matched
<1>2. IsFiniteSet(Eligible(q))
  BY CapacityAssumption, FS_Subset DEF Eligible
<1>3. Cardinality(Eligible(q)) \in Nat /\ Cardinality(Eligible(q)) # 0
  BY <1>2, FS_CardinalityType, FS_EmptySet
<1>4. s \in [1..Cardinality(Eligible(q)) -> Eligible(q)]
  BY DEF SetToSeqs
<1>. QED
  BY <1>1, <1>3, <1>4

-----------------------------------------------------------------------------
(* The sort: how far neighbours in order can drift apart.                   *)

\* Every non-empty set of naturals has a least element: among the initial
\* segments up to its members, ordered by strict inclusion, one is minimal.
LEMMA LeastNatural ==
    ASSUME NEW T \in SUBSET Nat, T # {}
    PROVE  \E n \in T : \A m \in T : n <= m
<1>. DEFINE segments == {0..m : m \in T}
<1>1. segments \subseteq FiniteSubsetsOf(Nat)
  <2>1. \A m \in T : 0..m \subseteq Nat /\ IsFiniteSet(0..m)
    BY FS_Interval
  <2>. QED
    BY <2>1 DEF FiniteSubsetsOf
<1>2. segments # {}
  OBVIOUS
<1>. HIDE DEF segments
<1>3. PICK x \in segments : \A y \in segments : <<y, x>> \notin StrictSubsetOrdering(Nat)
  BY <1>1, <1>2, FS_StrictSubsetOrderingWellFounded, WFMin
<1>4. PICK n \in T : x = 0..n
  BY <1>3 DEF segments
<1>5. ASSUME NEW m \in T, m < n
      PROVE  FALSE
  <2>1. 0..m \in segments /\ 0..m \subseteq Nat /\ 0..n \subseteq Nat
    BY DEF segments
  <2>2. 0..m \subseteq 0..n /\ 0..m # 0..n
    BY <1>5
  <2>3. <<0..m, 0..n>> \in StrictSubsetOrdering(Nat)
    BY <2>1, <2>2 DEF StrictSubsetOrdering
  <2>. QED
    BY <1>3, <1>4, <2>1, <2>3
<1>. QED
  BY <1>5

\* The first of a sequence that never falls is its least.
LEMMA FirstIsLeast ==
    ASSUME NEW n \in Nat, NEW v \in [1..n -> Int],
           \A i \in 1..(n - 1) : v[i] <= v[i + 1]
    PROVE  \A k \in 1..n : v[1] <= v[k]
<1>. DEFINE below == {k \in 1..n : ~(v[1] <= v[k])}
<1>. SUFFICES ASSUME below # {} PROVE FALSE
  OBVIOUS
<1>1. below \in SUBSET Nat
  OBVIOUS
<1>2. PICK k \in below : \A j \in below : k <= j
  <2>. HIDE DEF below
  <2>. QED
    BY <1>1, LeastNatural
<1>3. k \in 1..n /\ ~(v[1] <= v[k])
  BY <1>2
<1>4. k # 1
  BY <1>3
<1>5. k - 1 \in 1..(n - 1) /\ k - 1 \in 1..n /\ (k - 1) + 1 = k /\ ~(k <= k - 1)
  BY <1>3, <1>4
<1>6. v[k - 1] <= v[k]
  BY <1>5
<1>7. v[1] <= v[k - 1]
  BY <1>2, <1>5
<1>8. v[1] \in Int /\ v[k - 1] \in Int /\ v[k] \in Int
  BY <1>3, <1>5
<1>. QED
  BY <1>3, <1>6, <1>7, <1>8

\* Along a sequence that falls by at most 500 from one to the next.
LEMMA Drift ==
    ASSUME NEW n \in Nat, NEW w \in [1..n -> Int],
           \A i \in 1..(n - 1) : w[i] <= w[i + 1] + 500
    PROVE  \A k \in 1..n : w[1] <= w[k] + 500 * (k - 1)
<1>. DEFINE v == [k \in 1..n |-> w[k] + 500 * (k - 1)]
<1>1. v \in [1..n -> Int]
  OBVIOUS
<1>2. \A i \in 1..(n - 1) : v[i] <= v[i + 1]
  <2>. TAKE i \in 1..(n - 1)
  <2>1. i \in 1..n /\ i + 1 \in 1..n /\ w[i] \in Int /\ w[i + 1] \in Int
    OBVIOUS
  <2>2. v[i] = w[i] + 500 * (i - 1) /\ v[i + 1] = w[i + 1] + 500 * ((i + 1) - 1)
    BY <2>1
  <2>3. w[i] <= w[i + 1] + 500
    OBVIOUS
  <2>. HIDE DEF v
  <2>. QED
    BY <2>1, <2>2, <2>3
<1>3. \A k \in 1..n : v[1] <= v[k]
  <2>. HIDE DEF v
  <2>. QED
    BY <1>1, <1>2, FirstIsLeast
<1>4. ASSUME NEW k \in 1..n
      PROVE  w[1] <= w[k] + 500 * (k - 1)
  <2>1. 1 \in 1..n
    OBVIOUS
  <2>2. v[1] = w[1] + 500 * (1 - 1) /\ v[k] = w[k] + 500 * (k - 1) /\ w[1] \in Int
    BY <2>1
  <2>3. v[1] <= v[k]
    BY <1>3
  <2>. HIDE DEF v
  <2>. QED
    BY <2>2, <2>3
<1>. QED
  BY <1>4

LEMMA WasteInteger ==
    ASSUME real \in [Machines -> Hardware], NEW q \in Requests, NEW m \in Machines
    PROVE  Waste(q, m) \in Int
<1>1. real[m].cores \in Nat \ {0} /\ real[m].ram \in Nat \ {0}
  BY CapacityAssumption
<1>2. MemoryTotal(real[m]) \in Nat \ {0}
  BY <1>1 DEF MemoryTotal
<1>3. Cores(q.cpu) \in Int /\ Megabytes(q.memory) \in Int
  <2>1. q.memory \in Tiers
    BY CapacityAssumption DEF Tiers
  <2>. QED
    BY <2>1, CoresOfTier, GigabytesOfTier DEF Megabytes
<1>4. \A a \in Int : \A d \in Nat \ {0} : a \div d \in Int
  OBVIOUS
<1>5. (10000 * (real[m].cores - Cores(q.cpu))) \div real[m].cores \in Int
  <2>1. 10000 * (real[m].cores - Cores(q.cpu)) \in Int
    BY <1>1, <1>3
  <2>. QED
    BY <1>1, <1>4, <2>1
<1>6. (10000 * (MemoryTotal(real[m]) - Megabytes(q.memory))) \div MemoryTotal(real[m]) \in Int
  <2>1. 10000 * (MemoryTotal(real[m]) - Megabytes(q.memory)) \in Int
    BY <1>2, <1>3
  <2>. QED
    BY <1>2, <1>4, <2>1
<1>. QED
  BY <1>5, <1>6 DEF Waste

\* What may stand before another wastes less, or at most five per cent more.
LEMMA NeighbourWaste ==
    ASSUME real \in [Machines -> Hardware], NEW q \in Requests,
           NEW a \in Machines, NEW b \in Machines, MayPrecede(q, a, b)
    PROVE  Waste(q, a) <= Waste(q, b) + 500
<1>1. Waste(q, a) \in Int /\ Waste(q, b) \in Int
  BY WasteInteger
<1>2. NearlyIdentical(q, a, b) \/ Waste(q, a) < Waste(q, b)
  BY DEF MayPrecede
<1>. QED
  BY <1>1, <1>2 DEF NearlyIdentical, Abs

\* A sequence of all members of a finite set, each once, leaves none out.
LEMMA EveryMemberStands ==
    ASSUME NEW S, IsFiniteSet(S), NEW s \in SetToSeqs(S), NEW x \in S
    PROVE  \E k \in 1..Cardinality(S) : s[k] = x
<1>. DEFINE places == 1..Cardinality(S)
<1>1. Cardinality(S) \in Nat
  BY FS_CardinalityType
<1>2. s \in [places -> S] /\ \A i, j \in places : i # j => s[i] # s[j]
  BY DEF SetToSeqs
<1>3. s \in Injection(places, S)
  BY <1>2 DEF Injection, IsInjective
<1>4. Cardinality(places) = Cardinality(S)
  BY <1>1, FS_Interval
<1>5. s \in Surjection(places, S)
  <2>. HIDE DEF places
  <2>. QED
    BY <1>3, <1>4, FS_Injection
<1>. QED
  BY <1>5 DEF Surjection

\* The machine that comes first wastes at most five per cent more for each
\* other that is eligible than any of them.
LEMMA MatchedDrift ==
    ASSUME TypeOK, NEW q \in Requests, NEW m \in Matched(q), NEW x \in Eligible(q)
    PROVE  Waste(q, m) <= Waste(q, x) + 500 * (Cardinality(Eligible(q)) - 1)
<1>. DEFINE n == Cardinality(Eligible(q))
<1>1. PICK s \in SetToSeqs(Eligible(q)) : m = s[1] /\ Sorted(q, s)
  BY DEF Matched
<1>2. IsFiniteSet(Eligible(q)) /\ Eligible(q) \subseteq Machines
  BY CapacityAssumption, FS_Subset DEF Eligible
<1>3. n \in Nat
  BY <1>2, FS_CardinalityType
<1>4. s \in [1..n -> Eligible(q)]
  BY DEF SetToSeqs
<1>5. Len(s) = n
  <2>1. s \in Seq(Eligible(q))
    BY <1>3, <1>4
  <2>2. DOMAIN s = 1..n /\ DOMAIN s = 1..Len(s) /\ Len(s) \in Nat
    BY <1>4, <2>1
  <2>. QED
    BY <1>3, <1>4, <2>2
<1>6. PICK k \in 1..n : s[k] = x
  BY <1>2, EveryMemberStands
<1>. HIDE DEF n
<1>. DEFINE w == [i \in 1..n |-> Waste(q, s[i])]
<1>7. w \in [1..n -> Int]
  BY <1>2, <1>4, WasteInteger DEF TypeOK
<1>8. \A i \in 1..(n - 1) : w[i] <= w[i + 1] + 500
  <2>. TAKE i \in 1..(n - 1)
  <2>1. i \in 1..n /\ i + 1 \in 1..n
    BY <1>3
  <2>2. s[i] \in Machines /\ s[i + 1] \in Machines
    BY <1>2, <1>4, <2>1
  <2>3. MayPrecede(q, s[i], s[i + 1])
    BY <1>1, <1>5 DEF Sorted
  <2>. QED
    BY <2>1, <2>2, <2>3, NeighbourWaste DEF TypeOK
<1>9. w[1] <= w[k] + 500 * (k - 1)
  <2>. HIDE DEF w
  <2>1. \A j \in 1..n : w[1] <= w[j] + 500 * (j - 1)
    BY <1>3, <1>7, <1>8, Drift, ZenonT(60)
  <2>. QED
    BY <1>6, <2>1
<1>10. w[1] = Waste(q, m) /\ w[k] = Waste(q, x) /\ w[1] \in Int /\ w[k] \in Int
  BY <1>1, <1>3, <1>6, <1>7
<1>11. k - 1 <= n - 1
  BY <1>3, <1>6
<1>. HIDE DEF w
<1>. QED
  BY <1>3, <1>6, <1>9, <1>10, <1>11 DEF n

-----------------------------------------------------------------------------
(* The invariant.                                                           *)

\* A job was matched with hardware that has the GPU it needs.
Fits ==
    match # None =>
        /\ request \in Requests
        /\ request.gpu # None => match.hardware.vram >= Tolerated(Megabytes(request.gpu))

\* is_viable refuses nothing that resolve_allocation has provided for.
NeverDeferred == outcome.is # "deferred"

\* The outcome is that of the request and the hardware at hand.
Inv == TypeOK /\ Fits /\ (outcome.is # "none" => request # None)
       /\ NeverDeferred /\ MatchedRuns /\ AllocationFits

LEMMA InvInit == Init => Inv
  BY CapacityAssumption DEF Init, Inv, TypeOK, Fits, NeverDeferred, MatchedRuns, AllocationFits

LEMMA SubmitKeeps == Inv /\ Submit => Inv'
<1>. SUFFICES ASSUME Inv, Submit PROVE Inv'
  OBVIOUS
<1>1. PICK q \in Requests :
        /\ request' = q
        /\ \E m \in IF Eligible(q) = {} THEN {} ELSE Matched(q) :
              match' = [machine |-> m, hardware |-> real[m]]
  BY DEF Submit
<1>2. PICK m \in Matched(q) : Eligible(q) # {} /\ match' = [machine |-> m, hardware |-> real[m]]
  BY <1>1
<1>3. m \in Eligible(q) /\ m \in Machines
  BY <1>2, MatchEligible DEF Inv, Eligible
<1>4. real[m] \in Hardware /\ (q.gpu # None => real[m].vram >= Tolerated(Megabytes(q.gpu)))
  BY <1>3 DEF Eligible, Inv, TypeOK
<1>5. outcome.is = "none" /\ outcome' = outcome /\ real' = real
  BY DEF Submit, Inv
<1>. QED
  BY <1>1, <1>2, <1>3, <1>4, <1>5, CapacityAssumption
     DEF Inv, TypeOK, Fits, NeverDeferred, MatchedRuns, AllocationFits

LEMMA ReplaceKeeps == Inv /\ Replace => Inv'
<1>. SUFFICES ASSUME Inv, Replace PROVE Inv'
  OBVIOUS
<1>1. outcome.is = "none" /\ UNCHANGED <<request, match, outcome>> /\ real' \in [Machines -> Hardware]
  BY DEF Replace, Inv, TypeOK
<1>. QED
  BY <1>1 DEF Inv, TypeOK, Fits, NeverDeferred, MatchedRuns, AllocationFits

LEMMA ExecuteKeeps == Inv /\ Execute => Inv'
<1>. SUFFICES ASSUME Inv, Execute PROVE Inv'
  OBVIOUS
<1>. DEFINE h == real[match.machine]
            allocation(idle, unused, answers) ==
               Allocation(request, UsableCores(h, idle), UsableRam(h, unused), Vram(h, answers))
<1>1. PICK idle \in {0, 50, 100}, unused \in {0, 50, 100}, answers \in BOOLEAN :
        LET a == allocation(idle, unused, answers)
        IN  outcome' = CASE request.gpu # None /\ a.vram = 0 -> [is |-> "failed", answers |-> answers]
                         [] ~Viable(a)                       -> [is |-> "deferred"]
                         [] OTHER                            -> [is |-> "runs", allocation |-> a]
  BY DEF Execute
<1>2. match # None /\ UNCHANGED <<real, request, match>>
  BY DEF Execute
<1>3. /\ request \in Requests /\ request # None /\ match.machine \in Machines /\ h \in Hardware
      /\ match.hardware \in Hardware
  BY <1>2 DEF Inv, TypeOK, Fits
<1>. HIDE DEF h
<1>. DEFINE a == allocation(idle, unused, answers)
<1>4. /\ UsableCores(h, idle) \in Int /\ UsableRam(h, unused) \in Int
      /\ Vram(h, answers) \in Nat /\ UsableCores(h, idle) >= 50
      /\ \/ Round(UsableCores(h, idle)) <= 5
         \/ Round(UsableCores(h, idle)) <= 10 * (h.cores - 1)
  BY <1>3, SnapshotBounds
<1>5. /\ a.cores \in 5..80 /\ a.ram \in 5..640 /\ a.vram \in {0, 2000}
      /\ a.cores <= 10 * Cores(request.cpu)
      /\ a.cores <= Round(UsableCores(h, idle))
      /\ Vram(h, answers) >= 7373 => a.vram = 2000
  BY <1>3, <1>4, AllocationBounds
<1>6. a.cores <= Max({5, 10 * (h.cores - 1)})
  <2>1. h.cores \in Nat
    BY <1>3, CapacityAssumption
  <2>. DEFINE spare == 10 * (h.cores - 1)
  <2>2. spare \in Int
    BY <2>1
  <2>3. Round(UsableCores(h, idle)) \in Int
    BY <1>4 DEF Round
  <2>4. Round(UsableCores(h, idle)) <= 5 \/ Round(UsableCores(h, idle)) <= spare
    BY <1>4
  <2>. HIDE DEF spare
  <2>5. Max({5, spare}) = IF 5 >= spare THEN 5 ELSE spare
    BY <2>2, MaxOfTwo
  <2>6. a.cores <= Max({5, spare})
    <3>. HIDE DEF a
    <3>. QED
      BY <1>5, <2>2, <2>3, <2>4, <2>5
  <2>. QED
    BY <2>6 DEF spare
<1>7. a \in [cores : 5..80, ram : 5..640, vram : {0, 2000}]
  <2>1. a = [cores |-> a.cores, ram |-> a.ram, vram |-> a.vram]
    BY DEF Allocation
  <2>. HIDE DEF a
  <2>. QED
    BY <1>5, <2>1
<1>8. request.gpu # None /\ answers /\ h = match.hardware => a.vram = 2000
  <2>1. ASSUME request.gpu # None, h = match.hardware
        PROVE  h.vram >= 7373
    <3>1. h.vram \in Nat /\ h.vram >= Tolerated(Megabytes(request.gpu))
      BY <1>2, <1>3, <2>1, CapacityAssumption DEF Inv, Fits
    <3>2. request.gpu \in Tiers
      BY <1>3, <2>1, CapacityAssumption DEF Tiers
    <3>3. Tolerated(Megabytes(request.gpu)) \in Int
      BY <3>2, GigabytesOfTier DEF Megabytes, Tolerated
    <3>. QED
      BY <1>3, <2>1, <3>1, <3>3, ToleratedEnough
  <2>2. answers => Vram(h, answers) = h.vram
    BY DEF Vram
  <2>. HIDE DEF a
  <2>3. ASSUME answers = TRUE, request.gpu # None, h = match.hardware
        PROVE  a.vram = 2000
    <3>1. Vram(h, answers) = h.vram
      BY <2>2, <2>3
    <3>2. Vram(h, answers) >= 7373
      BY <2>1, <2>3, <3>1
    <3>. QED
      BY <1>5, <3>2
  <2>4. answers => answers = TRUE
    OBVIOUS
  <2>. QED
    BY <2>3, <2>4
<1>9. Viable(a)
  BY <1>5 DEF Viable
<1>. HIDE DEF a
<1>10. \/ request.gpu # None /\ a.vram = 0 /\ outcome' = [is |-> "failed", answers |-> answers]
       \/ (request.gpu # None => a.vram # 0) /\ outcome' = [is |-> "runs", allocation |-> a]
  BY <1>1, <1>9 DEF a
<1>11. NeverDeferred' /\ TypeOK'
  BY <1>2, <1>7, <1>10 DEF NeverDeferred, TypeOK, Inv
<1>12. MatchedRuns'
  BY <1>2, <1>8, <1>10 DEF MatchedRuns, h
<1>13. AllocationFits'
  BY <1>2, <1>5, <1>6, <1>10 DEF AllocationFits, h
<1>14. Fits' /\ request' # None
  BY <1>2, <1>3 DEF Fits, Inv
<1>. QED
  BY <1>11, <1>12, <1>13, <1>14 DEF Inv

LEMMA InvStep == Inv /\ [Next]_vars => Inv'
<1>1. Inv /\ UNCHANGED vars => Inv'
  BY DEF vars, Inv, TypeOK, Fits, NeverDeferred, MatchedRuns, AllocationFits
<1>. QED
  BY <1>1, SubmitKeeps, ReplaceKeeps, ExecuteKeeps DEF Next

-----------------------------------------------------------------------------

\* The hardware, the request, the match and the outcome keep their types.
THEOREM TypeCorrect == Spec => []TypeOK
<1>1. Inv => TypeOK
  BY DEF Inv
<1>. QED
  BY <1>1, InvInit, InvStep, PTL DEF Spec

\* The hand-back of a job that cannot be allocated (agent.py, execute_job) is never taken,
\* on any hardware and for any request: whatever is_viable looks at has been raised to
\* its minimum by resolve_allocation, or dropped by normalise_job.
THEOREM NeverDeferredCorrect == Spec => []NeverDeferred
<1>1. Inv => NeverDeferred
  BY DEF Inv
<1>. QED
  BY <1>1, InvInit, InvStep, PTL DEF Spec

\* A job fails for its GPU only on other hardware than it was matched with, or if
\* nvidia-smi does not answer.
THEOREM MatchedRunsCorrect == Spec => []MatchedRuns
<1>1. Inv => MatchedRuns
  BY DEF Inv
<1>. QED
  BY <1>1, InvInit, InvStep, PTL DEF Spec

\* A job has the GPU it asked for, and no more cores than asked for or than the
\* machine has beyond the reserved one.
THEOREM AllocationFitsCorrect == Spec => []AllocationFits
<1>1. Inv => AllocationFits
  BY DEF Inv
<1>. QED
  BY <1>1, InvInit, InvStep, PTL DEF Spec

\* A job is matched with a machine that wastes at most five per cent more than
\* the best fit for each machine beyond the first that is eligible.
THEOREM BestFitDriftCorrect == Spec => BestFitDrift
<1>. DEFINE Drifts ==
       match' # match =>
          \A m \in Eligible(request') :
             Waste(request', match'.machine) <= Waste(request', m)
                + 500 * (Cardinality(Eligible(request')) - 1)
<1>1. Inv /\ [Next]_vars => [Drifts]_vars
  <2>. SUFFICES ASSUME Inv, Next, match' # match PROVE Drifts
    OBVIOUS
  <2>1. Submit
    BY DEF Next, Replace, Execute
  <2>2. PICK m \in Matched(request') : match' = [machine |-> m, hardware |-> real[m]]
    BY <2>1 DEF Submit
  <2>3. request' \in Requests
    BY <2>1 DEF Submit
  <2>. QED
    BY <2>2, <2>3, MatchedDrift DEF Inv
<1>. QED
  BY <1>1, InvInit, InvStep, PTL DEF Spec, BestFitDrift
=============================================================================
