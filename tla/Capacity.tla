------------------------------ MODULE Capacity ------------------------------
(* Which machine a job is matched with, and what that machine's agent makes *)
(* of it: the effective requirements (be/src/lib/matchCriteria.ts), the     *)
(* query and the sort of POST /api/jobs (be/src/routes/jobs.routes.ts), the *)
(* snapshot (resources.py), normalise_job and the start of execute_job      *)
(* (agent.py) and resolve_allocation (docker_runner.py).                    *)
(* Who may be matched with whom and what else becomes of the job is         *)
(* Backend's and Agent's subject; here one job meets one set of machines.   *)
EXTENDS Integers, SequencesExt

CONSTANTS
    Machines,   \* the idle machines of other people
    Hardware,   \* [cores, ram, vram]: physical cores, 1/100 GB, MB (0: no GPU)
    Trust,      \* each machine's trust score
    Requests,   \* [cpu, memory, gpu, duration]: the tiers of a request; gpu and duration may be None
    None

ASSUME CapacityAssumption ==
    /\ IsFiniteSet(Machines) /\ None \notin Requests
    /\ Trust \in [Machines -> 0..100]
    /\ Hardware \subseteq [cores : Nat \ {0}, ram : Nat \ {0}, vram : Nat]
    /\ Requests \subseteq [cpu : {"light", "medium", "heavy"},
                           memory : {"gb8", "gb16", "gb32", "gb64"},
                           gpu : {None, "gb8", "gb12", "gb16", "gb24", "gb32", "gb48"},
                           duration : {None, "lt1h", "h1_6", "h6_12", "h12_24", "gt24h"}]

VARIABLES
    real,     \* the hardware that registered last as this machine
    request,  \* the job's request, None before there is one
    match,    \* the machine of the job and the hardware it was matched for
    outcome   \* of execute_job: "none", "runs" with an allocation, "deferred" or "failed"

vars == <<real, request, match, outcome>>

-----------------------------------------------------------------------------
(* Tiers (matchCriteria.ts, agent.py)                                       *)

Cores(tier) == CASE tier = "light" -> 2 [] tier = "medium" -> 4 [] tier = "heavy" -> 8

Gigabytes(tier) ==
    CASE tier = "gb8" -> 8 [] tier = "gb12" -> 12 [] tier = "gb16" -> 16 [] tier = "gb24" -> 24
      [] tier = "gb32" -> 32 [] tier = "gb48" -> 48 [] tier = "gb64" -> 64

Megabytes(tier) == IF tier = None THEN 0 ELSE 1024 * Gigabytes(tier)

\* Math.round(mb * (1 - 0.10))
Tolerated(mb) == (9 * mb + 5) \div 10

MinTrustScore(tier) ==
    CASE tier \in {None, "lt1h"} -> 20 [] tier = "h1_6" -> 60
      [] tier \in {"h6_12", "h12_24"} -> 80 [] tier = "gt24h" -> 90

-----------------------------------------------------------------------------
(* POST /api/jobs                                                           *)

\* Math.ceil(ram_gb * 1024), at registration.
MemoryTotal(h) == (1024 * h.ram + 99) \div 100

Eligible(q) ==
    {m \in Machines :
        /\ real[m].cores >= Cores(q.cpu)
        /\ MemoryTotal(real[m]) >= Tolerated(Megabytes(q.memory))
        /\ Trust[m] >= MinTrustScore(q.duration)
        /\ q.gpu # None => real[m].vram > 0 /\ real[m].vram >= Tolerated(Megabytes(q.gpu))}

\* cpuWaste + ramWaste in 1/10000; a machine of less memory than asked for wastes less than nothing.
Waste(q, m) ==
    LET cores == real[m].cores  total == MemoryTotal(real[m])
    IN  (10000 * (cores - Cores(q.cpu))) \div cores
          + (10000 * (total - Megabytes(q.memory))) \div total

Abs(n) == IF n < 0 THEN -n ELSE n

\* Mistaken variant: half the machine instead of a twentieth of it.
NearlyIdenticalHalf(q, a, b) == Abs(Waste(q, a) - Waste(q, b)) < 5000

NearlyIdentical(q, a, b) == Abs(Waste(q, a) - Waste(q, b)) < 500

\* The comparator of the sort: a may stand before b.  It is not transitive.
MayPrecede(q, a, b) ==
    IF NearlyIdentical(q, a, b) THEN Trust[a] >= Trust[b] ELSE Waste(q, a) < Waste(q, b)

\* What a sort by such a comparator guarantees: neighbours are in order.
Sorted(q, s) == \A i \in 1..(Len(s) - 1) : MayPrecede(q, s[i], s[i + 1])

Matched(q) == {s[1] : s \in {t \in SetToSeqs(Eligible(q)) : Sorted(q, t)}}

Submit ==
    /\ request = None
    /\ \E q \in Requests :
         /\ request' = q
         /\ \E m \in IF Eligible(q) = {} THEN {} ELSE Matched(q) :
               match' = [machine |-> m, hardware |-> real[m]]
    /\ UNCHANGED <<real, outcome>>

\* POST /api/machines/register: the agent sends no hardware_id, so another
\* computer of the owner takes over the row and the jobs that name it.
Replace ==
    /\ outcome.is = "none"
    /\ \E m \in Machines, h \in Hardware : real' = [real EXCEPT ![m] = h]
    /\ UNCHANGED <<request, match, outcome>>

-----------------------------------------------------------------------------
(* The agent: snapshot, allocation, decision                                *)

\* Mistaken variant: no core is reserved for the system.
UsableCoresAll(h, idle) == Max({50, idle * h.cores})

\* get_cpu, get_ram: what is free less a reserve, but half a core and half a GB (in 1/100).
UsableCores(h, idle) == Max({50, idle * h.cores - 100})
UsableRam(h, unused) == Max({50, (unused * h.ram) \div 100 - 150})

\* get_gpu, whose nvidia-smi may fail.
Vram(h, answers) == IF answers THEN h.vram ELSE 0

\* Mistaken variant: the tier of the request is looked up in vram_map.
NeededOfTier(q) == IF q.gpu = None THEN 2000 ELSE 1000 * Gigabytes(q.gpu)

\* normalise_job hands on no gpuMemoryTier: vram_map is never found to hold one.
NeededVram(q) == 2000

\* round(x, 1), of hundredths to tenths
Round(n) == (n + 5) \div 10

\* resolve_allocation: cores, GB (in 1/10) and MB; gpu_required is a Boolean
\* there and so never None: a GPU is allocated whenever there is one.
Allocation(q, cores, ram, vram) ==
    [cores |-> Round(Max({Min({100 * Cores(q.cpu), cores}), 50})),
     ram   |-> Round(Max({Min({100 * Gigabytes(q.memory), ram}), 50})),
     vram  |-> IF vram > 0 /\ vram + 64 >= NeededVram(q) THEN NeededVram(q) ELSE 0]

\* is_viable: its look at gpuMemoryTier sees none either.
Viable(a) == a.cores >= 5 /\ a.ram >= 5

\* The start of execute_job; a deferred job is Backend's again.
Execute ==
    /\ match # None /\ outcome.is = "none"
    /\ \E idle, unused \in {0, 50, 100}, answers \in BOOLEAN :
         LET h == real[match.machine]
             a == Allocation(request, UsableCores(h, idle), UsableRam(h, unused), Vram(h, answers))
         IN  outcome' = CASE request.gpu # None /\ a.vram = 0 -> [is |-> "failed", answers |-> answers]
                          [] ~Viable(a)                       -> [is |-> "deferred"]
                          [] OTHER                            -> [is |-> "runs", allocation |-> a]
    /\ UNCHANGED <<real, request, match>>

-----------------------------------------------------------------------------

Init ==
    /\ real \in [Machines -> Hardware]
    /\ request = None /\ match = None
    /\ outcome = [is |-> "none"]

Next == Submit \/ Replace \/ Execute

Spec == Init /\ [][Next]_vars

-----------------------------------------------------------------------------
(* Properties                                                               *)

TypeOK ==
    /\ real \in [Machines -> Hardware]
    /\ request \in Requests \cup {None}
    /\ match # None => request # None /\ match.machine \in Machines /\ match.hardware \in Hardware
    /\ outcome.is \in {"none", "runs", "deferred", "failed"}
    /\ outcome.is = "runs" => outcome.allocation \in [cores : 5..80, ram : 5..640, vram : {0, 2000}]

\* The sort's comparator is not transitive, and the machine that comes first
\* need not be the best fit; but a chain of n machines can drift away from
\* the least waste by less than n - 1 times the five per cent.
BestFitDrift ==
    [][match' # match =>
          \A m \in Eligible(request') :
             Waste(request', match'.machine) <= Waste(request', m)
                + 500 * (Cardinality(Eligible(request')) - 1)]_vars

\* The backend tolerates a GPU of a tenth less than asked for, and the agent
\* has thresholds of its own: a job only fails for its GPU if other hardware
\* has taken over the machine or nvidia-smi does not answer.
MatchedRuns ==
    outcome.is = "failed" => ~outcome.answers \/ real[match.machine] # match.hardware

\* A job that its agent cannot allocate goes back to the queue (jobStatus.ts:21-22,
\* test_docker_runner.py:69-74): it is not failed.  The code refutes it: a GPU that
\* is missing raises in execute_job before is_viable is asked.
HandedBack == outcome.is # "failed"

\* A job of a GPU tier that runs has a GPU, and none is given more cores than
\* the machine has beyond the reserved one, half a core at least.
AllocationFits ==
    outcome.is = "runs" =>
       /\ request.gpu # None => outcome.allocation.vram > 0
       /\ outcome.allocation.cores <= Max({5, 10 * (real[match.machine].cores - 1)})
       /\ outcome.allocation.cores <= 10 * Cores(request.cpu)
=============================================================================
