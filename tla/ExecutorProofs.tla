--------------------------- MODULE ExecutorProofs ---------------------------
(***************************************************************************)
(* What the proofs of both schedulers share: facts about clock alignment   *)
(* and about maxima and minima of instants, and that a step of execute, at *)
(* an instant at which the policy lets the node start, keeps ExecutorInv.  *)
(***************************************************************************)
EXTENDS ServiceExecutor, FiniteSetTheorems, WellFoundedInduction, TLAPS

(* Division with remainder. *)
LEMMA DivFacts ==
  ASSUME NEW a \in Nat, NEW c \in Nat \ {0}
  PROVE  /\ a \div c \in Nat
         /\ a % c \in 0..(c - 1)
         /\ a = c * (a \div c) + (a % c)
OBVIOUS

(* A product of natural numbers is one. *)
LEMMA NatProduct ==
  ASSUME NEW a \in Nat, NEW b \in Nat
  PROVE  a * b \in Nat
OBVIOUS

(* Multiplication by a natural number is monotone. *)
LEMMA MulMono ==
  ASSUME NEW a \in Nat, NEW b \in Nat, NEW c \in Nat, a <= b
  PROVE  a * c <= b * c
OBVIOUS

(* Converting an edge to cycles and back loses nothing: int(now/cycle_ns). *)
LEMMA EdgeMultiple ==
  ASSUME NEW t \in Nat, Edge(t)
  PROVE  t \div Cycle \in Nat /\ (t \div Cycle) * Cycle = t
BY IRAssumption, DivFacts DEF Edge

(* A whole number of cycles is an edge. *)
LEMMA MultipleEdge ==
  ASSUME NEW k \in Nat
  PROVE  Edge(k * Cycle)
BY IRAssumption DEF Edge

(* Cycle counts compare as the instants they stand for. *)
LEMMA CycleOrder ==
  ASSUME NEW j \in Nat, NEW k \in Nat, j * Cycle <= k * Cycle
  PROVE  j <= k
<1>1. SUFFICES ASSUME k + 1 <= j PROVE FALSE
  OBVIOUS
<1>2. (k + 1) * Cycle <= j * Cycle
  BY <1>1, IRAssumption, MulMono
<1>3. (k + 1) * Cycle = k * Cycle + Cycle
  BY IRAssumption
<1> QED
  BY <1>2, <1>3, IRAssumption

(* AlignUp yields the first clock edge at or after t. *)
LEMMA AlignUpFacts ==
  ASSUME NEW t \in Nat
  PROVE  /\ AlignUp(t) \in Nat
         /\ t <= AlignUp(t)
         /\ Edge(AlignUp(t))
         /\ \A u \in Nat : Edge(u) /\ t <= u => AlignUp(t) <= u
<1> DEFINE a == t + Cycle - 1
           q == a \div Cycle
<1>1. Cycle \in Nat \ {0} /\ a \in Nat
  BY IRAssumption
<1>2. q \in Nat /\ a % Cycle \in 0..(Cycle - 1) /\ a = Cycle * q + (a % Cycle)
  BY <1>1, DivFacts
<1>3. AlignUp(t) = q * Cycle /\ q * Cycle = Cycle * q /\ q * Cycle \in Nat
  BY <1>1, <1>2 DEF AlignUp
<1> HIDE DEF q
<1>4. t <= q * Cycle
  BY <1>1, <1>2, <1>3
<1>5. Edge(q * Cycle)
  BY <1>2, MultipleEdge
<1>6. ASSUME NEW u \in Nat, Edge(u), t <= u
      PROVE  q * Cycle <= u
  <2> DEFINE k == u \div Cycle
  <2>1. k \in Nat /\ u = k * Cycle
    BY <1>6, EdgeMultiple
  <2> HIDE DEF k
  <2>2. q <= k
    <3>1. SUFFICES ASSUME k + 1 <= q PROVE FALSE
      BY <2>1, <1>2
    <3>2. (k + 1) * Cycle <= q * Cycle
      BY <2>1, <1>2, <1>1, <3>1, MulMono
    <3>3. (k + 1) * Cycle = u + Cycle
      BY <2>1, <1>1
    <3> QED
      BY <3>2, <3>3, <1>1, <1>2, <1>3, <1>6
  <2> QED
    BY <2>1, <2>2, <1>1, <1>2, MulMono
<1> QED
  BY <1>3, <1>4, <1>5, <1>6

(* An initial segment of the naturals determines its length. *)
LEMMA SegmentLength ==
  ASSUME NEW a \in Nat, NEW b \in Nat, 1..a = 1..b
  PROVE  a = b
<1>1. ~(a < b)
  <2>1. SUFFICES ASSUME a < b PROVE FALSE
    OBVIOUS
  <2>2. b \in 1..b
    BY <2>1
  <2> QED
    BY <2>1, <2>2
<1>2. ~(b < a)
  <2>1. SUFFICES ASSUME b < a PROVE FALSE
    OBVIOUS
  <2>2. a \in 1..a
    BY <2>1
  <2> QED
    BY <2>1, <2>2
<1> QED
  BY <1>1, <1>2

(* A set of naturals has a least element. *)
LEMMA NatMin ==
  ASSUME NEW T, T \subseteq Nat, T # {}
  PROVE  \E x \in T : \A y \in T : x <= y
<1>1. PICK x \in T : \A y \in T : ~(<<y, x>> \in OpToRel(<, Nat))
  BY NatLessThanWellFounded, WFMin
<1>2. ASSUME NEW y \in T PROVE x <= y
  <2>1. ~(y < x)
    BY <1>1 DEF OpToRel
  <2> QED
    BY <2>1
<1> QED
  BY <1>2

(* min() of a nonempty collection of instants. *)
LEMMA MinFacts ==
  ASSUME NEW T, T \subseteq Nat, T # {}
  PROVE  Min(T) \in T /\ \A y \in T : Min(T) <= y
BY NatMin DEF Min

(* max() of a nonempty, bounded collection of instants. *)
LEMMA MaxFacts ==
  ASSUME NEW T, T \subseteq Nat, T # {}, NEW b \in Nat, \A y \in T : y <= b
  PROVE  Max(T) \in T /\ Max(T) \in Nat /\ \A y \in T : y <= Max(T)
<1> DEFINE U == {u \in Nat : \A y \in T : y <= u}
<1>1. PICK u \in U : \A v \in U : u <= v
  BY NatMin
<1>2. u \in T
  <2>1. SUFFICES ASSUME u \notin T PROVE FALSE
    OBVIOUS
  <2>2. \A y \in T : y < u
    BY <1>1, <2>1
  <2>3. u - 1 \in Nat
    <3>1. PICK y \in T : TRUE
      OBVIOUS
    <3>2. u \in Nat /\ y \in Nat /\ y < u
      BY <1>1, <2>2
    <3> QED
      BY <3>2
  <2>4. u - 1 \in U
    BY <1>1, <2>2, <2>3
  <2> QED
    BY <1>1, <2>4
<1>3. \E x \in T : \A y \in T : x >= y
  BY <1>1, <1>2
<1> QED
  BY <1>3 DEF Max

----------------------------------------------------------------------------
(* What construction of the graph and of the provider guarantees. *)
LEMMA GraphFacts ==
  ASSUME ir \in Graphs, provider \in Providers(ir)
  PROVE  /\ ir.kind \in [Node -> Kind]
         /\ ir.order \in [Node -> Nat]
         /\ ir.deps \in [Node -> SUBSET Dependency]
         /\ ir.resources \in [Node -> SUBSET Resource]
         /\ \A n \in Node : ir.kind[n] \in {"CPU", "NPU"} <=> ir.resources[n] # {}
         /\ \A n \in Node : ir.kind[n] = "NPU" => NpuResource \in ir.resources[n]
         /\ ProviderOK(ir, provider)
BY InputAssumption DEF WellFormed, Graph, OwnershipOK

(* Every entry lies before some instant. *)
LEMMA EntriesBounded ==
  ASSUME ExecutorTypes, EntriesOK
  PROVE  \E last \in Nat : \A n \in DOMAIN completed : completed[n].resource <= last
<1>1. \A n \in DOMAIN completed : completed[n].resource \in Nat
  BY DEF ExecutorTypes, Entry
<1> QED
  BY <1>1 DEF EntriesOK

(* Every release lies before some instant. *)
LEMMA FreeBounded ==
  ASSUME ExecutorTypes, EntriesOK, FreeIsLast
  PROVE  \E last \in Nat : \A r \in Resource : resource_free[r] \in Nat /\ resource_free[r] <= last
<1>1. PICK last \in Nat : \A n \in DOMAIN completed : completed[n].resource <= last
  BY EntriesBounded
<1>2. ASSUME NEW r \in Resource PROVE resource_free[r] \in Nat /\ resource_free[r] <= last
  <2>1. resource_free[r] \in Nat
    BY DEF ExecutorTypes
  <2>2. CASE resource_free[r] = 0
    BY <2>2
  <2>3. CASE \E m \in DOMAIN completed :
               r \in ir.resources[m] /\ completed[m].until[r] = resource_free[r]
    <3>1. PICK m \in DOMAIN completed :
               r \in ir.resources[m] /\ completed[m].until[r] = resource_free[r]
      BY <2>3
    <3>2. completed[m].until[r] <= completed[m].resource
          /\ completed[m].resource <= last /\ completed[m].resource \in Nat
      BY <1>1, <3>1 DEF EntriesOK, Policy!EntryOK, Policy!Entry, Entry
    <3> QED
      BY <2>1, <3>1, <3>2
  <2> QED
    BY <2>1, <2>2, <2>3 DEF FreeIsLast
<1> QED
  BY <1>2

(* earliest() is the first instant at or after t at which every resource   *)
(* of the node is free, on a clock edge for an NPU node.                   *)
LEMMA EarliestFacts ==
  ASSUME ExecutorTypes, EntriesOK, FreeIsLast, NpuReleased, NEW n \in Node, NEW t \in Nat
  PROVE  /\ Earliest(n, t) \in Nat
         /\ t <= Earliest(n, t)
         /\ \A r \in ir.resources[n] : resource_free[r] <= Earliest(n, t)
         /\ ir.kind[n] = "NPU" => Edge(Earliest(n, t))
         /\ \A u \in Nat :
              (/\ t <= u
               /\ \A r \in ir.resources[n] : resource_free[r] <= u
               /\ ir.kind[n] = "NPU" => Edge(u))
              => Earliest(n, t) <= u
<1> DEFINE free  == {resource_free[r] : r \in ir.resources[n]}
           bound == IF ir.kind[n] = "NPU" /\ Stateful
                    THEN {previous_resource_cycle * Cycle} ELSE {}
           all   == {t} \cup free \cup bound
           ready == Max(all)
<1>1. ir.resources[n] \subseteq Resource
      /\ (ir.kind[n] = "NPU" => NpuResource \in ir.resources[n])
  BY GraphFacts DEF ExecutorTypes
<1>2. PICK last \in Nat : \A r \in Resource : resource_free[r] \in Nat /\ resource_free[r] <= last
  BY FreeBounded
<1>3. free \subseteq Nat /\ \A x \in free : x <= t + last
  BY <1>1, <1>2
<1>4. /\ bound \subseteq Nat
      /\ \A x \in bound : ir.kind[n] = "NPU" /\ x <= resource_free[NpuResource]
  <2>1. previous_resource_cycle * Cycle \in Nat
    BY IRAssumption DEF ExecutorTypes
  <2> QED
    BY <2>1 DEF NpuReleased, Stateful
<1>5. \A x \in bound : x \in Nat /\ x <= t + last
  BY <1>1, <1>2, <1>4
<1>6. all \subseteq Nat /\ all # {} /\ t + last \in Nat
      /\ \A x \in all : x <= t + last
  <2> HIDE DEF free, bound
  <2>1. t <= t + last /\ t + last \in Nat
    BY <1>2
  <2> QED
    BY <2>1, <1>3, <1>5
<1>7. ready \in all /\ ready \in Nat /\ \A x \in all : x <= ready
  <2> HIDE DEF all
  <2> QED
    BY <1>6, MaxFacts
<1>8. Earliest(n, t) = IF ir.kind[n] = "NPU" THEN AlignUp(ready) ELSE ready
  BY DEF Earliest
<1> HIDE DEF ready
<1>9. AlignUp(ready) \in Nat /\ ready <= AlignUp(ready) /\ Edge(AlignUp(ready))
      /\ \A u \in Nat : Edge(u) /\ ready <= u => AlignUp(ready) <= u
  BY <1>7, AlignUpFacts
<1>10. t <= ready /\ \A r \in ir.resources[n] : resource_free[r] <= ready
  BY <1>7
<1>11. ASSUME NEW u \in Nat, t <= u,
              \A r \in ir.resources[n] : resource_free[r] <= u,
              ir.kind[n] = "NPU" => Edge(u)
       PROVE  Earliest(n, t) <= u
  <2>1. \A x \in all : x <= u
    BY <1>1, <1>2, <1>4, <1>11
  <2>2. ready <= u
    BY <2>1, <1>7
  <2> QED
    BY <2>2, <1>8, <1>9, <1>11
<1>12. /\ Earliest(n, t) \in Nat
       /\ ready <= Earliest(n, t)
       /\ ir.kind[n] = "NPU" => Edge(Earliest(n, t))
  BY <1>7, <1>8, <1>9
<1>13. \A r \in ir.resources[n] : resource_free[r] <= Earliest(n, t)
  BY <1>10, <1>12, <1>7, <1>1, <1>2
<1> QED
  BY <1>7, <1>10, <1>11, <1>12, <1>13

(* A milestone lies between the node's start and its release. *)
LEMMA MilestoneFacts ==
  ASSUME ExecutorTypes, EntriesOK, NEW m \in DOMAIN completed, NEW s \in Milestone
  PROVE  /\ At(completed[m], s) \in Nat
         /\ completed[m].start <= At(completed[m], s)
         /\ At(completed[m], s) <= completed[m].resource
<1>1. /\ completed[m].start \in Nat /\ completed[m].accepted \in Nat
      /\ completed[m].result \in Nat /\ completed[m].resource \in Nat
      /\ completed[m].start <= completed[m].accepted
      /\ completed[m].accepted <= completed[m].result
      /\ completed[m].result <= completed[m].resource
  BY DEF EntriesOK, Policy!EntryOK, Policy!Entry, Entry
<1> QED
  BY <1>1 DEF At, Milestone

(* Ready is the first instant at which every awaited milestone has passed. *)
LEMMA ReadyFacts ==
  ASSUME ExecutorTypes, EntriesOK, NEW n \in Node, Parents(ir, n) \subseteq DOMAIN completed
  PROVE  LET ready == Ready(ir, completed, n) IN
         /\ ready \in Nat
         /\ \A e \in ir.deps[n] : At(completed[e.node], e.milestone) <= ready
         /\ \A u \in Nat :
              (\A e \in ir.deps[n] : At(completed[e.node], e.milestone) <= u)
              => ready <= u
<1> DEFINE fired == {At(completed[e.node], e.milestone) : e \in ir.deps[n]}
           all == {0} \cup fired
<1>1. \A e \in ir.deps[n] : e.node \in DOMAIN completed /\ e.milestone \in Milestone
  BY GraphFacts DEF ExecutorTypes, Parents, Dependency
<1>2. PICK last \in Nat : \A m \in DOMAIN completed : completed[m].resource <= last
  BY EntriesBounded
<1>3. \A x \in fired : x \in Nat /\ x <= last
  <2>1. \A m \in DOMAIN completed : completed[m].resource \in Nat
    BY DEF ExecutorTypes, Entry
  <2>2. ASSUME NEW e \in ir.deps[n]
        PROVE  At(completed[e.node], e.milestone) \in Nat /\ At(completed[e.node], e.milestone) <= last
    <3>1. /\ At(completed[e.node], e.milestone) \in Nat
          /\ At(completed[e.node], e.milestone) <= completed[e.node].resource
      BY <1>1, MilestoneFacts
    <3> QED
      BY <1>1, <1>2, <2>1, <3>1
  <2> QED
    BY <2>2
<1>4. all \subseteq Nat /\ all # {} /\ \A x \in all : x <= last
  <2> HIDE DEF fired
  <2> QED
    BY <1>2, <1>3
<1>5. Max(all) \in all /\ Max(all) \in Nat /\ \A x \in all : x <= Max(all)
  <2> HIDE DEF all
  <2> QED
    BY <1>2, <1>4, MaxFacts
<1>6. Ready(ir, completed, n) = Max(all)
  BY DEF Ready
<1>7. \A e \in ir.deps[n] : At(completed[e.node], e.milestone) \in all
  OBVIOUS
<1>8. ASSUME NEW u \in Nat,
             \A e \in ir.deps[n] : At(completed[e.node], e.milestone) <= u
      PROVE  Max(all) <= u
  <2>1. \A x \in all : x <= u
    BY <1>8
  <2> HIDE DEF all
  <2> QED
    BY <2>1, <1>5
<1> HIDE DEF all
<1> QED
  BY <1>5, <1>6, <1>7, <1>8

(* A node whose dependencies have fired can start when earliest() says so. *)
LEMMA EarliestCanStart ==
  ASSUME ExecutorTypes, EntriesOK, FreeIsLast, NpuReleased, NEW n \in Node, NEW t \in Nat,
         n \notin DOMAIN completed,
         \A e \in ir.deps[n] : /\ e.node \in DOMAIN completed
                               /\ At(completed[e.node], e.milestone) <= t
  PROVE  Policy!CanStart(n, Earliest(n, t))
<1> DEFINE when == Earliest(n, t)
<1>1. /\ when \in Nat /\ t <= when
      /\ \A r \in ir.resources[n] : resource_free[r] <= when
      /\ ir.kind[n] = "NPU" => Edge(when)
  BY EarliestFacts
<1> HIDE DEF when
<1>2. \A e \in ir.deps[n] : At(completed[e.node], e.milestone) \in Nat
  BY MilestoneFacts, GraphFacts DEF ExecutorTypes, Dependency
<1>3. \A e \in ir.deps[n] : At(completed[e.node], e.milestone) <= when
  BY <1>1, <1>2
<1>4. ASSUME NEW r \in ir.resources[n], NEW m \in DOMAIN completed, r \in ir.resources[m]
      PROVE  completed[m].until[r] <= when
  <2>1. r \in Resource /\ resource_free[r] \in Nat
    BY GraphFacts DEF ExecutorTypes
  <2>2. completed[m].until[r] <= resource_free[r] /\ completed[m].until[r] \in Nat
    BY <1>4, <2>1 DEF FreeIsLast, ExecutorTypes, Entry
  <2> QED
    BY <2>1, <2>2, <1>1
<1>5. Policy!CanStart(n, when)
  BY <1>1, <1>3, <1>4 DEF Policy!CanStart, Policy!At, At, Policy!Edge, Edge
<1> QED
  BY <1>5 DEF when

(* earliest() never answers later than the policy lets a node start. *)
LEMMA CanStartEarliest ==
  ASSUME ExecutorTypes, EntriesOK, FreeIsLast, NpuReleased, NEW n \in Node,
         NEW t \in Nat, NEW u \in Nat, t <= u, Policy!CanStart(n, u)
  PROVE  Earliest(n, t) \in Nat /\ t <= Earliest(n, t) /\ Earliest(n, t) <= u
<1>1. \A r \in ir.resources[n] : r \in Resource
  BY GraphFacts DEF ExecutorTypes
<1>2. \A r \in ir.resources[n] : resource_free[r] <= u
  BY <1>1 DEF FreeIsLast, Policy!CanStart
<1>3. ir.kind[n] = "NPU" => Edge(u)
  BY DEF Policy!CanStart, Policy!Edge, Edge
<1> QED
  BY <1>2, <1>3, EarliestFacts

(* A node that execute may be called for: the policy lets it start at t,   *)
(* and earliest() confirms the instant.                                    *)
Clear(n, t) == n \in Node /\ t \in Nat /\ Policy!CanStart(n, t) /\ Earliest(n, t) = t

(* At that instant its resources are free and NPU work is on an edge. *)
LEMMA ClearFacts ==
  ASSUME ExecutorInv, NEW n, NEW t, Clear(n, t)
  PROVE  /\ n \in Node /\ t \in Nat /\ n \notin DOMAIN completed
         /\ ir.kind[n] = "NPU" => Edge(t)
         /\ \A r \in ir.resources[n] : resource_free[r] <= t
<1>1. n \in Node /\ t \in Nat /\ Earliest(n, t) = t /\ n \notin DOMAIN completed
  BY DEF Clear, Policy!CanStart
<1> QED
  BY <1>1, EarliestFacts DEF ExecutorInv

----------------------------------------------------------------------------
(* What execute changes, whatever the kind of the node. *)
Placed(n, t, request) ==
  /\ ir' = ir /\ provider' = provider /\ faulted' = faulted
  /\ DOMAIN completed' = DOMAIN completed \cup {n}
  /\ \A m \in DOMAIN completed : completed'[m] = completed[m]
  /\ completed'[n] \in Entry(ir.resources[n])
  /\ Policy!EntryOK(n, completed'[n])
  /\ completed'[n].start = t
  /\ completed'[n].request = request
  /\ resource_free' = [r \in Resource |->
        IF r \in ir.resources[n] THEN completed'[n].until[r] ELSE resource_free[r]]

(* A service that is recorded and charged as execute does places the node. *)
LEMMA ChargePlaces ==
  ASSUME NEW n, n \notin DOMAIN completed, NEW t, NEW request,
         NEW entry \in Entry(ir.resources[n]),
         Record(n, entry), entry.start = t, entry.request = request,
         entry.start <= entry.accepted, entry.accepted <= entry.result,
         entry.result <= entry.resource,
         \A r \in ir.resources[n] : /\ entry.start <= entry.until[r]
                                     /\ entry.until[r] <= entry.resource,
         resource_free' = [r \in Resource |->
            IF r \in ir.resources[n] THEN entry.until[r] ELSE resource_free[r]],
         UNCHANGED <<ir, provider, faulted>>
  PROVE  Placed(n, t, request)
<1>1. completed'[n] = entry /\ DOMAIN completed' = DOMAIN completed \cup {n}
      /\ \A m \in DOMAIN completed : completed'[m] = completed[m]
  BY DEF Record
<1>2. Policy!EntryOK(n, entry)
  BY DEF Policy!EntryOK, Policy!Entry, Entry, Policy!NoRequest, NoRequest
<1> QED
  BY <1>1, <1>2 DEF Placed

(* The CPU branch of execute places the node and leaves the provider alone. *)
LEMMA CpuPlaces ==
  ASSUME ExecutorInv, NEW n, NEW t, Clear(n, t), NEW request \in Nat \cup {NoRequest},
         ExecuteCpu(n, t, request)
  PROVE  Placed(n, t, request) /\ UNCHANGED providerVars
<1>1. PICK duration \in [ir.resources[n] -> 0..MaxCpuTime] :
       LET until == [r \in ir.resources[n] |-> t + duration[r]]
           last  == Max({until[r] : r \in ir.resources[n]})
       IN  /\ resource_free' = [r \in Resource |->
                IF r \in ir.resources[n] THEN until[r] ELSE resource_free[r]]
           /\ Record(n, [request |-> request, start |-> t, accepted |-> t,
                         result |-> last, resource |-> last, until |-> until])
  BY DEF ExecuteCpu
<1> DEFINE until == [r \in ir.resources[n] |-> t + duration[r]]
           all   == {until[r] : r \in ir.resources[n]}
           last  == Max(all)
           entry == [request |-> request, start |-> t, accepted |-> t,
                     result |-> last, resource |-> last, until |-> until]
<1>2. n \in Node /\ n \notin DOMAIN completed /\ t \in Nat /\ MaxCpuTime \in Nat
  BY ServiceAssumption, ClearFacts
<1>3. ir.resources[n] # {}
  BY <1>2, GraphFacts DEF ExecutorInv, ExecutorTypes, ExecuteCpu
<1>4. \A r \in ir.resources[n] :
        until[r] \in Nat /\ t <= until[r] /\ until[r] <= t + MaxCpuTime
  BY <1>2
<1>5. all \subseteq Nat /\ all # {} /\ \A x \in all : t <= x /\ x <= t + MaxCpuTime
  BY <1>3, <1>4
<1>6. last \in Nat /\ last \in all /\ \A x \in all : x <= last
  <2>1. t + MaxCpuTime \in Nat
    BY <1>2
  <2> HIDE DEF all
  <2> QED
    BY <2>1, <1>5, MaxFacts
<1>7. t <= last
  <2> HIDE DEF all, last
  <2> QED
    BY <1>2, <1>5, <1>6
<1>8. \A r \in ir.resources[n] : until[r] <= last
  BY <1>6
<1>9. until \in [ir.resources[n] -> Nat]
  BY <1>4
<1> HIDE DEF last, until
<1>10. entry \in Entry(ir.resources[n])
  BY <1>2, <1>6, <1>9 DEF Entry
<1>11. UNCHANGED <<ir, provider, providerVars>>
  BY DEF ExecuteCpu
<1>12. Record(n, entry)
  BY <1>1 DEF last, until
<1>13. resource_free' = [r \in Resource |->
            IF r \in ir.resources[n] THEN until[r] ELSE resource_free[r]]
  BY <1>1 DEF last, until
<1>14. /\ entry.start = t /\ entry.accepted = t /\ entry.result = last
       /\ entry.resource = last /\ entry.until = until /\ entry.request = request
  OBVIOUS
<1>15. UNCHANGED <<ir, provider, faulted>>
  BY <1>11 DEF providerVars
<1> HIDE DEF entry
<1>16. /\ entry.start <= entry.accepted /\ entry.accepted <= entry.result
       /\ entry.result <= entry.resource
       /\ \A r \in ir.resources[n] : /\ entry.start <= entry.until[r]
                                       /\ entry.until[r] <= entry.resource
  BY <1>2, <1>4, <1>6, <1>7, <1>8, <1>14 DEF until
<1>17. resource_free' = [r \in Resource |->
            IF r \in ir.resources[n] THEN entry.until[r] ELSE resource_free[r]]
  BY <1>13, <1>14
<1>18. Placed(n, t, request)
  BY <1>2, <1>10, <1>12, <1>14, <1>15, <1>16, <1>17, ChargePlaces
<1> QED
  BY <1>11, <1>18

(* A structural node, which takes no service and no resource, is placed. *)
LEMMA StructuralPlaces ==
  ASSUME ExecutorInv, NEW n, NEW t, Clear(n, t), NEW request \in Nat \cup {NoRequest},
         ExecuteStructural(n, t, request)
  PROVE  Placed(n, t, request) /\ UNCHANGED providerVars
<1> DEFINE until == [r \in {} |-> t]
           entry == [request |-> request, start |-> t, accepted |-> t,
                     result |-> t, resource |-> t, until |-> until]
<1>1. n \in Node /\ n \notin DOMAIN completed /\ t \in Nat
  BY ClearFacts
<1>2. ir.resources[n] = {} /\ resource_free \in [Resource -> Nat]
  BY <1>1, GraphFacts DEF ExecutorInv, ExecutorTypes, ExecuteStructural
<1>3. until \in [ir.resources[n] -> Nat]
  BY <1>2
<1> HIDE DEF until
<1>4. entry \in Entry(ir.resources[n])
  BY <1>1, <1>3 DEF Entry
<1>5. UNCHANGED <<ir, provider, resource_free, providerVars>> /\ Record(n, entry)
  BY DEF ExecuteStructural, until
<1>6. /\ entry.start = t /\ entry.accepted = t /\ entry.result = t
      /\ entry.resource = t /\ entry.until = until /\ entry.request = request
  OBVIOUS
<1> HIDE DEF entry
<1>7. resource_free' = [r \in Resource |->
            IF r \in ir.resources[n] THEN entry.until[r] ELSE resource_free[r]]
  BY <1>2, <1>5
<1>8. UNCHANGED <<ir, provider, faulted>>
  BY <1>5 DEF providerVars
<1>9. /\ entry.start <= entry.accepted /\ entry.accepted <= entry.result
      /\ entry.result <= entry.resource
      /\ \A r \in ir.resources[n] : /\ entry.start <= entry.until[r]
                                      /\ entry.until[r] <= entry.resource
  BY <1>1, <1>2, <1>6
<1> QED
  BY <1>1, <1>4, <1>5, <1>6, <1>7, <1>8, <1>9, ChargePlaces

(* An NPU window places its work and occupies its resources to the end. *)
LEMMA NpuPlaces ==
  ASSUME ExecutorInv, NEW n, NEW t, Clear(n, t), NEW request \in Nat \cup {NoRequest},
         NEW accepted \in Nat, NEW result \in Nat, NEW released \in Nat,
         t <= accepted, accepted <= result, result <= released,
         ChargeNpu(n, t, request, accepted, result, released), UNCHANGED faulted
  PROVE  /\ Placed(n, t, request)
         /\ completed'[n].accepted = accepted
         /\ completed'[n].resource = released
         /\ \A r \in ir.resources[n] : resource_free'[r] = released
<1> DEFINE until == [r \in ir.resources[n] |-> released]
           entry == [request |-> request, start |-> t, accepted |-> accepted,
                     result |-> result, resource |-> released, until |-> until]
<1>1. n \in Node /\ n \notin DOMAIN completed /\ t \in Nat
  BY ClearFacts
<1>2. ir.resources[n] \subseteq Resource
  BY <1>1, GraphFacts DEF ExecutorInv, ExecutorTypes
<1>3. until \in [ir.resources[n] -> Nat] /\ \A r \in ir.resources[n] : until[r] = released
  OBVIOUS
<1>4. Record(n, entry)
  BY DEF ChargeNpu
<1>5. resource_free' = [r \in Resource |->
        IF r \in ir.resources[n] THEN until[r] ELSE resource_free[r]]
  BY DEF ChargeNpu
<1>6. UNCHANGED <<ir, provider, faulted>>
  BY DEF ChargeNpu
<1> HIDE DEF until
<1>7. entry \in Entry(ir.resources[n])
  BY <1>1, <1>3 DEF Entry
<1>8. /\ entry.start = t /\ entry.accepted = accepted /\ entry.result = result
      /\ entry.resource = released /\ entry.until = until /\ entry.request = request
  OBVIOUS
<1> HIDE DEF entry
<1>9. /\ entry.start <= entry.accepted /\ entry.accepted <= entry.result
      /\ entry.result <= entry.resource
      /\ \A r \in ir.resources[n] : /\ entry.start <= entry.until[r]
                                      /\ entry.until[r] <= entry.resource
  BY <1>1, <1>3, <1>8
<1>10. resource_free' = [r \in Resource |->
        IF r \in ir.resources[n] THEN entry.until[r] ELSE resource_free[r]]
  BY <1>5, <1>8
<1>11. Placed(n, t, request)
  BY <1>1, <1>4, <1>6, <1>7, <1>8, <1>9, <1>10, ChargePlaces
<1>12. completed'[n] = entry
  BY <1>4 DEF Record
<1> QED
  BY <1>2, <1>3, <1>5, <1>8, <1>11, <1>12

(* The window of a provider without offers. *)
LEMMA EstimatePlaces ==
  ASSUME ExecutorInv, NEW n, NEW t, Clear(n, t), NEW request \in Nat \cup {NoRequest},
         EstimateNpu(n, t, request)
  PROVE  /\ Placed(n, t, request)
         /\ previous_resource_cycle' \in Nat
         /\ provider.kind = "cycle" =>
              /\ previous_resource_cycle' * Cycle = resource_free'[NpuResource]
              /\ invocations' = invocations + 1
         /\ provider.kind # "cycle" => UNCHANGED <<previous_resource_cycle, invocations>>
<1>1. ir.kind[n] = "NPU" /\ ~Stateful /\ UNCHANGED faulted
  BY DEF EstimateNpu
<1>2. PICK result \in 1..MaxNpuCycles : \E resource \in result..MaxNpuCycles :
       /\ ChargeNpu(n, t, request, t, t + result * Cycle, t + resource * Cycle)
       /\ IF provider.kind = "cycle"
          THEN /\ previous_resource_cycle' = (t \div Cycle) + resource
               /\ invocations' = invocations + 1
          ELSE UNCHANGED <<previous_resource_cycle, invocations>>
  BY DEF EstimateNpu
<1>3. PICK resource \in result..MaxNpuCycles :
       /\ ChargeNpu(n, t, request, t, t + result * Cycle, t + resource * Cycle)
       /\ IF provider.kind = "cycle"
          THEN /\ previous_resource_cycle' = (t \div Cycle) + resource
               /\ invocations' = invocations + 1
          ELSE UNCHANGED <<previous_resource_cycle, invocations>>
  BY <1>2
<1>4. /\ n \in Node /\ t \in Nat /\ Cycle \in Nat \ {0} /\ MaxNpuCycles \in Nat
      /\ result \in Nat /\ resource \in Nat /\ result <= resource
      /\ resource <= MaxNpuCycles
  BY IRAssumption, ServiceAssumption, ClearFacts
<1>5. /\ result * Cycle \in Nat /\ resource * Cycle \in Nat
      /\ result * Cycle <= resource * Cycle
  BY <1>4, MulMono
<1>6. /\ Placed(n, t, request)
      /\ \A r \in ir.resources[n] : resource_free'[r] = t + resource * Cycle
  <2> DEFINE a == t + result * Cycle
             b == t + resource * Cycle
  <2>1. a \in Nat /\ b \in Nat /\ t <= t /\ t <= a /\ a <= b
    BY <1>4, <1>5
  <2>2. ChargeNpu(n, t, request, t, a, b) /\ UNCHANGED faulted
    BY <1>1, <1>3
  <2> HIDE DEF a, b
  <2>3. Placed(n, t, request) /\ \A r \in ir.resources[n] : resource_free'[r] = b
    BY <1>4, <2>1, <2>2, NpuPlaces
  <2> QED
    BY <2>3 DEF b
<1>7. NpuResource \in ir.resources[n]
  BY <1>1, <1>4, GraphFacts DEF ExecutorInv, ExecutorTypes
<1>8. Edge(t)
  BY <1>1, ClearFacts
<1>9. t \div Cycle \in Nat /\ (t \div Cycle) * Cycle = t
  BY <1>4, <1>8, EdgeMultiple
<1>10. ((t \div Cycle) + resource) * Cycle = t + resource * Cycle
  BY <1>4, <1>9
<1>11. previous_resource_cycle' \in Nat
  BY <1>3, <1>4, <1>9 DEF ExecutorInv, ExecutorTypes
<1> QED
  BY <1>3, <1>6, <1>7, <1>10, <1>11

(* The window of a stateful provider. *)
LEMMA StatefulPlaces ==
  ASSUME ExecutorInv, NEW n, NEW t, Clear(n, t), NEW request \in Nat \cup {NoRequest},
         StatefulNpu(n, t, request)
  PROVE  /\ Placed(n, t, request)
         /\ previous_resource_cycle' \in Nat
         /\ previous_resource_cycle' * Cycle = resource_free'[NpuResource]
         /\ completed'[n].resource = previous_resource_cycle' * Cycle
         /\ previous_resource_cycle * Cycle <= completed'[n].accepted
         /\ invocations' = invocations + 1
         /\ invocations < Len(provider.trace)
         /\ provider.trace[invocations + 1] = n
<1> DEFINE cycle == t \div Cycle
<1>1. /\ ir.kind[n] = "NPU" /\ Stateful /\ UNCHANGED faulted
      /\ invocations' = invocations + 1 /\ OfferRefusal(n, cycle) = "none"
  BY DEF StatefulNpu
<1>2. PICK accepted \in cycle..(cycle + MaxNpuCycles - 1) :
     \E result \in (accepted + 1)..(cycle + MaxNpuCycles) :
     \E resource \in result..(cycle + MaxNpuCycles) :
       /\ ChargeNpu(n, t, request, accepted * Cycle, result * Cycle, resource * Cycle)
       /\ previous_resource_cycle' = resource
  BY DEF StatefulNpu
<1>3. PICK result \in (accepted + 1)..(cycle + MaxNpuCycles) :
     \E resource \in result..(cycle + MaxNpuCycles) :
       /\ ChargeNpu(n, t, request, accepted * Cycle, result * Cycle, resource * Cycle)
       /\ previous_resource_cycle' = resource
  BY <1>2
<1>4. PICK resource \in result..(cycle + MaxNpuCycles) :
       /\ ChargeNpu(n, t, request, accepted * Cycle, result * Cycle, resource * Cycle)
       /\ previous_resource_cycle' = resource
  BY <1>3
<1>5. /\ n \in Node /\ t \in Nat /\ Edge(t)
      /\ \A r \in ir.resources[n] : resource_free[r] <= t
  BY <1>1, ClearFacts
<1>6. cycle \in Nat /\ cycle * Cycle = t
  BY <1>5, EdgeMultiple
<1> HIDE DEF cycle
<1>7. /\ Cycle \in Nat \ {0} /\ MaxNpuCycles \in Nat
      /\ accepted \in Nat /\ result \in Nat /\ resource \in Nat
      /\ cycle <= accepted /\ accepted <= result /\ result <= resource
  BY <1>6, IRAssumption, ServiceAssumption
<1>8. /\ accepted * Cycle \in Nat /\ result * Cycle \in Nat /\ resource * Cycle \in Nat
      /\ t <= accepted * Cycle /\ accepted * Cycle <= result * Cycle
      /\ result * Cycle <= resource * Cycle
  BY <1>6, <1>7, MulMono
<1>9. /\ Placed(n, t, request) /\ completed'[n].accepted = accepted * Cycle
      /\ completed'[n].resource = resource * Cycle
      /\ \A r \in ir.resources[n] : resource_free'[r] = resource * Cycle
  <2> DEFINE x == accepted * Cycle
             y == result * Cycle
             z == resource * Cycle
  <2>1. x \in Nat /\ y \in Nat /\ z \in Nat /\ t <= x /\ x <= y /\ y <= z
    BY <1>8
  <2>2. ChargeNpu(n, t, request, x, y, z) /\ UNCHANGED faulted
    BY <1>1, <1>4
  <2> HIDE DEF x, y, z
  <2>3. /\ Placed(n, t, request) /\ completed'[n].accepted = x /\ completed'[n].resource = z
        /\ \A r \in ir.resources[n] : resource_free'[r] = z
    BY <2>1, <2>2, NpuPlaces
  <2> QED
    BY <2>3 DEF x, z
<1>10. NpuResource \in ir.resources[n] /\ NpuResource \in Resource
  BY <1>1, <1>5, GraphFacts, IRAssumption DEF ExecutorInv, ExecutorTypes
<1>11. previous_resource_cycle * Cycle \in Nat /\ resource_free[NpuResource] \in Nat
  BY <1>7, <1>10 DEF ExecutorInv, ExecutorTypes
<1>12. previous_resource_cycle * Cycle <= resource_free[NpuResource]
  BY <1>1 DEF ExecutorInv, NpuReleased, Stateful
<1>13. previous_resource_cycle * Cycle <= completed'[n].accepted
  BY <1>5, <1>8, <1>9, <1>10, <1>11, <1>12
<1>14. invocations < Len(provider.trace) /\ provider.trace[invocations + 1] = n
  <2>1. invocations \in Nat /\ Len(provider.trace) \in Nat
    BY GraphFacts, IRAssumption, FS_CardinalityType, FS_Subset
    DEF ExecutorInv, ExecutorTypes, ProviderOK, NpuNodes
  <2> QED
    BY <1>1, <2>1 DEF OfferRefusal
<1> QED
  BY <1>1, <1>4, <1>7, <1>9, <1>10, <1>13, <1>14

----------------------------------------------------------------------------
(* Placing a node keeps what the executor's invariant says of entries and  *)
(* resources.                                                              *)
LEMMA PlacedKeeps ==
  ASSUME ExecutorInv, NEW n, NEW t, NEW request, Clear(n, t), Placed(n, t, request),
         previous_resource_cycle' \in Nat, invocations' \in Nat
  PROVE  /\ ExecutorTypes' /\ EntriesOK' /\ FreeIsLast'
         /\ ResourceExclusive' /\ Causality'
<1> USE DEF ExecutorInv
<1>1. /\ Policy!CanStart(n, t) /\ n \in Node /\ t \in Nat /\ n \notin DOMAIN completed
      /\ \A r \in ir.resources[n] : resource_free[r] <= t
  BY ClearFacts DEF Clear
<1>2. ir.resources \in [Node -> SUBSET Resource] /\ ir.deps \in [Node -> SUBSET Dependency]
  BY GraphFacts DEF ExecutorTypes
<1>3. /\ ir' = ir /\ provider' = provider
      /\ DOMAIN completed' = DOMAIN completed \cup {n}
      /\ \A m \in DOMAIN completed : completed'[m] = completed[m]
  BY DEF Placed
<1>4. /\ completed'[n] \in Entry(ir.resources[n])
      /\ completed'[n].start = t
      /\ Policy!EntryOK(n, completed'[n])
  BY DEF Placed
<1>5. \A r \in Resource : resource_free'[r] =
        IF r \in ir.resources[n] THEN completed'[n].until[r] ELSE resource_free[r]
  BY DEF Placed
<1>6. \A r \in ir.resources[n] :
        completed'[n].until[r] \in Nat /\ t <= completed'[n].until[r]
  BY <1>4 DEF Entry, Policy!EntryOK
<1>7. ExecutorTypes'
  <2>1. resource_free' \in [Resource -> Nat]
    BY <1>6 DEF Placed, ExecutorTypes
  <2>2. DOMAIN completed' \subseteq Node
    BY <1>1, <1>3 DEF ExecutorTypes
  <2>3. \A m \in DOMAIN completed' : completed'[m] \in Entry(ir'.resources[m])
    BY <1>3, <1>4 DEF ExecutorTypes
  <2>4. faulted' \in BOOLEAN
    BY DEF Placed, ExecutorTypes
  <2> QED
    BY <1>3, <2>1, <2>2, <2>3, <2>4 DEF ExecutorTypes
<1>8. \A m \in DOMAIN completed : \A r \in ir.resources[n] \cap ir.resources[m] :
         completed[m].until[r] <= t
  BY <1>1 DEF Policy!CanStart
<1>9. ResourceExclusive'
  BY <1>3, <1>4, <1>8 DEF ResourceExclusive
<1>10. Causality'
  <2>1. \A e \in ir.deps[n] : /\ e.node \in DOMAIN completed
                               /\ At(completed[e.node], e.milestone) <= t
    BY <1>1 DEF Policy!CanStart, Policy!At, At
  <2> QED
    BY <1>1, <1>3, <1>4, <2>1 DEF Causality
<1>11. EntriesOK'
  <2>1. \A m \in DOMAIN completed' : Policy!EntryOK(m, completed[m])'
    BY <1>3, <1>4 DEF EntriesOK, Policy!EntryOK, Policy!Entry, Policy!NoRequest
  <2>2. PICK last \in {0} \cup {completed[m].resource : m \in DOMAIN completed} :
          \A m \in DOMAIN completed : completed[m].resource <= last
    BY DEF EntriesOK
  <2>3. /\ last \in Nat /\ completed'[n].resource \in Nat
        /\ \A m \in DOMAIN completed : completed[m].resource \in Nat
    BY <1>4, <2>2 DEF ExecutorTypes, Entry
  <2>4. /\ last \in {0} \cup {completed'[m].resource : m \in DOMAIN completed'}
        /\ completed'[n].resource \in {0} \cup {completed'[m].resource : m \in DOMAIN completed'}
    BY <1>3, <2>2
  <2>5. CASE completed'[n].resource <= last
    <3>1. \A m \in DOMAIN completed' : completed'[m].resource <= last
      BY <1>3, <2>2, <2>5
    <3> QED
      BY <2>1, <2>4, <3>1 DEF EntriesOK
  <2>6. CASE last <= completed'[n].resource
    <3>1. \A m \in DOMAIN completed' : completed'[m].resource <= completed'[n].resource
      BY <1>3, <2>2, <2>3, <2>6
    <3> QED
      BY <2>1, <2>4, <3>1 DEF EntriesOK
  <2> QED
    BY <2>3, <2>5, <2>6
<1>12. FreeIsLast'
  <2>1. ASSUME NEW r \in Resource, NEW m \in DOMAIN completed, r \in ir.resources[m]
        PROVE  completed'[m].until[r] <= resource_free'[r]
    <3>1. completed[m].until[r] \in Nat /\ completed[m].until[r] <= resource_free[r]
      BY <2>1, <1>2 DEF FreeIsLast, ExecutorTypes, Entry
    <3>2. CASE r \in ir.resources[n]
      BY <3>1, <3>2, <2>1, <1>1, <1>3, <1>5, <1>6, <1>8
    <3>3. CASE r \notin ir.resources[n]
      BY <3>1, <3>3, <1>3, <1>5
    <3> QED
      BY <3>2, <3>3
  <2>2. ASSUME NEW r \in Resource, r \in ir.resources[n]
        PROVE  completed'[n].until[r] <= resource_free'[r]
    BY <2>2, <1>5, <1>6
  <2>3. ASSUME NEW r \in Resource
        PROVE  \/ resource_free'[r] = 0
               \/ \E m \in DOMAIN completed' :
                     r \in ir.resources[m] /\ completed'[m].until[r] = resource_free'[r]
    <3>1. CASE r \in ir.resources[n]
      BY <3>1, <1>3, <1>5
    <3>2. CASE r \notin ir.resources[n]
      BY <3>2, <1>3, <1>5 DEF FreeIsLast
    <3> QED
      BY <3>1, <3>2
  <2> QED
    BY <1>3, <2>1, <2>2, <2>3 DEF FreeIsLast
<1> QED
  BY <1>7, <1>9, <1>10, <1>11, <1>12

(* Placing a node at t lets no other node start before t that could not    *)
(* before.                                                                 *)
LEMMA PlacedLetsNoneEarlier ==
  ASSUME ExecutorInv, NEW n, NEW t, NEW request, Clear(n, t), Placed(n, t, request),
         NEW m \in Node, NEW u \in 0..(t - 1), Policy!CanStart(m, u)'
  PROVE  m \notin DOMAIN completed /\ Policy!CanStart(m, u)
<1>1. /\ n \in Node /\ t \in Nat /\ n \notin DOMAIN completed
      /\ ir.deps \in [Node -> SUBSET Dependency]
  BY ClearFacts, GraphFacts DEF ExecutorInv, ExecutorTypes
<1>2. /\ ir' = ir
      /\ DOMAIN completed' = DOMAIN completed \cup {n}
      /\ \A p \in DOMAIN completed : completed'[p] = completed[p]
      /\ completed'[n] \in Entry(ir.resources[n]) /\ completed'[n].start = t
      /\ Policy!EntryOK(n, completed'[n])
  BY DEF Placed
<1>3. m # n /\ m \notin DOMAIN completed
  BY <1>2 DEF Policy!CanStart
<1>4. \A e \in ir.deps[m] : e.node # n
  <2>1. SUFFICES ASSUME NEW e \in ir.deps[m], e.node = n PROVE FALSE
    OBVIOUS
  <2>2. At(completed'[n], e.milestone) <= u
    BY <2>1, <1>2 DEF Policy!CanStart, Policy!At, At
  <2>3. e.milestone \in Milestone
    BY <1>1, <2>1 DEF Dependency
  <2>4. t <= At(completed'[n], e.milestone) /\ At(completed'[n], e.milestone) \in Nat
    BY <1>2, <2>3 DEF Policy!EntryOK, Entry, At, Milestone
  <2> QED
    BY <2>2, <2>4, <1>1
<1>5. \A e \in ir.deps[m] : /\ e.node \in DOMAIN completed
                             /\ At(completed[e.node], e.milestone) <= u
  BY <1>2, <1>4 DEF Policy!CanStart, Policy!At, At
<1>6. \A r \in ir.resources[m], p \in DOMAIN completed :
         r \in ir.resources[p] => completed[p].until[r] <= u
  BY <1>2 DEF Policy!CanStart
<1> QED
  BY <1>2, <1>3, <1>5, <1>6 DEF Policy!CanStart, Policy!At, At, Policy!Edge

(* Charging a node never moves a release backwards. *)
LEMMA FreeGrows ==
  ASSUME ExecutorInv, NEW n, NEW t, NEW request, Clear(n, t), Placed(n, t, request),
         NEW r \in Resource
  PROVE  /\ resource_free[r] \in Nat /\ resource_free'[r] \in Nat
         /\ resource_free[r] <= resource_free'[r]
<1>1. t \in Nat /\ \A q \in ir.resources[n] : resource_free[q] <= t
  BY ClearFacts
<1>2. resource_free[r] \in Nat
  BY DEF ExecutorInv, ExecutorTypes
<1>3. CASE r \in ir.resources[n]
  <2>1. completed'[n].until[r] \in Nat /\ t <= completed'[n].until[r]
    BY <1>3 DEF Placed, Entry, Policy!EntryOK
  <2> QED
    BY <1>1, <1>2, <1>3, <2>1 DEF Placed
<1>4. CASE r \notin ir.resources[n]
  BY <1>2, <1>4 DEF Placed
<1> QED
  BY <1>3, <1>4

(* The works of the bound trace are the NPU nodes, each at one place. *)
LEMMA TraceFacts ==
  ASSUME ir \in Graphs, provider \in Providers(ir)
  PROVE  /\ IsFiniteSet(NpuNodes(ir)) /\ Cardinality(NpuNodes(ir)) \in Nat
         /\ Len(provider.trace) = Cardinality(NpuNodes(ir))
         /\ DOMAIN provider.trace = 1..Len(provider.trace)
         /\ NpuNodes(ir) = {provider.trace[i] : i \in DOMAIN provider.trace}
         /\ \A i, j \in DOMAIN provider.trace : provider.trace[i] = provider.trace[j] => i = j
<1>1. IsFiniteSet(NpuNodes(ir)) /\ Cardinality(NpuNodes(ir)) \in Nat
  BY IRAssumption, FS_Subset, FS_CardinalityType DEF NpuNodes
<1>2. ProviderOK(ir, provider)
  BY GraphFacts
<1> DEFINE trace == provider.trace
           size  == Cardinality(NpuNodes(ir))
<1>3. trace \in [1..size -> NpuNodes(ir)]
  BY <1>2 DEF ProviderOK
<1>4. trace \in Seq(NpuNodes(ir))
  BY <1>1, <1>3
<1>5. Len(trace) \in Nat /\ DOMAIN trace = 1..Len(trace) /\ DOMAIN trace = 1..size
  BY <1>3, <1>4
<1>6. Len(trace) = size
  <2> HIDE DEF trace, size
  <2>1. size \in Nat
    BY <1>1 DEF size
  <2> QED
    BY <1>5, <2>1, SegmentLength
<1> QED
  BY <1>1, <1>2, <1>5, <1>6 DEF ProviderOK

(* A node that is not NPU work leaves the provider alone. *)
LEMMA OtherKeepsProvider ==
  ASSUME ExecutorInv, ~faulted, NEW n, NEW t, NEW request, Clear(n, t), Placed(n, t, request),
         UNCHANGED providerVars, ir.kind[n] # "NPU"
  PROVE  NpuReleased' /\ ProviderProgress' /\ TraceInOrder'
<1> USE DEF ExecutorInv
<1>1. NpuReleased'
  <2>1. /\ resource_free[NpuResource] \in Nat /\ resource_free'[NpuResource] \in Nat
        /\ resource_free[NpuResource] <= resource_free'[NpuResource]
    BY FreeGrows, IRAssumption
  <2>2. previous_resource_cycle * Cycle \in Nat
    BY IRAssumption DEF ExecutorTypes
  <2> QED
    BY <2>1, <2>2 DEF NpuReleased, Placed, providerVars
<1>2. /\ ir' = ir /\ provider' = provider /\ ~faulted'
      /\ DOMAIN completed' = DOMAIN completed \cup {n} /\ n \notin NpuNodes(ir)
      /\ \A m \in DOMAIN completed : completed'[m] = completed[m]
  BY DEF Placed, NpuNodes
<1>3. NpuNodes(ir) \cap DOMAIN completed' = NpuNodes(ir) \cap DOMAIN completed
  BY <1>2
<1>4. ProviderProgress'
  BY <1>2, <1>3 DEF ProviderProgress, Stateful, providerVars
<1>5. TraceInOrder'
  <2>1. \A i \in DOMAIN provider.trace : provider.trace[i] # n
    BY <1>2, TraceFacts DEF ExecutorTypes
  <2> QED
    BY <1>2, <2>1 DEF TraceInOrder, Stateful
<1> QED
  BY <1>1, <1>4, <1>5

(* After an estimate the provider's clock is the NPU's release, and the     *)
(* cycle provider has counted the work.                                    *)
LEMMA EstimateKeepsProvider ==
  ASSUME ExecutorInv, ~faulted, NEW n, NEW t, NEW request, Clear(n, t), Placed(n, t, request),
         ir.kind[n] = "NPU", ~Stateful,
         previous_resource_cycle' \in Nat,
         provider.kind = "cycle" =>
           /\ previous_resource_cycle' * Cycle = resource_free'[NpuResource]
           /\ invocations' = invocations + 1,
         provider.kind # "cycle" => UNCHANGED <<previous_resource_cycle, invocations>>
  PROVE  NpuReleased' /\ ProviderProgress' /\ TraceInOrder'
<1> USE DEF ExecutorInv
<1>1. /\ ir' = ir /\ provider' = provider /\ ~faulted'
      /\ DOMAIN completed' = DOMAIN completed \cup {n} /\ n \in NpuNodes(ir)
      /\ n \notin DOMAIN completed
  BY ClearFacts DEF Placed, NpuNodes
<1>2. provider.kind = "cycle" \/ provider.kind = "phase_table"
  BY GraphFacts DEF ExecutorTypes, ProviderOK, ProviderKind, Stateful
<1>3. NpuReleased'
  <2>1. resource_free'[NpuResource] \in Nat
    BY FreeGrows, IRAssumption
  <2> QED
    BY <1>1, <1>2, <2>1 DEF NpuReleased
<1>4. TraceInOrder'
  BY <1>1 DEF TraceInOrder, Stateful
<1>5. ProviderProgress'
  <2> DEFINE done == NpuNodes(ir) \cap DOMAIN completed
  <2>1. IsFiniteSet(done) /\ n \notin done
    BY <1>1, TraceFacts, FS_Subset DEF ExecutorTypes
  <2>2. Cardinality(done \cup {n}) = Cardinality(done) + 1
    BY <2>1, FS_AddElement
  <2>3. (NpuNodes(ir) \cap DOMAIN completed)' = done \cup {n}
    BY <1>1
  <2> QED
    BY <1>1, <1>2, <2>2, <2>3 DEF ProviderProgress, Stateful
<1> QED
  BY <1>3, <1>4, <1>5

(* After a native window the provider has run one more work of its trace.  *)
LEMMA StatefulKeepsProvider ==
  ASSUME ExecutorInv, ~faulted, NEW n, NEW t, NEW request, Clear(n, t), Placed(n, t, request),
         ir.kind[n] = "NPU", Stateful,
         previous_resource_cycle' \in Nat,
         previous_resource_cycle' * Cycle = resource_free'[NpuResource],
         completed'[n].resource = previous_resource_cycle' * Cycle,
         previous_resource_cycle * Cycle <= completed'[n].accepted,
         invocations' = invocations + 1,
         invocations < Len(provider.trace),
         provider.trace[invocations + 1] = n
  PROVE  NpuReleased' /\ ProviderProgress' /\ TraceInOrder'
<1> USE DEF ExecutorInv
<1>1. /\ ir' = ir /\ provider' = provider /\ ~faulted'
      /\ DOMAIN completed' = DOMAIN completed \cup {n} /\ n \in NpuNodes(ir)
      /\ n \notin DOMAIN completed
      /\ \A m \in DOMAIN completed : completed'[m] = completed[m]
  BY ClearFacts DEF Placed, NpuNodes
<1>2. /\ invocations \in Nat /\ Len(provider.trace) \in Nat
      /\ DOMAIN provider.trace = 1..Len(provider.trace)
      /\ \A i, j \in DOMAIN provider.trace : provider.trace[i] = provider.trace[j] => i = j
      /\ NpuNodes(ir) = {provider.trace[i] : i \in DOMAIN provider.trace}
  BY TraceFacts DEF ExecutorTypes
<1>3. /\ previous_resource_cycle * Cycle \in Nat
      /\ previous_resource_cycle' * Cycle \in Nat
      /\ completed'[n].accepted \in Nat
      /\ completed'[n].accepted <= previous_resource_cycle' * Cycle
  <2>1. previous_resource_cycle \in Nat /\ previous_resource_cycle' \in Nat /\ Cycle \in Nat
    BY IRAssumption DEF ExecutorTypes
  <2>3. /\ previous_resource_cycle * Cycle \in Nat
        /\ previous_resource_cycle' * Cycle \in Nat
    BY ONLY <2>1, NatProduct
  <2>2. /\ completed'[n].accepted \in Nat /\ completed'[n].result \in Nat
        /\ completed'[n].resource \in Nat
        /\ completed'[n].accepted <= completed'[n].result
        /\ completed'[n].result <= completed'[n].resource
    BY DEF Placed, Entry, Policy!EntryOK
  <2> QED
    BY <2>3, <2>2
<1> DEFINE done == NpuNodes(ir) \cap DOMAIN completed
<1>4. /\ done = {provider.trace[i] : i \in 1..invocations}
      /\ \A m \in done : /\ completed[m].resource \in Nat
                          /\ completed[m].resource <= previous_resource_cycle * Cycle
  BY DEF ProviderProgress, ExecutorTypes, Entry
<1>5. NpuReleased'
  BY <1>1, <1>3 DEF NpuReleased
<1>6. (NpuNodes(ir) \cap DOMAIN completed)' = done \cup {n}
  BY <1>1
<1>7. done \cup {n} = {provider.trace[i] : i \in 1..(invocations + 1)}
  BY <1>2, <1>4
<1>8. \A m \in done \cup {n} : completed'[m].resource <= previous_resource_cycle' * Cycle
  BY <1>1, <1>3, <1>4
<1>9. ProviderProgress'
  <2>1. provider.kind # "cycle"
    BY DEF Stateful
  <2>2. invocations' <= Len(provider'.trace)
    BY <1>1, <1>2
  <2> HIDE DEF done
  <2> QED
    BY <1>1, <1>6, <1>7, <1>8, <2>1, <2>2 DEF ProviderProgress
<1>10. TraceInOrder'
  <2>1. SUFFICES ASSUME NEW i \in DOMAIN provider.trace, NEW j \in DOMAIN provider.trace,
                        i < j, provider.trace[j] \in DOMAIN completed'
                 PROVE  /\ provider.trace[i] \in DOMAIN completed'
                        /\ completed'[provider.trace[i]].resource
                              <= completed'[provider.trace[j]].accepted
    BY <1>1 DEF TraceInOrder
  <2>2. CASE provider.trace[j] = n
    <3>1. j = invocations + 1 /\ i \in 1..invocations
      BY <2>1, <2>2, <1>2
    <3>2. provider.trace[i] \in done
      BY <3>1, <1>4
    <3> QED
      BY <2>2, <3>2, <1>1, <1>3, <1>4
  <2>3. CASE provider.trace[j] # n
    BY <2>1, <2>3, <1>1 DEF TraceInOrder
  <2> QED
    BY <2>2, <2>3
<1> QED
  BY <1>5, <1>9, <1>10

----------------------------------------------------------------------------
(* The executor before any node *)
LEMMA ExecutorStarts ==
  ASSUME ExecutorInit
  PROVE  ExecutorInv
<1>1. /\ ir \in Graphs /\ provider \in Providers(ir) /\ completed = [n \in {} |-> 0]
      /\ resource_free = [r \in Resource |-> 0] /\ previous_resource_cycle = 0
      /\ invocations = 0 /\ faulted = FALSE /\ DOMAIN completed = {}
  BY DEF ExecutorInit
<1>2. ExecutorTypes
  BY <1>1 DEF ExecutorTypes
<1>3. ResourceExclusive /\ Causality /\ EntriesOK
  BY <1>1 DEF ResourceExclusive, Causality, EntriesOK
<1>4. FreeIsLast /\ TraceInOrder
  BY <1>1 DEF FreeIsLast, TraceInOrder
<1>5. NpuReleased
  <2>1. previous_resource_cycle * Cycle = 0 /\ resource_free[NpuResource] = 0
    BY <1>1, IRAssumption
  <2> QED
    BY <2>1 DEF NpuReleased
<1>6. ProviderProgress
  <2>1. NpuNodes(ir) \cap DOMAIN completed = {} /\ Cardinality({}) = 0
    BY <1>1, FS_EmptySet
  <2>2. invocations <= Len(provider.trace)
    BY <1>1, TraceFacts
  <2>3. {provider.trace[i] : i \in 1..invocations} = {}
    BY <1>1
  <2> QED
    BY <1>1, <2>1, <2>2, <2>3 DEF ProviderProgress
<1> QED
  BY <1>2, <1>3, <1>4, <1>5, <1>6 DEF ExecutorInv

(* execute(), called at an instant the policy and earliest() agree on,     *)
(* places the node and keeps the executor's invariant.                     *)
LEMMA ExecuteKeeps ==
  ASSUME ExecutorInv, ~faulted, NEW n, NEW t, NEW request \in Nat \cup {NoRequest},
         Clear(n, t), Execute(n, t, request)
  PROVE  ExecutorInv' /\ Placed(n, t, request)
<1> DEFINE Kept == /\ Placed(n, t, request) /\ previous_resource_cycle' \in Nat
                   /\ invocations' \in Nat
                   /\ NpuReleased' /\ ProviderProgress' /\ TraceInOrder'
<1>1. invocations \in Nat /\ previous_resource_cycle \in Nat
  BY DEF ExecutorInv, ExecutorTypes
<1>2. ASSUME ExecuteCpu(n, t, request) \/ ExecuteStructural(n, t, request)
      PROVE  Kept
  <2>1. Placed(n, t, request) /\ UNCHANGED providerVars
    BY <1>2, CpuPlaces, StructuralPlaces
  <2>2. ir.kind[n] # "NPU"
    BY <1>2 DEF ExecuteCpu, ExecuteStructural
  <2>3. NpuReleased' /\ ProviderProgress' /\ TraceInOrder'
    BY <2>1, <2>2, OtherKeepsProvider
  <2> QED
    BY <1>1, <2>1, <2>3 DEF providerVars
<1>3. ASSUME EstimateNpu(n, t, request)
      PROVE  Kept
  <2>1. /\ Placed(n, t, request) /\ previous_resource_cycle' \in Nat
        /\ provider.kind = "cycle" =>
             /\ previous_resource_cycle' * Cycle = resource_free'[NpuResource]
             /\ invocations' = invocations + 1
        /\ provider.kind # "cycle" => UNCHANGED <<previous_resource_cycle, invocations>>
    BY <1>3, EstimatePlaces
  <2>2. ir.kind[n] = "NPU" /\ ~Stateful
    BY <1>3 DEF EstimateNpu
  <2>3. NpuReleased' /\ ProviderProgress' /\ TraceInOrder'
    BY <2>1, <2>2, EstimateKeepsProvider
  <2> QED
    BY <1>1, <2>1, <2>3
<1>4. ASSUME StatefulNpu(n, t, request)
      PROVE  Kept
  <2>1. /\ Placed(n, t, request)
        /\ previous_resource_cycle' \in Nat
        /\ previous_resource_cycle' * Cycle = resource_free'[NpuResource]
        /\ completed'[n].resource = previous_resource_cycle' * Cycle
        /\ previous_resource_cycle * Cycle <= completed'[n].accepted
        /\ invocations' = invocations + 1
        /\ invocations < Len(provider.trace)
        /\ provider.trace[invocations + 1] = n
    BY <1>4, StatefulPlaces
  <2>2. ir.kind[n] = "NPU" /\ Stateful
    BY <1>4 DEF StatefulNpu
  <2>3. NpuReleased' /\ ProviderProgress' /\ TraceInOrder'
    BY <2>1, <2>2, StatefulKeepsProvider
  <2> QED
    BY <1>1, <2>1, <2>3
<1>5. Kept
  BY <1>2, <1>3, <1>4 DEF Execute
<1>6. ExecutorTypes' /\ EntriesOK' /\ FreeIsLast' /\ ResourceExclusive' /\ Causality'
  BY <1>5, PlacedKeeps
<1> QED
  BY <1>5, <1>6 DEF ExecutorInv

(* Returning, raising or waiting changes neither entries nor resources. *)
LEMMA ExecutorStays ==
  ASSUME ExecutorInv, faulted' \in BOOLEAN, faulted' => status' \notin {"preparing", "running"},
         UNCHANGED <<ir, provider, completed, resource_free, previous_resource_cycle, invocations>>
  PROVE  ExecutorInv'
<1> USE DEF ExecutorInv
<1>1. ExecutorTypes' /\ ResourceExclusive' /\ Causality' /\ TraceInOrder'
  BY DEF ExecutorTypes, ResourceExclusive, Causality, TraceInOrder, Stateful
<1>2. EntriesOK' /\ FreeIsLast' /\ NpuReleased'
  BY DEF EntriesOK, Policy!EntryOK, Policy!Entry, Policy!NoRequest, FreeIsLast, NpuReleased
<1>3. ProviderProgress'
  BY DEF ProviderProgress, Stateful
<1> QED
  BY <1>1, <1>2, <1>3

(* The provider's clock is behind every instant at which NPU work starts. *)
LEMMA ProviderBehind ==
  ASSUME ExecutorInv, NEW n, NEW t, Clear(n, t), ir.kind[n] = "NPU",
         provider.kind # "phase_table"
  PROVE  /\ previous_resource_cycle \in Nat /\ t \div Cycle \in Nat
         /\ previous_resource_cycle <= t \div Cycle
<1>1. n \in Node /\ t \in Nat /\ Edge(t) /\ \A r \in ir.resources[n] : resource_free[r] <= t
  BY ClearFacts
<1>2. NpuResource \in ir.resources[n]
  BY <1>1, GraphFacts DEF ExecutorInv, ExecutorTypes
<1>3. t \div Cycle \in Nat /\ (t \div Cycle) * Cycle = t
  BY <1>1, EdgeMultiple
<1>4. /\ previous_resource_cycle \in Nat /\ previous_resource_cycle * Cycle \in Nat
      /\ resource_free[NpuResource] \in Nat
      /\ previous_resource_cycle * Cycle <= resource_free[NpuResource]
  BY IRAssumption DEF ExecutorInv, ExecutorTypes, NpuReleased
<1>5. previous_resource_cycle * Cycle <= (t \div Cycle) * Cycle
  BY <1>1, <1>2, <1>3, <1>4
<1> QED
  BY <1>3, <1>4, <1>5, CycleOrder

(* execute() may raise, but not for a reason of the scheduler's making,    *)
(* and then changes nothing but the status and the fault.                  *)
LEMMA RaiseKeeps ==
  ASSUME ExecutorInv, ~faulted, NEW n, NEW t, Clear(n, t), ExecuteRaises(n, t)
  PROVE  /\ ExecutorInv'
         /\ status' \in {"native transition", "service boundary mismatch", "request binding",
                         "interleaved offer policy", "back-to-back offer policy"}
         /\ UNCHANGED <<ir, provider, completed>>
<1>1. PICK reason \in Refusals(n, t) :
        /\ Raise(reason)
        /\ faulted' = (faulted \/ reason = "native transition")
        /\ UNCHANGED <<previous_resource_cycle, invocations>>
  BY DEF ExecuteRaises
<1>2. t = Earliest(n, t) /\ n \in Node /\ n \notin DOMAIN completed
  BY ClearFacts DEF Clear
<1> DEFINE cycle == t \div Cycle
<1>3. ASSUME ir.kind[n] = "NPU", Stateful
      PROVE  OfferRefusal(n, cycle) \notin {"faulted", "work order", "offer epoch"}
  <2>1. invocations < Len(provider.trace) /\ invocations \in Nat /\ Len(provider.trace) \in Nat
    <3>1. n \in NpuNodes(ir) /\ n \notin DOMAIN completed
      BY <1>2, <1>3 DEF NpuNodes
    <3>2. /\ invocations \in Nat /\ Len(provider.trace) \in Nat
          /\ DOMAIN provider.trace = 1..Len(provider.trace)
          /\ NpuNodes(ir) = {provider.trace[i] : i \in DOMAIN provider.trace}
      BY TraceFacts DEF ExecutorInv, ExecutorTypes
    <3>3. NpuNodes(ir) \cap DOMAIN completed = {provider.trace[i] : i \in 1..invocations}
      BY <1>3 DEF ExecutorInv, ProviderProgress
    <3>4. PICK i \in 1..Len(provider.trace) : provider.trace[i] = n
      BY <3>1, <3>2
    <3>5. i \notin 1..invocations
      BY <3>1, <3>3, <3>4
    <3> QED
      BY <3>2, <3>4, <3>5
  <2>2. previous_resource_cycle \in Nat /\ cycle \in Nat /\ previous_resource_cycle <= cycle
    BY <1>3, ProviderBehind DEF Stateful
  <2>3. ~(cycle < previous_resource_cycle) /\ ~(invocations >= Len(provider.trace))
    BY <2>1, <2>2
  <2> QED
    BY <2>3 DEF OfferRefusal
<1>4. reason \in {"native transition", "service boundary mismatch", "request binding",
                  "interleaved offer policy", "back-to-back offer policy"}
  <2>1. CASE ir.kind[n] # "NPU"
    BY <1>1, <1>2, <2>1 DEF Refusals
  <2>2. CASE ir.kind[n] = "NPU" /\ Stateful
    <3>1. OfferRefusal(n, cycle) \in
             {"none", "request binding", "interleaved offer policy", "back-to-back offer policy"}
      BY <1>3, <2>2 DEF OfferRefusal
    <3> QED
      BY <1>1, <1>2, <2>2, <3>1 DEF Refusals
  <2>3. CASE ir.kind[n] = "NPU" /\ ~Stateful
    <3>1. provider.kind = "cycle" => ~(cycle < previous_resource_cycle)
      BY <2>3, ProviderBehind
    <3> QED
      BY <1>1, <1>2, <2>3, <3>1 DEF Refusals
  <2> QED
    BY <2>1, <2>2, <2>3
<1>5. status' = reason
      /\ UNCHANGED <<ir, provider, completed, resource_free, previous_resource_cycle, invocations>>
  BY <1>1 DEF Raise
<1>6. faulted' \in BOOLEAN /\ status' \notin {"preparing", "running"}
  BY <1>1, <1>4, <1>5
<1> QED
  BY <1>4, <1>5, <1>6, ExecutorStays

(* When every node has run, the provider has run all of its work. *)
LEMMA CompletedAll ==
  ASSUME ExecutorInv, ~faulted, DOMAIN completed = Node
  PROVE  ProviderComplete
<1> USE DEF ExecutorInv
<1>1. NpuNodes(ir) \cap DOMAIN completed = NpuNodes(ir)
  BY DEF NpuNodes
<1>2. /\ invocations \in Nat /\ Len(provider.trace) \in Nat
      /\ Len(provider.trace) = Cardinality(NpuNodes(ir))
      /\ DOMAIN provider.trace = 1..Len(provider.trace)
      /\ NpuNodes(ir) = {provider.trace[i] : i \in DOMAIN provider.trace}
      /\ \A i, j \in DOMAIN provider.trace : provider.trace[i] = provider.trace[j] => i = j
  BY TraceFacts DEF ExecutorTypes
<1>3. CASE Stateful
  <2>1. /\ invocations <= Len(provider.trace)
        /\ NpuNodes(ir) = {provider.trace[i] : i \in 1..invocations}
    BY <1>1, <1>3 DEF ProviderProgress
  <2>2. invocations = Len(provider.trace)
    <3>1. SUFFICES ASSUME invocations < Len(provider.trace) PROVE FALSE
      BY <1>2, <2>1
    <3>2. invocations + 1 \in DOMAIN provider.trace
      BY <1>2, <3>1
    <3>3. PICK i \in 1..invocations : provider.trace[i] = provider.trace[invocations + 1]
      <4>1. provider.trace[invocations + 1] \in NpuNodes(ir)
        BY <1>2, <3>2
      <4> QED
        BY <2>1, <4>1
    <3>4. i \in DOMAIN provider.trace
      BY <1>2, <2>1, <3>3
    <3> QED
      BY <1>2, <3>2, <3>3, <3>4
  <2> QED
    BY <1>3, <2>1, <2>2 DEF ProviderComplete
<1>4. CASE ~Stateful /\ provider.kind = "cycle"
  BY <1>1, <1>2, <1>4 DEF ProviderProgress, ProviderComplete
<1>5. CASE ~Stateful /\ provider.kind = "phase_table"
  BY <1>5 DEF ProviderComplete
<1>6. provider.kind \in ProviderKind
  BY GraphFacts DEF ExecutorTypes, ProviderOK
<1> QED
  BY <1>3, <1>4, <1>5, <1>6 DEF ProviderKind, Stateful

(* A start of the policy's choice at t is a step of the policy. *)
LEMMA PlacedRefines ==
  ASSUME ExecutorInv, NEW n, NEW t, NEW request, Execute(n, t, request),
         Clear(n, t), Placed(n, t, request),
         \A m \in Node, u \in 0..t : Policy!CanStart(m, u) => u = t /\ ~Precedes(ir, m, n)
  PROVE  Policy!AbsNext
<1>1. Policy!Chosen(n, t)
  BY DEF Clear, Policy!Chosen, Policy!Precedes, Precedes
<1>2. /\ completed'[n].start = t
      /\ Policy!EntryOK(n, completed'[n])
      /\ UNCHANGED ir
      /\ n \in DOMAIN completed'
  BY DEF Placed
<1>3. completed' = [m \in DOMAIN completed \cup {n} |->
                     IF m = n THEN completed'[n] ELSE completed[m]]
  <2>1. PICK entry : completed' = [m \in DOMAIN completed \cup {n} |->
                                    IF m = n THEN entry ELSE completed[m]]
    BY DEF Execute, ExecuteCpu, ExecuteStructural, EstimateNpu, StatefulNpu,
           ChargeNpu, Record
  <2> QED
    BY <2>1
<1>4. Policy!Place(n, completed'[n])
  BY <1>1, <1>2, <1>3 DEF Policy!Place
<1> QED
  BY <1>2, <1>4 DEF Policy!AbsNext

(* The executor's first state is one of the policy's. *)
LEMMA InitRefines ==
  ASSUME ExecutorInit
  PROVE  Policy!AbsInit
BY InputAssumption
DEF ExecutorInit, Policy!AbsInit, WellFormed, Policy!WellFormed,
    Graph, Policy!Graph, OwnershipOK, Policy!OwnershipOK, Dependency, Policy!Dependency,
    Kind, Policy!Kind, Milestone, Policy!Milestone

(* In a graph without a cycle some unfinished node has all its parents. *)
LEMMA SomeUnblocked ==
  ASSUME ExecutorTypes, Acyclic(ir), DOMAIN completed # Node
  PROVE  \E n \in Node \ DOMAIN completed : Parents(ir, n) \subseteq DOMAIN completed
<1> DEFINE pending == Node \ DOMAIN completed
<1>1. PICK rank \in [Node -> 1..Cardinality(Node)] :
        \A n \in Node : \A p \in Parents(ir, n) : rank[p] < rank[n]
  BY DEF Acyclic
<1>2. Cardinality(Node) \in Nat /\ pending \subseteq Node /\ pending # {}
  BY IRAssumption, FS_CardinalityType DEF ExecutorTypes
<1>3. \A n \in Node : rank[n] \in Nat
  BY <1>1, <1>2
<1> DEFINE ranks == {rank[n] : n \in pending}
<1>4. PICK least \in ranks : \A k \in ranks : least <= k
  <2>1. ranks \subseteq Nat /\ ranks # {}
    BY <1>2, <1>3
  <2> HIDE DEF ranks
  <2> QED
    BY <2>1, NatMin
<1>5. PICK n \in pending : rank[n] = least
  BY <1>4
<1>6. Parents(ir, n) \subseteq Node
  BY <1>2, GraphFacts DEF ExecutorTypes, Parents, Dependency
<1>7. \A p \in Parents(ir, n) : p \notin pending
  <2>1. SUFFICES ASSUME NEW p \in Parents(ir, n), p \in pending PROVE FALSE
    OBVIOUS
  <2>2. rank[p] < rank[n] /\ rank[n] <= rank[p] /\ rank[p] \in Nat /\ rank[n] \in Nat
    BY <1>1, <1>2, <1>3, <1>4, <1>5, <2>1
  <2> QED
    BY <2>2
<1> QED
  BY <1>6, <1>7
============================================================================
