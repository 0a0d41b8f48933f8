---------------------------- MODULE LayeringProofs ----------------------------
(***************************************************************************)
(* Proofs about Layering for any owners, ranks and trees.                  *)
(*                                                                         *)
(* find_cycle is exact because of two facts its loop keeps.  The stack is  *)
(* a path of the graph without repetitions and it is what `active` says,   *)
(* so an edge back into it closes a cycle.  And the nodes it has finished  *)
(* depend on finished nodes only, each finished after all it depends on,   *)
(* so every set of finished nodes has one that depends on no other of them. *)
(***************************************************************************)
EXTENDS Layering, SequenceTheorems, TLAPS

Finished == visited \ active

\* The stack is a path, without repetitions, of the active nodes.
OnPath ==
  /\ \A i \in 1..(Len(stack) - 1) : stack[i + 1] \in graph[stack[i]]
  /\ \A i, j \in 1..Len(stack) : stack[i] = stack[j] => i = j
  /\ \A i \in 1..Len(stack) : stack[i] \in active
  /\ \A o \in active : \E i \in 1..Len(stack) : stack[i] = o

\* What a call has looked at is finished, or the call it is waiting for.
LookedAt ==
  /\ \A o \in Owners : left[o] \subseteq graph[o]
  /\ \A i \in 1..Len(stack) : \A d \in graph[stack[i]] \ left[stack[i]] :
       d \in Finished \/ (i < Len(stack) /\ d = stack[i + 1])

\* The finished nodes: closed under dependency, and acyclic.
Closed == \A o \in Finished : graph[o] \subseteq Finished
Sinks  == \A S \in SUBSET Finished : S # {} => \E o \in S : graph[o] \cap S = {}

Phases ==
  /\ phase = "scan" => stack = <<>> /\ visited = {} /\ left = [o \in Owners |-> {}]
  /\ phase # "scan" => /\ graph = [o \in Owners |-> Edges(tree, o)]
                       /\ Reverse(tree) => failures # {}
  /\ phase \in {"scan", "search"} => cycle = <<>>
  /\ phase \in {"judge", "done"} /\ cycle = <<>> => stack = <<>> /\ Keys \subseteq visited

IInv == TypeOK /\ OnPath /\ LookedAt /\ Closed /\ Sinks /\ Phases /\ CycleIsReal

-----------------------------------------------------------------------------

\* A new call: the path grows by an edge from its end.
LEMMA VisitKeeps ==
  ASSUME IInv, NEW node \in Owners \ visited, NEW remaining \in [Owners -> SUBSET Owners],
         Visit(node, remaining), UNCHANGED <<tree, phase, graph, failures, cycle>>,
         phase = "search",
         \A o \in Owners : remaining[o] \subseteq left[o],
         \A i \in 1..Len(stack) : i < Len(stack) => remaining[stack[i]] = left[stack[i]],
         stack # <<>> => /\ remaining[Top] = left[Top] \ {node}
                         /\ node \in graph[Top]
  PROVE  IInv'
<1> DEFINE n == Len(stack)
<1>1. /\ n \in Nat /\ stack' = Append(stack, node) /\ stack' \in Seq(Owners)
      /\ Len(stack') = n + 1 /\ stack'[n + 1] = node
      /\ \A i \in 1..n : stack'[i] = stack[i] /\ stack[i] \in Owners
  BY AppendProperties, LenProperties DEF Visit, IInv, TypeOK
<1>2. /\ visited' = visited \cup {node} /\ active' = active \cup {node}
      /\ left' = [remaining EXCEPT ![node] = graph[node]]
      /\ graph' = graph /\ Finished' = Finished /\ node \notin active
  BY DEF Visit, IInv, TypeOK, Finished
<1>3. TypeOK'
  BY <1>1, <1>2 DEF IInv, TypeOK
<1>4. OnPath'
  <2>1. \A i \in 1..n : stack[i] \in active /\ stack[i] # node
    BY <1>2 DEF IInv, OnPath
  <2>2. \A i \in 1..(n + 1) : stack'[i] \in active'
    BY <1>1, <1>2, <2>1
  <2>3. \A o \in active' : \E i \in 1..(n + 1) : stack'[i] = o
    <3>1. ASSUME NEW o \in active PROVE \E i \in 1..(n + 1) : stack'[i] = o
      <4>1. PICK i \in 1..n : stack[i] = o
        BY DEF IInv, OnPath
      <4> QED
        BY <1>1, <4>1
    <3> QED
      BY <1>1, <1>2, <3>1
  <2>4. \A i, j \in 1..(n + 1) : stack'[i] = stack'[j] => i = j
    BY <1>1, <2>1 DEF IInv, OnPath
  <2>5. ASSUME NEW i \in 1..n PROVE stack'[i + 1] \in graph'[stack'[i]]
    <3>1. CASE i = n
      BY <1>1, <1>2, <3>1 DEF Top
    <3>2. CASE i # n
      BY <1>1, <1>2, <3>2 DEF IInv, OnPath
    <3> QED
      BY <3>1, <3>2
  <2>6. \A i \in 1..(Len(stack') - 1) : stack'[i + 1] \in graph'[stack'[i]]
    <3> HIDE DEF n
    <3> QED
      BY <1>1, <2>5
  <2> QED
    BY <1>1, <2>2, <2>3, <2>4, <2>6 DEF OnPath
<1>5. LookedAt'
  <2>1. \A o \in Owners : left'[o] \subseteq graph[o]
    BY <1>2 DEF IInv, LookedAt, TypeOK
  <2>2. ASSUME NEW i \in 1..(n + 1), NEW d \in graph[stack'[i]] \ left'[stack'[i]]
        PROVE  d \in Finished \/ (i < n + 1 /\ d = stack'[i + 1])
    <3>1. CASE i = n + 1
      BY <1>1, <1>2, <2>2, <3>1
    <3>2. CASE i = n
      <4>1. stack # <<>> /\ stack'[i] = Top /\ Top # node /\ Top \in Owners
        BY <1>1, <1>2, <3>2 DEF Top, IInv, OnPath
      <4>2. d \in graph[Top] /\ d \notin left[Top] \ {node}
        BY <1>2, <2>2, <4>1 DEF IInv, TypeOK
      <4>3. d = node \/ d \in Finished
        BY <1>1, <3>2, <4>2 DEF IInv, LookedAt, Top
      <4> QED
        BY <1>1, <3>2, <4>3
    <3>3. CASE i \in 1..n /\ i < n
      <4>1. stack'[i] = stack[i] /\ stack[i] # node /\ stack[i] \in Owners
            /\ stack'[i + 1] = stack[i + 1]
        BY <1>1, <1>2, <3>3 DEF IInv, OnPath
      <4>2. d \in graph[stack[i]] \ left[stack[i]]
        BY <1>2, <2>2, <3>3, <4>1
      <4> QED
        BY <3>3, <4>1, <4>2 DEF IInv, LookedAt
    <3> QED
      BY <1>1, <3>1, <3>2, <3>3
  <2> QED
    BY <1>1, <1>2, <2>1, <2>2 DEF LookedAt
<1>6. Closed' /\ Sinks' /\ CycleIsReal'
  BY <1>2 DEF IInv, Closed, Sinks, CycleIsReal
<1>7. Phases'
  BY <1>2 DEF IInv, Phases, Reverse, Edges, Rank
<1> QED
  BY <1>3, <1>4, <1>5, <1>6, <1>7 DEF IInv

\* A call returns: the stack loses its end.
LEMMA ReturnPops ==
  ASSUME IInv, Return
  PROVE  /\ Len(stack) \in Nat \ {0} /\ Top = stack[Len(stack)] /\ Top \in Owners
         /\ stack' \in Seq(Owners) /\ Len(stack') = Len(stack) - 1
         /\ \A i \in 1..(Len(stack) - 1) : stack'[i] = stack[i]
<1> DEFINE n == Len(stack)
<1>1. n \in Nat \ {0} /\ \A i \in 1..n : stack[i] \in Owners
  BY EmptySeq, LenProperties DEF Return, IInv, TypeOK
<1> DEFINE k == n - 1
<1>2. k \in Nat /\ \A i \in 1..k : stack[i] \in Owners
  BY <1>1
<1>3. 1 \in Int /\ k \in Int
  BY <1>2
<1> HIDE DEF k
<1>4. /\ SubSeq(stack, 1, k) \in Seq(Owners)
      /\ Len(SubSeq(stack, 1, k)) = IF 1 <= k THEN k - 1 + 1 ELSE 0
      /\ \A i \in 1..(k - 1 + 1) : SubSeq(stack, 1, k)[i] = stack[1 + i - 1]
  BY <1>2, <1>3, SubSeqProperties
<1>5. Len(SubSeq(stack, 1, k)) = k /\ \A i \in 1..k : SubSeq(stack, 1, k)[i] = stack[i]
  BY <1>2, <1>4
<1>6. stack' = SubSeq(stack, 1, k)
  BY DEF Return, k
<1> QED
  BY <1>1, <1>4, <1>5, <1>6 DEF Top, k

\* Its node is finished, after everything it depends on.
LEMMA ReturnKeeps ==
  ASSUME IInv, Return
  PROVE  IInv'
<1> DEFINE n == Len(stack)
<1>1. /\ n \in Nat \ {0} /\ Top = stack[n] /\ Top \in Owners
      /\ stack' \in Seq(Owners) /\ Len(stack') = n - 1
      /\ \A i \in 1..(n - 1) : stack'[i] = stack[i]
  BY ReturnPops
<1>2. /\ active' = active \ {Top} /\ UNCHANGED <<visited, left, graph, tree, phase, failures, cycle>>
      /\ left[Top] = {} /\ Top \in active /\ phase = "search" /\ Top \notin Finished
      /\ Finished' = Finished \cup {Top}
  BY <1>1 DEF Return, IInv, TypeOK, Finished, OnPath
<1>3. TypeOK'
  BY <1>1, <1>2 DEF IInv, TypeOK
<1>4. graph[Top] \subseteq Finished
  BY <1>1, <1>2 DEF IInv, LookedAt, TypeOK
<1>5. OnPath'
  <2>1. ASSUME NEW o \in active' PROVE \E i \in 1..(n - 1) : stack'[i] = o
    <3>1. PICK i \in 1..n : stack[i] = o
      BY <1>2 DEF IInv, OnPath
    <3>2. i # n
      BY <1>1, <1>2, <3>1
    <3> QED
      BY <1>1, <3>1, <3>2
  <2>2. ASSUME NEW i \in 1..(n - 1) PROVE stack'[i] \in active'
    BY <1>1, <1>2 DEF IInv, OnPath
  <2>3. ASSUME NEW i \in 1..(n - 1), NEW j \in 1..(n - 1), stack'[i] = stack'[j] PROVE i = j
    BY <1>1, <2>3 DEF IInv, OnPath
  <2>4. ASSUME NEW i \in 1..((n - 1) - 1) PROVE stack'[i + 1] \in graph'[stack'[i]]
    <3>1. i \in 1..(n - 1) /\ i + 1 \in 1..(n - 1)
      BY <1>1
    <3> QED
      BY <1>1, <1>2, <3>1 DEF IInv, OnPath
  <2> HIDE DEF n
  <2> QED
    BY <1>1, <2>1, <2>2, <2>3, <2>4 DEF OnPath
<1>6. LookedAt'
  <2>1. ASSUME NEW i \in 1..(n - 1), NEW d \in graph[stack[i]] \ left[stack[i]]
        PROVE  d \in Finished' \/ (i < n - 1 /\ d = stack'[i + 1])
    <3>1. i \in 1..n /\ (i = n - 1 \/ (i < n - 1 /\ stack'[i + 1] = stack[i + 1]))
      BY <1>1
    <3>2. d \in Finished \/ d = stack[i + 1]
      BY <2>1, <3>1 DEF IInv, LookedAt
    <3> QED
      BY <1>1, <1>2, <3>1, <3>2
  <2> HIDE DEF n
  <2> QED
    BY <1>1, <1>2, <2>1 DEF LookedAt, IInv
<1>7. Closed'
  BY <1>2, <1>4 DEF Closed, IInv
<1>8. Sinks'
  <2> SUFFICES ASSUME NEW S \in SUBSET Finished', S # {}
               PROVE  \E o \in S : graph[o] \cap S = {}
    BY <1>2 DEF Sinks
  <2>1. CASE S \cap Finished = {}
    BY <1>2, <1>4, <2>1
  <2>2. CASE S \cap Finished # {}
    <3>1. PICK o \in S \cap Finished : graph[o] \cap (S \cap Finished) = {}
      BY <2>2 DEF IInv, Sinks
    <3>2. graph[o] \subseteq Finished
      BY <3>1, <1>2 DEF IInv, Closed
    <3> QED
      BY <3>1, <3>2
  <2> QED
    BY <2>1, <2>2
<1>9. Phases' /\ CycleIsReal'
  BY <1>2 DEF IInv, Phases, CycleIsReal, Reverse, Edges, Rank
<1> QED
  BY <1>3, <1>5, <1>6, <1>7, <1>8, <1>9 DEF IInv

\* An edge back into the stack closes a cycle: from its end on, the stack is one.
LEMMA CloseKeeps ==
  ASSUME IInv, NEW d \in Owners, Close(d)
  PROVE  IInv'
<1> DEFINE n == Len(stack)
<1>1. PICK s \in 1..n : /\ stack[s] = d
                        /\ cycle' = Append(SubSeq(stack, s, n), d)
  BY DEF Close
<1> DEFINE p == SubSeq(stack, s, n)
<1> DEFINE m == (n - s) + 1
<1>2. /\ n \in Nat \ {0} /\ m \in Nat \ {0} /\ Top = stack[n]
      /\ \A i \in 1..n : stack[i] \in Owners
  BY <1>1, LenProperties DEF Top, IInv, TypeOK
<1>3. p \in Seq(Owners) /\ Len(p) = m /\ \A i \in 1..m : p[i] = stack[s + i - 1]
  <2>1. \A i \in s..n : stack[i] \in Owners
    BY <1>1, <1>2
  <2> QED
    BY <1>1, <1>2, <2>1, SubSeqProperties
<1>4. /\ cycle' = Append(p, d) /\ cycle' \in Seq(Owners) /\ Len(cycle') = m + 1
      /\ \A i \in 1..m : cycle'[i] = stack[s + i - 1]
      /\ cycle'[m + 1] = d
  BY <1>1, <1>3, AppendProperties
<1>5. /\ UNCHANGED <<visited, active, stack, left, graph, tree, failures>>
      /\ phase' = "judge" /\ d \in graph[Top] /\ phase = "search" /\ cycle' # <<>>
      /\ Top \in Owners
  <2>1. Top \in Owners /\ left[Top] \subseteq graph[Top]
    BY <1>2 DEF IInv, LookedAt
  <2>2. cycle' # <<>>
    BY <1>4, <1>3, AppendProperties
  <2> QED
    BY <2>1, <2>2 DEF Close, search
<1> HIDE DEF p
<1>6. CycleIsReal'
  <2>1. cycle'[1] = d
    BY <1>1, <1>2, <1>4
  <2>2. ASSUME NEW i \in 1..m PROVE cycle'[i + 1] \in graph[cycle'[i]]
    <3>1. CASE i = m
      BY <1>1, <1>2, <1>4, <1>5, <3>1
    <3>2. CASE i # m
      <4>1. /\ i + 1 \in 1..m /\ s + i - 1 \in 1..(n - 1)
            /\ s + (i + 1) - 1 = (s + i - 1) + 1
        BY <1>1, <1>2, <3>2
      <4>2. stack[(s + i - 1) + 1] \in graph[stack[s + i - 1]]
        BY <4>1 DEF IInv, OnPath
      <4> QED
        BY <1>4, <4>1, <4>2
    <3> QED
      BY <3>1, <3>2
  <2>3. ASSUME NEW i \in 1..m, NEW j \in 1..m, cycle'[i] = cycle'[j] PROVE i = j
    <3>1. s + i - 1 \in 1..n /\ s + j - 1 \in 1..n
      BY <1>1, <1>2
    <3>2. s + i - 1 = s + j - 1
      BY <1>4, <2>3, <3>1 DEF IInv, OnPath
    <3> QED
      BY <1>1, <1>2, <3>2
  <2>4. Len(cycle') - 1 = m
    BY <1>2, <1>4
  <2>5. Len(cycle') > 1 /\ cycle'[Len(cycle')] = cycle'[1] /\ graph' = graph
    BY <1>2, <1>4, <1>5, <2>1
  <2> HIDE DEF m
  <2> QED
    BY <2>2, <2>3, <2>4, <2>5 DEF CycleIsReal
<1>7. TypeOK'
  BY <1>4, <1>5 DEF IInv, TypeOK
<1>8. OnPath' /\ LookedAt' /\ Closed' /\ Sinks'
  BY <1>5 DEF IInv, OnPath, LookedAt, Closed, Sinks, Finished
<1>9. Phases'
  BY <1>5 DEF IInv, Phases, Reverse, Edges, Rank
<1> QED
  BY <1>6, <1>7, <1>8, <1>9 DEF IInv

\* No step disturbs the invariant.
THEOREM Invariant == Spec => []IInv
<1>1. Init => IInv
  <2> SUFFICES ASSUME Init PROVE IInv
    OBVIOUS
  <2>1. /\ tree \in Tree /\ phase = "scan" /\ graph = [o \in Owners |-> {}] /\ failures = {}
        /\ visited = {} /\ active = {} /\ stack = <<>> /\ left = [o \in Owners |-> {}]
        /\ cycle = <<>> /\ Len(stack) = 0
    BY TreesAssumption DEF Init
  <2>2. TypeOK
    BY <2>1, EmptySeq DEF TypeOK
  <2>3. OnPath /\ LookedAt /\ Closed /\ Sinks /\ Phases /\ CycleIsReal
    BY <2>1 DEF OnPath, LookedAt, Closed, Sinks, Phases, CycleIsReal, Finished
  <2> QED
    BY <2>2, <2>3 DEF IInv
<1>2. IInv /\ [Next]_vars => IInv'
  <2> SUFFICES ASSUME IInv, [Next]_vars PROVE IInv'
    OBVIOUS
  <2>1. CASE Scan
    <3>1. /\ graph' = [o \in Owners |-> Edges(tree, o)] /\ phase = "scan" /\ phase' = "search"
          /\ failures' \subseteq Rules /\ (Reverse(tree) => failures' # {})
          /\ UNCHANGED <<tree, visited, active, stack, left, cycle>>
          /\ stack = <<>> /\ visited = {} /\ left = [o \in Owners |-> {}] /\ cycle = <<>>
      BY <2>1 DEF Scan, search, IInv, Phases, Rules
    <3>2. active = {} /\ Len(stack) = 0
      BY <3>1 DEF IInv, TypeOK
    <3>3. tree.plain \in [Owners -> SUBSET Owners]
      BY DEF IInv, TypeOK, Tree
    <3>4. \A o \in Owners : Edges(tree, o) \in SUBSET Owners
      BY <3>3 DEF Edges
    <3>5. graph' \in [Owners -> SUBSET Owners]
      BY <3>1, <3>4
    <3>6. TypeOK'
      BY <3>1, <3>5 DEF IInv, TypeOK
    <3>7. OnPath' /\ LookedAt' /\ Closed' /\ Sinks' /\ CycleIsReal'
      BY <3>1, <3>2 DEF OnPath, LookedAt, Closed, Sinks, CycleIsReal, Finished
    <3>8. Phases'
      BY <3>1 DEF Phases, Reverse, Edges, Rank
    <3> QED
      BY <3>6, <3>7, <3>8 DEF IInv
  <2>2. CASE Return
    BY <2>2, ReturnKeeps
  <2>3. CASE Exhausted
    <3>1. /\ UNCHANGED <<tree, graph, failures, visited, active, stack, left, cycle>>
          /\ phase = "search" /\ phase' = "judge" /\ stack = <<>> /\ Keys \subseteq visited
      BY <2>3 DEF Exhausted, search
    <3>2. TypeOK' /\ OnPath' /\ LookedAt' /\ Closed' /\ Sinks' /\ CycleIsReal'
      BY <3>1 DEF IInv, TypeOK, OnPath, LookedAt, Closed, Sinks, CycleIsReal, Finished
    <3>3. Phases'
      BY <3>1 DEF IInv, Phases, Reverse, Edges, Rank, Keys
    <3> QED
      BY <3>2, <3>3 DEF IInv
  <2>4. CASE Judge
    <3>1. /\ UNCHANGED <<tree, graph, visited, active, stack, left, cycle>>
          /\ phase = "judge" /\ phase' = "done"
          /\ failures \subseteq failures' /\ failures' \subseteq failures \cup Rules
      BY <2>4 DEF Judge, search, Rules
    <3>2. TypeOK' /\ OnPath' /\ LookedAt' /\ Closed' /\ Sinks' /\ CycleIsReal'
      BY <3>1 DEF IInv, TypeOK, OnPath, LookedAt, Closed, Sinks, CycleIsReal, Finished
    <3>3. Phases'
      BY <3>1 DEF IInv, Phases, Reverse, Edges, Rank, Keys
    <3> QED
      BY <3>2, <3>3 DEF IInv
  <2>5. ASSUME NEW o \in Owners, Root(o) PROVE IInv'
    <3>1. /\ o \in Owners \ visited /\ Visit(o, left) /\ phase = "search" /\ stack = <<>>
          /\ UNCHANGED <<tree, phase, graph, failures, cycle>> /\ Len(stack) = 0
          /\ left \in [Owners -> SUBSET Owners]
      BY <2>5 DEF Root, IInv, TypeOK
    <3> QED
      BY <3>1, VisitKeeps
  <2>6. ASSUME NEW o \in Owners, Descend(o) PROVE IInv'
    <3> DEFINE r == Looked(o)
    <3>1. /\ o \in left[Top] /\ o \in Owners \ visited /\ Visit(o, r) /\ phase = "search"
          /\ stack # <<>> /\ UNCHANGED <<tree, phase, graph, failures, cycle>>
      BY <2>6 DEF Descend
    <3>2. Len(stack) \in Nat \ {0} /\ Top \in Owners /\ \A i \in 1..Len(stack) : stack[i] \in Owners
      BY <3>1, EmptySeq, LenProperties DEF IInv, TypeOK, Top
    <3>3. /\ r \in [Owners -> SUBSET Owners] /\ r[Top] = left[Top] \ {o}
          /\ \A q \in Owners : r[q] \subseteq left[q] /\ (q # Top => r[q] = left[q])
      BY <3>2 DEF Looked, IInv, TypeOK
    <3>4. \A i \in 1..Len(stack) : i < Len(stack) => stack[i] # Top
      BY <3>2 DEF IInv, OnPath, Top
    <3>5. o \in graph[Top]
      BY <3>1, <3>2 DEF IInv, LookedAt
    <3> HIDE DEF r
    <3> QED
      BY <3>1, <3>2, <3>3, <3>4, <3>5, VisitKeeps
  <2>7. ASSUME NEW o \in Owners, Close(o) PROVE IInv'
    BY <2>7, CloseKeeps
  <2>8. ASSUME NEW o \in Owners, Pass(o) PROVE IInv'
    <3>1. /\ o \in left[Top] /\ o \in Finished /\ left' = [left EXCEPT ![Top] = @ \ {o}]
          /\ UNCHANGED <<tree, phase, graph, failures, visited, active, stack, cycle>>
          /\ phase = "search" /\ stack # <<>>
      BY <2>8 DEF Pass, Finished, Looked
    <3>2. Len(stack) \in Nat \ {0} /\ Top \in Owners /\ \A i \in 1..Len(stack) : stack[i] \in Owners
      BY <3>1, EmptySeq, LenProperties DEF IInv, TypeOK, Top
    <3>3. TypeOK'
      BY <3>1, <3>2 DEF IInv, TypeOK
    <3>4. OnPath' /\ Closed' /\ Sinks' /\ CycleIsReal'
      BY <3>1 DEF IInv, OnPath, Closed, Sinks, CycleIsReal, Finished
    <3>5. LookedAt'
      <4>1. \A q \in Owners : left'[q] \subseteq left[q] /\ left[q] \subseteq left'[q] \cup {o}
        BY <3>1, <3>2 DEF IInv, TypeOK
      <4> QED
        BY <3>1, <3>2, <4>1 DEF IInv, LookedAt, Finished
    <3>6. Phases'
      BY <3>1 DEF IInv, Phases, Reverse, Edges, Rank
    <3> QED
      BY <3>3, <3>4, <3>5, <3>6 DEF IInv
  <2>9. CASE UNCHANGED vars
    BY <2>9 DEF vars, search, IInv, TypeOK, OnPath, LookedAt, Closed, Sinks, Phases,
       CycleIsReal, Finished, Reverse, Edges, Rank, Keys
  <2> QED
    BY <2>1, <2>2, <2>3, <2>4, <2>5, <2>6, <2>7, <2>8, <2>9 DEF Next
<1> QED
  BY <1>1, <1>2, PTL DEF Spec

\* Every variable of the check keeps its type.
THEOREM TypeCorrect == Spec => []TypeOK
<1>1. IInv => TypeOK
  BY DEF IInv
<1> QED
  BY <1>1, Invariant, PTL

\* What find_cycle reports is a cycle of the graph.
THEOREM CyclesAreReal == Spec => []CycleIsReal
<1>1. IInv => CycleIsReal
  BY DEF IInv
<1> QED
  BY <1>1, Invariant, PTL

\* find_cycle answers None exactly of the acyclic graphs, of any size.
THEOREM SearchExact == Spec => []SearchIsExact
<1>1. IInv => SearchIsExact
  <2> SUFFICES ASSUME IInv, phase \in {"judge", "done"} PROVE cycle = <<>> <=> Acyclic(graph)
    BY DEF SearchIsExact
  <2>1. ASSUME cycle = <<>> PROVE Acyclic(graph)
    <3>1. stack = <<>> /\ Keys \subseteq visited /\ Len(stack) = 0
      BY <2>1 DEF IInv, Phases
    <3>2. active = {} /\ Keys \subseteq Finished
      BY <3>1 DEF IInv, OnPath, Finished
    <3> SUFFICES ASSUME NEW S \in SUBSET Owners, S # {} PROVE \E o \in S : graph[o] \cap S = {}
      BY DEF Acyclic
    <3>3. CASE S \cap Finished = {}
      BY <3>2, <3>3 DEF Keys
    <3>4. CASE S \cap Finished # {}
      <4>1. PICK o \in S \cap Finished : graph[o] \cap (S \cap Finished) = {}
        BY <3>4 DEF IInv, Sinks
      <4>2. graph[o] \subseteq Finished
        BY <4>1 DEF IInv, Closed, TypeOK, Finished
      <4> QED
        BY <4>1, <4>2
    <3> QED
      BY <3>3, <3>4
  <2>2. ASSUME cycle # <<>> PROVE ~Acyclic(graph)
    <3> DEFINE m == Len(cycle) - 1
    <3>1. /\ m \in Nat \ {0} /\ Len(cycle) = m + 1 /\ cycle[m + 1] = cycle[1]
          /\ \A i \in 1..m : cycle[i + 1] \in graph[cycle[i]] /\ cycle[i] \in Owners
      BY <2>2, LenProperties DEF IInv, TypeOK, CycleIsReal
    <3> HIDE DEF m
    <3> DEFINE S == {cycle[i] : i \in 1..m}
    <3>2. S \subseteq Owners /\ cycle[1] \in S
      BY <3>1
    <3>3. ASSUME NEW i \in 1..m PROVE graph[cycle[i]] \cap S # {}
      <4>1. CASE i = m
        BY <3>1, <3>2, <4>1
      <4>2. CASE i # m
        <5>1. i + 1 \in 1..m
          BY <3>1, <4>2
        <5> QED
          BY <3>1, <5>1
      <4> QED
        BY <4>1, <4>2
    <3>4. \A o \in S : graph[o] \cap S # {}
      BY <3>3
    <3> HIDE DEF S
    <3> QED
      BY <3>2, <3>4 DEF Acyclic
  <2> QED
    BY <2>1, <2>2
<1> QED
  BY <1>1, Invariant, PTL

\* A pass keeps every chain of plain imports from climbing, also through root files
\* that the graph leaves out: they have no rank, so they may import no subject.
THEOREM NothingCanClimb == Spec => []NothingClimbs
<1>1. IInv => NothingClimbs
  <2> SUFFICES ASSUME IInv, Passed, DOMAIN LAYER \subseteq tree.dirs,
                      NEW o \in DOMAIN LAYER, NEW p \in DOMAIN LAYER, LAYER[o] < LAYER[p]
               PROVE  ~Reaches(tree.plain, o, p)
    BY DEF NothingClimbs
  <2>1. /\ tree \in Tree /\ ~Reverse(tree)
        /\ \A q \in Owners : Rank(q) \in Int /\ Rank(q) >= -1
    BY TreesAssumption DEF IInv, TypeOK, Phases, Passed, Rank
  <2>2. \A q \in Owners : q \notin tree.dirs => Rank(q) = -1
    BY DEF Rank
  <2> DEFINE S == {q \in Owners : Rank(q) <= Rank(o)}
  <2>3. ASSUME NEW q \in S, NEW r \in tree.plain[q] PROVE r \in S
    <3>1. q \in Owners /\ r \in Owners /\ o \in Owners /\ Rank(q) <= Rank(o)
      BY <2>1, TreesAssumption DEF Tree
    <3>2. CASE r \in tree.dirs /\ r # q
      <4>1. r \in Edges(tree, q)
        BY <3>2 DEF Edges
      <4>2. ~(Rank(q) < Rank(r))
        BY <2>1, <3>1, <4>1 DEF Reverse
      <4> QED
        BY <2>1, <3>1, <4>2
    <3>3. CASE r \notin tree.dirs
      BY <2>1, <2>2, <3>1, <3>3
    <3> QED
      BY <3>1, <3>2, <3>3
  <2>4. o \in S /\ p \notin S
    BY <2>1, TreesAssumption DEF Rank
  <2>5. S \in SUBSET Owners /\ \A q \in S : tree.plain[q] \subseteq S
    BY <2>3
  <2> HIDE DEF S
  <2> QED
    BY <2>4, <2>5 DEF Reaches
<1> QED
  BY <1>1, Invariant, PTL

-----------------------------------------------------------------------------
(* Why the search ends: it can always go on, and only finitely often.      *)

\* An active dependency is on the stack: `stack.index(dependency)` never raises.
IndexFound ==
  phase = "search" /\ stack # <<>> =>
    \A dependency \in left[Top] \cap active :
      \E start \in 1..Len(stack) : stack[start] = dependency

\* A step enters the next phase; or it visits one more node; or, with the same nodes
\* visited, a loop has less left to look at; or, with that the same too, a call returns.
Ahead ==
  \/ <<phase, phase'>> \in {<<"scan", "search">>, <<"search", "judge">>, <<"judge", "done">>}
  \/ /\ phase = "search" /\ phase' = "search"
     /\ \/ visited \subseteq visited' /\ visited' # visited
        \/ /\ visited' = visited /\ left' # left
           /\ \A o \in Owners : left'[o] \subseteq left[o]
        \/ visited' = visited /\ left' = left /\ Len(stack') = Len(stack) - 1

\* A call finds what it looks for on the stack: the loop of visit is never without a step.
THEOREM IndexNeverRaises == Spec => []IndexFound
<1>1. IInv => IndexFound
  BY DEF IInv, OnPath, IndexFound
<1> QED
  BY <1>1, Invariant, PTL

\* Every step of the check gets ahead in an order that, for finitely many owners, has no
\* infinite descent: no call is repeated and no loop goes round for nothing.
THEOREM GetsAhead == Spec => [][Ahead]_vars
<1>1. IInv /\ [Next]_vars => [Ahead]_vars
  <2> SUFFICES ASSUME IInv, Next PROVE Ahead
    BY DEF vars
  <2>1. ASSUME stack # <<>>
        PROVE  Len(stack) \in Nat \ {0} /\ Top \in Owners
    BY <2>1, EmptySeq, LenProperties DEF IInv, TypeOK, Top
  <2>2. CASE Scan \/ Exhausted \/ Judge
    BY <2>2 DEF Scan, Exhausted, Judge, Ahead
  <2>3. CASE Return
    <3>1. /\ phase = "search" /\ phase' = phase /\ visited' = visited /\ left' = left
      BY <2>3 DEF Return
    <3>2. Len(stack') = Len(stack) - 1
      BY <2>3, ReturnPops
    <3> QED
      BY <3>1, <3>2 DEF Ahead
  <2>4. ASSUME NEW o \in Owners, Root(o) \/ Descend(o) PROVE Ahead
    <3>1. /\ o \notin visited /\ visited' = visited \cup {o}
          /\ phase = "search" /\ phase' = phase
      BY <2>4 DEF Root, Descend, Visit
    <3> QED
      BY <3>1 DEF Ahead
  <2>5. ASSUME NEW o \in Owners, Close(o) PROVE Ahead
    BY <2>5 DEF Close, Ahead
  <2>6. ASSUME NEW o \in Owners, Pass(o) PROVE Ahead
    <3>1. /\ phase = "search" /\ phase' = phase /\ visited' = visited /\ stack # <<>>
          /\ o \in left[Top] /\ left' = [left EXCEPT ![Top] = @ \ {o}]
      BY <2>6 DEF Pass, Looked
    <3>2. o \notin left'[Top] /\ \A q \in Owners : left'[q] \subseteq left[q]
      BY <2>1, <3>1 DEF IInv, TypeOK
    <3> QED
      BY <3>1, <3>2 DEF Ahead
  <2> QED
    BY <2>2, <2>3, <2>4, <2>5, <2>6 DEF Next
<1> QED
  BY <1>1, Invariant, PTL DEF Spec
=============================================================================
