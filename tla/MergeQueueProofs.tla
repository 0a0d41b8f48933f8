--------------------------- MODULE MergeQueueProofs ---------------------------
(* For any pull requests, entries and bounds, whatever stands on what: types, no    *)
(* entry new to the list lands, and the queue implements Landing.                   *)
EXTENDS MergeQueue, SequenceTheorems, TLAPS

Lane(p) == <<"merge_group", p>>

\* Whatever is due or queued has been pushed.
Opened == /\ \A r \in due : head[PR(r)] > 0
          /\ \A i \in 1..Len(queue) : head[queue[i]] > 0

\* An opened pull request's branch has left main and has a head.
Formed == \A p \in PRs : head[p] > 0 =>
  Len(branch[p]) >= 2 /\ \A i \in 2..Len(branch[p]) : branch[p][i].by \in Changes

Once == \A i, j \in 1..Len(queue) : queue[i] = queue[j] => i = j

\* The branches of the queue are built one on the other, the first on main.
Chain == \A k \in 1..Len(queue) : group[queue[k]] # NoTree =>
  /\ k = 1 => group[queue[k]] = Merge(main, branch[queue[k]])
  /\ k > 1 => group[queue[k - 1]] # NoTree /\
              group[queue[k]] = Merge(group[queue[k - 1]], branch[queue[k]])

Owned == \A p \in PRs : group[p] # NoTree => Queued(p)

\* A run of the queue is on the branch there is now, and was compared with a list that
\* has nothing new; so what passed has nothing new.
OnGroup(p) ==
  /\ Lane(p) \in due => group[p] # NoTree /\ run[Lane(p)].state = "none"
  /\ run[Lane(p)].state = "none" => run[Lane(p)].build # "success" /\ run[Lane(p)].ci # "success"
  /\ run[Lane(p)].state # "none" => group[p] # NoTree /\ run[Lane(p)].tree = group[p]
  /\ run[Lane(p)].state = "building" => run[Lane(p)].base \subseteq InitList
  /\ run[Lane(p)].build = "success" \/ run[Lane(p)].ci = "success" =>
       group[p].on \in Green /\ group[p].list \subseteq InitList

IInv == /\ TypeOK /\ Formed /\ Opened /\ Once /\ Chain /\ Owned
        /\ (\A p \in PRs : OnGroup(p)) /\ NothingNew

-----------------------------------------------------------------------------
LEMMA MergeType ==
  ASSUME TypeOK, Formed, NEW t \in Trees, NEW p \in PRs, head[p] > 0
  PROVE  Merge(t, branch[p]) \in Trees /\ Merge(t, branch[p]) # NoTree
<1> DEFINE b == branch[p]
<1>1. b \in Seq(Commits) /\ Len(b) \in Nat /\ Len(b) >= 2 /\ \A i \in 2..Len(b) : b[i].by \in Changes
  BY DEF TypeOK, Formed
<1>2. \A i \in 1..Len(b) : b[i].list \subseteq Entries
  <2>1. \A i \in 1..Len(b) : b[i] \in Commits BY <1>1
  <2> QED BY <2>1 DEF Commits
<1>3. Tip(b) \subseteq Entries BY <1>1, <1>2 DEF Tip
<1>4. t.on \cup {b[i].by : i \in 2..Len(b)} \in SUBSET Changes BY <1>1 DEF Trees
<1>5. (t.list \ (Base(t.on, b) \ Tip(b))) \cup (Tip(b) \ Base(t.on, b)) \in SUBSET Entries
  BY <1>3 DEF Trees
<1>6. b[2].by \in {b[i].by : i \in 2..Len(b)} BY <1>1
<1>7. Merge(t, branch[p]) = [on   |-> t.on \cup {b[i].by : i \in 2..Len(b)},
                     list |-> (t.list \ (Base(t.on, b) \ Tip(b))) \cup (Tip(b) \ Base(t.on, b))]
  BY DEF Merge
<1> HIDE DEF b
<1>8. Merge(t, branch[p]) \in Trees BY <1>4, <1>5, <1>7 DEF Trees
<1>9. Merge(t, branch[p]).on # {}
  <2>1. Merge(t, branch[p]).on = t.on \cup {b[i].by : i \in 2..Len(b)} BY <1>7
  <2>2. b[2].by \in Merge(t, branch[p]).on BY <1>6, <2>1
  <2> QED BY <2>2
<1> QED BY <1>8, <1>9 DEF NoTree

LEMMA InitHolds == ASSUME QueueAssumption, Init PROVE IInv
<1>1. TypeOK
  <2>0. <<>> \in Seq(Commits) OBVIOUS
  <2>1. NoTree \in Trees /\ main \in Trees
    BY DEF NoTree, Trees, Init, QueueAssumption
  <2>2. NoRun \in Runs BY <2>1 DEF NoRun, Runs
  <2>3. \A p \in PRs : head[p] <= MaxHead[p] BY DEF Init, QueueAssumption
  <2>4. queue \in Seq(PRs) /\ faults \in 0..MaxFaults BY DEF Init, QueueAssumption
  <2> QED BY <2>0, <2>1, <2>2, <2>3, <2>4 DEF Init, TypeOK
<1>2. Opened /\ Once /\ Chain /\ Owned
  BY DEF Init, Opened, Once, Chain, Owned
<1>3. \A p \in PRs : OnGroup(p)
  BY DEF Init, OnGroup, Lane, Refs, Lanes, NoRun
<1>4. NothingNew /\ Formed BY DEF Init, NothingNew, Formed
<1> QED BY <1>1, <1>2, <1>3, <1>4 DEF IInv

LEMMA FireKeeps ==
  ASSUME IInv, NEW ref \in Refs, Fire(ref)
  PROVE  IInv'
<1>1. PICK l \in Lanes, p \in PRs : ref = <<l, p>> BY DEF Refs
<1>2. head[p] > 0 BY <1>1 DEF IInv, Opened, Fire, PR
<1>3. TreeOf(ref) \in Trees
  BY <1>1, <1>2, MergeType DEF TreeOf, PR, IInv, TypeOK
<1>4. run' = [r \in Refs |-> IF r = ref
                THEN [NoRun EXCEPT !.state = "queued", !.tree = TreeOf(ref)] ELSE run[r]]
  BY DEF Fire, Group
<1>5. [NoRun EXCEPT !.state = "queued", !.tree = TreeOf(ref)] \in Runs
  BY <1>3 DEF NoRun, Runs
<1>6. TypeOK'
  BY <1>4, <1>5 DEF IInv, TypeOK, Fire
<1>7. (Formed /\ Opened /\ Once /\ Chain /\ Owned /\ NothingNew)'
  BY DEF IInv, Formed, Opened, Once, Chain, Owned, NothingNew, Fire, Queued, PR
<1>8. ASSUME NEW q \in PRs PROVE OnGroup(q)'
  <2>1. Lane(q) \in Refs BY DEF Lane, Refs, Lanes
  <2>2. CASE ref = Lane(q)
    <3>1. TreeOf(ref) = group[q] /\ group[q] # NoTree
      BY <2>2 DEF TreeOf, Lane, PR, IInv, OnGroup, Fire
    <3>2. run'[Lane(q)] = [NoRun EXCEPT !.state = "queued", !.tree = group[q]]
      BY <2>1, <2>2, <3>1, <1>4
    <3>3. /\ run'[Lane(q)].state = "queued" /\ run'[Lane(q)].tree = group[q]
          /\ run'[Lane(q)].build = "" /\ run'[Lane(q)].ci = ""
      BY <3>2 DEF NoRun
    <3>4. UNCHANGED <<group>> /\ Lane(q) \notin due' BY <2>2 DEF Fire
    <3> QED BY <3>1, <3>3, <3>4 DEF OnGroup
  <2>3. CASE ref # Lane(q)
    BY <2>1, <2>3, <1>4 DEF IInv, OnGroup, Fire, Lane
  <2> QED BY <2>2, <2>3
<1> QED BY <1>6, <1>7, <1>8 DEF IInv

\* A step of one run: the rest of the state stays, and so does what the run is about.
LEMMA RunStepKeeps ==
  ASSUME IInv, NEW ref \in Refs, NEW new \in Runs,
         run' = [run EXCEPT ![ref] = new], new.tree = run[ref].tree,
         UNCHANGED <<main, head, branch, due, queue, group>>, faults' \in 0..MaxFaults,
         run[ref].state # "none", new.state # "none",
         \A p \in PRs : ref = Lane(p) =>
           /\ new.state = "building" => new.base \subseteq InitList
           /\ new.build = "success" \/ new.ci = "success" =>
                group[p].on \in Green /\ group[p].list \subseteq InitList
  PROVE  IInv'
<1>1. TypeOK' BY DEF IInv, TypeOK
<1>2. (Formed /\ Opened /\ Once /\ Chain /\ Owned /\ NothingNew)'
  BY DEF IInv, Formed, Opened, Once, Chain, Owned, NothingNew, Queued, PR
<1>3. ASSUME NEW q \in PRs PROVE OnGroup(q)'
  <2>1. Lane(q) \in Refs BY DEF Lane, Refs, Lanes
  <2>2. CASE ref = Lane(q)
    <3>1. run'[Lane(q)] = new BY <2>1, <2>2 DEF IInv, TypeOK
    <3> QED BY <2>2, <3>1 DEF IInv, OnGroup
  <2>3. CASE ref # Lane(q)
    <3>1. run'[Lane(q)] = run[Lane(q)] BY <2>1, <2>3 DEF IInv, TypeOK
    <3> QED BY <3>1 DEF IInv, OnGroup
  <2> QED BY <2>2, <2>3
<1> QED BY <1>1, <1>2, <1>3 DEF IInv

LEMMA StartKeeps ==
  ASSUME IInv, NEW ref \in Refs, Start(ref)
  PROVE  IInv'
<1> DEFINE new == [run[ref] EXCEPT !.state = "building", !.base = main.list]
<1>1. run[ref] \in Runs /\ main.list \subseteq Entries BY DEF IInv, TypeOK, Trees
<1>2. new \in Runs /\ new.tree = run[ref].tree /\ new.state = "building"
      /\ new.base = main.list /\ new.build = run[ref].build /\ new.ci = run[ref].ci
  BY <1>1 DEF Runs
<1>3. run' = [run EXCEPT ![ref] = new] BY DEF Start
<1>4. main.list \subseteq InitList BY DEF IInv, NothingNew
<1>5. \A p \in PRs : ref = Lane(p) /\ (run[ref].build = "success" \/ run[ref].ci = "success") =>
        group[p].on \in Green /\ group[p].list \subseteq InitList
  BY DEF IInv, OnGroup
<1>6. faults' \in 0..MaxFaults BY DEF Start, IInv, TypeOK
<1> HIDE DEF new
<1>7. \A p \in PRs : ref = Lane(p) =>
        /\ new.state = "building" => new.base \subseteq InitList
        /\ new.build = "success" \/ new.ci = "success" =>
             group[p].on \in Green /\ group[p].list \subseteq InitList
  BY <1>2, <1>4, <1>5
<1>8. /\ UNCHANGED <<main, head, branch, due, queue, group>>
      /\ run[ref].state # "none" /\ new.state # "none"
  BY <1>2 DEF Start
<1> QED BY <1>2, <1>3, <1>6, <1>7, <1>8, RunStepKeeps

\* What passes has nothing new on its list: it was compared with a list that has not.
LEMMA PassAddsNothing ==
  ASSUME IInv, NEW p \in PRs, run[Lane(p)].state = "building", Passes(run[Lane(p)])
  PROVE  group[p].on \in Green /\ group[p].list \subseteq InitList
<1>1. run[Lane(p)].tree = group[p] /\ run[Lane(p)].base \subseteq InitList
  BY DEF IInv, OnGroup
<1> QED BY <1>1 DEF Passes, NolintsHold

LEMMA ConcludeKeeps ==
  ASSUME IInv, NEW ref \in Refs, Conclude(ref)
  PROVE  IInv'
<1> DEFINE verdict == IF Passes(run[ref]) THEN "success" ELSE "failure"
           new == [run[ref] EXCEPT !.state = "built", !.build = verdict]
<1>1. run[ref] \in Runs BY DEF IInv, TypeOK
<1>2. new \in Runs /\ new.tree = run[ref].tree /\ new.state = "built"
      /\ new.build = verdict /\ new.ci = run[ref].ci
  BY <1>1 DEF Runs
<1>3. run' = [run EXCEPT ![ref] = new] BY DEF Conclude
<1>4. \A p \in PRs : ref = Lane(p) /\ (verdict = "success" \/ run[ref].ci = "success") =>
        group[p].on \in Green /\ group[p].list \subseteq InitList
  BY PassAddsNothing DEF IInv, OnGroup, Conclude
<1>5. faults' \in 0..MaxFaults BY DEF Conclude, IInv, TypeOK
<1> HIDE DEF new, verdict
<1>6. \A p \in PRs : ref = Lane(p) =>
        /\ new.state = "building" => new.base \subseteq InitList
        /\ new.build = "success" \/ new.ci = "success" =>
             group[p].on \in Green /\ group[p].list \subseteq InitList
  BY <1>2, <1>4
<1>7. /\ UNCHANGED <<main, head, branch, due, queue, group>>
      /\ run[ref].state # "none" /\ new.state # "none"
  BY <1>2 DEF Conclude
<1> QED BY <1>2, <1>3, <1>5, <1>6, <1>7, RunStepKeeps

LEMMA FaultKeeps ==
  ASSUME QueueAssumption, IInv, NEW ref \in Refs, Fault(ref)
  PROVE  IInv'
<1>1. PICK result \in {"failure", "cancelled"} :
        run' = [run EXCEPT ![ref].state = "built", ![ref].build = result, ![ref].fault = TRUE]
  BY DEF Fault
<1> DEFINE new == [run[ref] EXCEPT !.state = "built", !.build = result, !.fault = TRUE]
<1>2. run[ref] \in Runs BY DEF IInv, TypeOK
<1>3. new \in Runs /\ new.tree = run[ref].tree /\ new.state = "built"
      /\ new.build = result /\ new.ci = run[ref].ci
  BY <1>2 DEF Runs
<1>4. run' = [run EXCEPT ![ref] = new] BY <1>1
<1>5. \A p \in PRs : ref = Lane(p) /\ run[ref].ci = "success" =>
        group[p].on \in Green /\ group[p].list \subseteq InitList
  BY DEF IInv, OnGroup
<1>6. faults' \in 0..MaxFaults BY DEF Fault, IInv, TypeOK, QueueAssumption
<1> HIDE DEF new
<1>7. \A p \in PRs : ref = Lane(p) =>
        /\ new.state = "building" => new.base \subseteq InitList
        /\ new.build = "success" \/ new.ci = "success" =>
             group[p].on \in Green /\ group[p].list \subseteq InitList
  BY <1>3, <1>5
<1>8. /\ UNCHANGED <<main, head, branch, due, queue, group>>
      /\ run[ref].state # "none" /\ new.state # "none"
  BY <1>3 DEF Fault
<1> QED BY <1>3, <1>4, <1>6, <1>7, <1>8, RunStepKeeps

LEMMA AggregateKeeps ==
  ASSUME IInv, NEW ref \in Refs, Aggregate(ref)
  PROVE  IInv'
<1> DEFINE verdict == IF EveryResult(run[ref].build) THEN "success" ELSE "failure"
           new == [run[ref] EXCEPT !.state = "done", !.ci = verdict]
<1>1. run[ref] \in Runs BY DEF IInv, TypeOK
<1>2. new \in Runs /\ new.tree = run[ref].tree /\ new.state = "done"
      /\ new.build = run[ref].build /\ new.ci = verdict
  BY <1>1 DEF Runs
<1>3. run' = [run EXCEPT ![ref] = new] BY DEF Aggregate
<1>4. \A p \in PRs : ref = Lane(p) /\ (run[ref].build = "success" \/ verdict = "success") =>
        group[p].on \in Green /\ group[p].list \subseteq InitList
  BY DEF IInv, OnGroup, EveryResult
<1>5. faults' \in 0..MaxFaults BY DEF Aggregate, IInv, TypeOK
<1> HIDE DEF new, verdict
<1>6. \A p \in PRs : ref = Lane(p) =>
        /\ new.state = "building" => new.base \subseteq InitList
        /\ new.build = "success" \/ new.ci = "success" =>
             group[p].on \in Green /\ group[p].list \subseteq InitList
  BY <1>2, <1>4
<1>7. /\ UNCHANGED <<main, head, branch, due, queue, group>>
      /\ run[ref].state # "none" /\ new.state # "none"
  BY <1>2 DEF Aggregate
<1> QED BY <1>2, <1>3, <1>5, <1>6, <1>7, RunStepKeeps

-----------------------------------------------------------------------------
\* The queue without its k-th: those before keep their places.
LEMMA WithoutType ==
  ASSUME queue \in Seq(PRs), NEW k \in 1..Len(queue)
  PROVE  /\ Without(k) \in Seq(PRs) /\ Len(Without(k)) = Len(queue) - 1
         /\ \A i \in 1..(Len(queue) - 1) :
              Without(k)[i] = IF i < k THEN queue[i] ELSE queue[i + 1]
<1>1. Len(queue) - 1 \in Nat OBVIOUS
<1>2. \A i \in 1..(Len(queue) - 1) : (IF i < k THEN queue[i] ELSE queue[i + 1]) \in PRs
  OBVIOUS
<1>3. Without(k) \in [1..(Len(queue) - 1) -> PRs] BY <1>2 DEF Without
<1>4. Without(k) \in Seq(PRs) BY <1>1, <1>3, SeqDef
<1>5. Len(Without(k)) = Len(queue) - 1
  BY <1>1, <1>3, <1>4 DEF Without
<1> QED BY <1>4, <1>5 DEF Without

\* A pull request leaves the queue, and with it what was built on top; its own head
\* and what that does to the list may change.
LEMMA DropKeeps ==
  ASSUME IInv, NEW k \in 1..Len(queue), Drop(k), run' = DropRuns(k), main' = main,
         \A q \in PRs : q # queue[k] => head'[q] = head[q] /\ branch'[q] = branch[q],
         \A q \in PRs : Lane(q) \in due' => Lane(q) \in DropDue(k)
  PROVE  /\ queue' \in Seq(PRs) /\ group' \in [PRs -> Trees] /\ run' \in [Refs -> Runs]
         /\ Once' /\ Chain' /\ Owned' /\ \A q \in PRs : OnGroup(q)'
         /\ \A i \in 1..Len(queue') : queue'[i] # queue[k] /\ \E j \in 1..Len(queue) : queue'[i] = queue[j]
<1> DEFINE n == Len(queue) - 1
<1>1. queue \in Seq(PRs) /\ n \in Nat /\ k \in 1..(n + 1) BY DEF IInv, TypeOK
<1>2. /\ queue' \in Seq(PRs) /\ Len(queue') = n
      /\ \A i \in 1..n : queue'[i] = IF i < k THEN queue[i] ELSE queue[i + 1]
  BY <1>1, WithoutType DEF Drop
<1>3. \A i, j \in 1..(n + 1) : queue[i] = queue[j] => i = j BY DEF IInv, Once
<1>4. Once' BY <1>1, <1>2, <1>3 DEF Once
<1>5. \A i \in 1..n : queue'[i] # queue[k] /\ \E j \in 1..(n + 1) : queue'[i] = queue[j]
  BY <1>1, <1>2, <1>3
<1>6. \A q \in PRs : group'[q] = IF q \in Behind(k) THEN NoTree ELSE group[q]
  BY DEF Drop
<1>7. \A i \in 1..(n + 1) : queue[i] \in Behind(k) <=> i >= k
  BY <1>1, <1>3 DEF Behind
<1>8. \A i \in 1..n : group'[queue'[i]] # NoTree =>
        i < k /\ queue'[i] = queue[i] /\ group'[queue'[i]] = group[queue[i]]
  <2> SUFFICES ASSUME NEW i \in 1..n, group'[queue'[i]] # NoTree
               PROVE i < k /\ queue'[i] = queue[i] /\ group'[queue'[i]] = group[queue[i]]
    OBVIOUS
  <2>1. queue'[i] \in PRs BY <1>2
  <2>2. queue'[i] \notin Behind(k) BY <1>6, <2>1
  <2>3. i < k
    <3> SUFFICES ASSUME i >= k PROVE FALSE BY <1>1
    <3>1. queue'[i] = queue[i + 1] /\ i + 1 \in 1..(n + 1) /\ i + 1 >= k BY <1>1, <1>2
    <3> QED BY <1>7, <2>2, <3>1
  <2> QED BY <1>1, <1>2, <1>6, <2>1, <2>2, <2>3
<1>9. Chain'
  <2> SUFFICES ASSUME NEW i \in 1..n, group'[queue'[i]] # NoTree
               PROVE /\ i = 1 => group'[queue'[i]] = Merge(main, branch[queue[i]])'
                     /\ i > 1 => group'[queue'[i - 1]] # NoTree /\
                          group'[queue'[i]] = Merge(group[queue[i - 1]], branch[queue[i]])'
    BY <1>2 DEF Chain
  <2>1. i < k /\ queue'[i] = queue[i] /\ group'[queue'[i]] = group[queue[i]] BY <1>8
  <2>2. queue[i] \in PRs /\ queue[i] # queue[k] BY <1>1, <1>3, <2>1
  <2>3. head'[queue[i]] = head[queue[i]] /\ branch'[queue[i]] = branch[queue[i]] BY <2>2
  <2>4. i \in 1..Len(queue) /\ group[queue[i]] # NoTree BY <1>1, <2>1
  <2>5. CASE i = 1
    <3>1. group[queue[i]] = Merge(main, branch[queue[i]]) BY <2>4, <2>5 DEF IInv, Chain
    <3>2. Merge(main, branch[queue[i]])' = Merge(main, branch[queue[i]]) BY <2>1, <2>3
    <3> QED BY <2>1, <2>5, <3>1, <3>2
  <2>6. CASE i > 1
    <3>1. i - 1 \in 1..n /\ i - 1 < k BY <1>1, <2>1, <2>6
    <3>2. queue'[i - 1] = queue[i - 1] /\ queue[i - 1] \in PRs BY <1>1, <1>2, <3>1
    <3>3. queue[i - 1] \notin Behind(k) BY <1>1, <1>7, <3>1
    <3>4. group'[queue'[i - 1]] = group[queue[i - 1]] BY <1>6, <3>2, <3>3
    <3>5. group[queue[i - 1]] # NoTree /\ group[queue[i]] = Merge(group[queue[i - 1]], branch[queue[i]])
      BY <2>4, <2>6 DEF IInv, Chain
    <3> QED BY <2>1, <2>3, <2>6, <3>2, <3>4, <3>5
  <2> QED BY <1>1, <2>5, <2>6
<1>10. Owned'
  <2> SUFFICES ASSUME NEW q \in PRs, group'[q] # NoTree PROVE \E i \in 1..n : queue'[i] = q
    BY <1>2 DEF Owned, Queued
  <2>1. q \notin Behind(k) /\ group[q] # NoTree BY <1>6
  <2>2. PICK i \in 1..(n + 1) : queue[i] = q BY <1>1, <2>1 DEF IInv, Owned, Queued
  <2>3. i < k BY <1>1, <1>7, <2>1, <2>2
  <2> QED BY <1>1, <1>2, <2>2, <2>3
<1>11. group' \in [PRs -> Trees]
  BY DEF Drop, IInv, TypeOK, NoTree, Trees
<1>12. NoRun \in Runs BY DEF NoRun, Runs, NoTree, Trees
<1>13. run' \in [Refs -> Runs] BY <1>12 DEF DropRuns, IInv, TypeOK
<1>14. ASSUME NEW q \in PRs PROVE OnGroup(q)'
  <2>1. Lane(q) \in Refs /\ PR(Lane(q)) = q /\ Lane(q)[1] = "merge_group"
    BY DEF Lane, Refs, Lanes, PR
  <2>2. run'[Lane(q)] = IF q \in Behind(k) THEN NoRun ELSE run[Lane(q)]
    BY <2>1 DEF DropRuns
  <2>3. Lane(q) \in due' => Lane(q) \in due /\ q \notin Behind(k)
    BY <2>1 DEF DropDue
  <2>4. CASE q \in Behind(k)
    <3>1. NoRun.state = "none" /\ NoRun.build = "" /\ NoRun.ci = "" BY DEF NoRun
    <3> QED BY <2>2, <2>3, <2>4, <3>1 DEF OnGroup
  <2>5. CASE q \notin Behind(k)
    <3>1. q # queue[k] BY <1>1, <1>7, <2>5
    <3>2. group'[q] = group[q] /\ branch'[q] = branch[q] BY <1>6, <2>5, <3>1
    <3> QED BY <2>2, <2>3, <2>5, <3>2 DEF IInv, OnGroup
  <2> QED BY <2>4, <2>5
<1> HIDE DEF n
<1> QED BY <1>2, <1>4, <1>5, <1>9, <1>10, <1>11, <1>13, <1>14 DEF n

\* What a head stands on has left main, and has heads from there on.
LEMMA StemsType ==
  ASSUME TypeOK, Formed, NEW p \in PRs, NEW stem \in Stems(p)
  PROVE  /\ stem \in Seq(Commits) /\ Len(stem) >= 1
         /\ \A i \in 2..Len(stem) : stem[i].by \in Changes
<1>1. CASE stem = <<[by |-> "main", list |-> main.list]>>
  <2> DEFINE c == [by |-> "main", list |-> main.list]
  <2>1. c \in Commits BY DEF Commits, TypeOK, Trees
  <2> HIDE DEF c
  <2>2. stem = <<c>> BY <1>1 DEF c
  <2>3. stem \in Seq(Commits) /\ Len(stem) = 1 BY <2>1, <2>2
  <2> QED BY <2>3
<1>2. CASE head[p] > 0 /\ stem = SubSeq(branch[p], 1, Len(branch[p]) - 1)
  <2> DEFINE b == branch[p]
  <2>1. b \in Seq(Commits) /\ Len(b) \in Nat /\ Len(b) >= 2 /\ \A i \in 2..Len(b) : b[i].by \in Changes
    BY <1>2 DEF TypeOK, Formed
  <2> HIDE DEF b
  <2>2. stem = SubSeq(b, 1, Len(b) - 1) BY <1>2 DEF b
  <2>3. /\ stem \in Seq(Commits) /\ Len(stem) = Len(b) - 1
        /\ \A i \in 1..Len(b) - 1 : stem[i] = b[i]
    BY <2>1, <2>2
  <2> QED BY <2>1, <2>3
<1>3. CASE \E q \in PRs : head[q] > 0 /\ stem = branch[q]
  BY <1>3 DEF TypeOK, Formed
<1> QED BY <1>1, <1>2, <1>3 DEF Stems

LEMMA PushKeeps ==
  ASSUME QueueAssumption, IInv, NEW p \in PRs, Push(p)
  PROVE  IInv'
<1>1. PICK stem \in Stems(p), d \in Diffs :
        branch' = [branch EXCEPT ![p] = Append(stem,
          [by |-> <<p, head[p] + 1>>, list |-> (Tip(stem) \ d.dels) \cup d.adds])]
  BY DEF Push
<1>2. /\ stem \in Seq(Commits) /\ Len(stem) >= 1
      /\ \A i \in 2..Len(stem) : stem[i].by \in Changes
  BY StemsType DEF IInv
<1>3. /\ head' = [head EXCEPT ![p] = head[p] + 1] /\ head[p] < MaxHead[p]
      /\ head \in [PRs -> Nat] /\ MaxHead \in [PRs -> Nat]
      /\ \A q \in PRs : head[q] <= MaxHead[q]
  BY DEF Push, IInv, TypeOK, QueueAssumption
<1>4. /\ main' = main /\ faults' = faults /\ main' \in Trees /\ faults' \in 0..MaxFaults
      /\ head' \in [PRs -> Nat] /\ \A q \in PRs : head'[q] <= MaxHead[q] /\ head'[q] >= head[q]
      /\ head'[p] > 0
  BY <1>3 DEF Push, IInv, TypeOK
<1>b. branch' \in [PRs -> Seq(Commits)] /\ Formed'
  <2> DEFINE c == [by |-> <<p, head[p] + 1>>, list |-> (Tip(stem) \ d.dels) \cup d.adds]
             b == Append(stem, c)
  <2>1. Tip(stem) \subseteq Entries
    <3>1. stem[Len(stem)] \in Commits BY <1>2
    <3> QED BY <3>1 DEF Tip, Commits
  <2>2. <<p, head[p] + 1>> \in Changes BY <1>3 DEF Changes
  <2>3. c \in Commits /\ c.by \in Changes
    BY <2>1, <2>2 DEF Commits, QueueAssumption
  <2> HIDE DEF c
  <2>4. /\ b \in Seq(Commits) /\ Len(b) = Len(stem) + 1 /\ b[Len(stem) + 1] = c
        /\ \A i \in 1..Len(stem) : b[i] = stem[i]
    BY <1>2, <2>3
  <2> HIDE DEF b
  <2>5. Len(b) >= 2 /\ \A i \in 2..Len(b) : b[i].by \in Changes
    <3>1. Len(stem) \in Nat BY <1>2
    <3>2. \A i \in 2..Len(b) : i = Len(stem) + 1 \/ i \in 2..Len(stem)
      BY <2>4, <3>1
    <3> QED BY <1>2, <2>3, <2>4, <3>1, <3>2
  <2>6. branch' = [branch EXCEPT ![p] = b] BY <1>1 DEF b, c
  <2>7. branch \in [PRs -> Seq(Commits)] BY DEF IInv, TypeOK
  <2>8. branch'[p] = b /\ \A q \in PRs : q # p => branch'[q] = branch[q]
    BY <2>6, <2>7
  <2>9. \A q \in PRs : q # p => head'[q] = head[q] BY <1>3
  <2> QED BY <2>4, <2>5, <2>6, <2>7, <2>8, <2>9 DEF IInv, Formed
<1>5. \A q \in PRs : q # p => head'[q] = head[q] /\ branch'[q] = branch[q]
  <2>1. branch \in [PRs -> Seq(Commits)] BY DEF IInv, TypeOK
  <2> QED BY <1>1, <1>3, <2>1
<1>6. NothingNew' BY <1>4 DEF IInv, NothingNew
<1>7. \A r \in Pushed(p) : r \in Refs /\ PR(r) = p /\ r[1] # "merge_group" BY DEF Pushed
<1>8. \A r \in due : r \in Refs /\ head[PR(r)] > 0 BY DEF IInv, TypeOK, Opened
<1>9. \A r \in due \cup Pushed(p) : r \in Refs /\ PR(r) \in PRs /\ head'[PR(r)] > 0
  <2>1. \A r \in Refs : PR(r) \in PRs BY DEF Refs, PR
  <2> QED BY <1>3, <1>4, <1>7, <1>8, <2>1
<1>10. \A q \in PRs : Lane(q) \notin Pushed(p) BY <1>7 DEF Lane
<1>11. CASE ~Queued(p) /\ due' = due \cup Pushed(p) /\ UNCHANGED <<run, queue, group>>
  <2>1. TypeOK' BY <1>4, <1>b, <1>9, <1>11 DEF IInv, TypeOK
  <2>2. \A i \in 1..Len(queue) : queue[i] \in PRs /\ queue[i] # p
    BY <1>11 DEF Queued, IInv, TypeOK
  <2>3. Opened'
    BY <1>3, <1>4, <1>5, <1>9, <1>11, <2>2 DEF IInv, Opened
  <2>4. (Once /\ Owned)' BY <1>11 DEF IInv, Once, Owned, Queued
  <2>5. Chain'
    <3>1. \A i \in 1..Len(queue) : head'[queue[i]] = head[queue[i]] /\ branch'[queue[i]] = branch[queue[i]]
      BY <1>5, <2>2
    <3> QED BY <1>4, <1>11, <3>1 DEF IInv, Chain
  <2>6. group[p] = NoTree BY <1>11 DEF IInv, Owned
  <2>7. ASSUME NEW q \in PRs PROVE OnGroup(q)'
    <3>1. Lane(q) \in due' => Lane(q) \in due BY <1>10, <1>11
    <3>2. CASE q = p
      <4>1. run[Lane(q)].state = "none" /\ Lane(q) \notin due
        BY <2>6, <3>2 DEF IInv, OnGroup
      <4>2. run[Lane(q)].build # "success" /\ run[Lane(q)].ci # "success"
        BY <4>1 DEF IInv, OnGroup
      <4> QED BY <1>11, <3>1, <4>1, <4>2 DEF OnGroup
    <3>3. CASE q # p
      BY <1>5, <1>11, <3>1, <3>3 DEF IInv, OnGroup
    <3> QED BY <3>2, <3>3
  <2> QED BY <1>b, <1>6, <2>1, <2>3, <2>4, <2>5, <2>7 DEF IInv
<1>12. CASE \E k \in 1..Len(queue) : queue[k] = p /\ Drop(k) /\ run' = DropRuns(k)
                                      /\ due' = DropDue(k) \cup Pushed(p)
  <2>1. PICK k \in 1..Len(queue) : queue[k] = p /\ Drop(k) /\ run' = DropRuns(k)
                                      /\ due' = DropDue(k) \cup Pushed(p)
    BY <1>12
  <2>2. DropDue(k) \subseteq due BY DEF DropDue
  <2>3. \A q \in PRs : Lane(q) \in due' => Lane(q) \in DropDue(k) BY <1>10, <2>1
  <2>4. /\ queue' \in Seq(PRs) /\ group' \in [PRs -> Trees] /\ run' \in [Refs -> Runs]
        /\ Once' /\ Chain' /\ Owned' /\ \A q \in PRs : OnGroup(q)'
        /\ \A i \in 1..Len(queue') :
             queue'[i] # queue[k] /\ \E j \in 1..Len(queue) : queue'[i] = queue[j]
    BY <1>4, <1>5, <2>1, <2>3, DropKeeps
  <2>5. TypeOK' BY <1>4, <1>b, <1>9, <2>1, <2>2, <2>4 DEF TypeOK
  <2>6. \A i \in 1..Len(queue') : queue'[i] \in PRs /\ head[queue'[i]] > 0
    <3>1. queue \in Seq(PRs) BY DEF IInv, TypeOK
    <3>2. \A j \in 1..Len(queue) : queue[j] \in PRs /\ head[queue[j]] > 0
      BY <3>1 DEF IInv, Opened
    <3> QED BY <2>4, <3>2
  <2>7. \A i \in 1..Len(queue') : head'[queue'[i]] > 0
    BY <1>3, <1>4, <2>6
  <2>8. Opened' BY <1>9, <2>1, <2>2, <2>7 DEF Opened
  <2> QED BY <1>b, <1>6, <2>4, <2>5, <2>8 DEF IInv
<1> QED BY <1>11, <1>12 DEF Push

LEMMA EjectKeeps ==
  ASSUME IInv, NEW k \in 1..Len(queue), Eject(k)
  PROVE  IInv'
<1>1. /\ Drop(k) /\ run' = DropRuns(k) /\ due' = DropDue(k)
      /\ UNCHANGED <<main, head, branch, faults>>
  BY DEF Eject
<1>2. DropDue(k) \subseteq due BY DEF DropDue
<1>3. /\ queue' \in Seq(PRs) /\ group' \in [PRs -> Trees] /\ run' \in [Refs -> Runs]
      /\ Once' /\ Chain' /\ Owned' /\ \A q \in PRs : OnGroup(q)'
      /\ \A i \in 1..Len(queue') :
           queue'[i] # queue[k] /\ \E j \in 1..Len(queue) : queue'[i] = queue[j]
  BY <1>1, DropKeeps
<1>4. TypeOK' BY <1>1, <1>2, <1>3 DEF IInv, TypeOK
<1>5. Opened' BY <1>1, <1>2, <1>3 DEF IInv, Opened
<1>6. (NothingNew /\ Formed)' BY <1>1 DEF IInv, NothingNew, Formed
<1> QED BY <1>3, <1>4, <1>5, <1>6 DEF IInv

LEMMA EnqueueKeeps ==
  ASSUME IInv, NEW p \in PRs, Enqueue(p)
  PROVE  IInv'
<1> DEFINE n == Len(queue)
<1>1. /\ queue \in Seq(PRs) /\ n \in Nat /\ ~Queued(p) /\ head[p] > 0
      /\ queue' = Append(queue, p) /\ UNCHANGED <<main, head, branch, due, run, group, faults>>
  BY DEF IInv, TypeOK, Enqueue, HeadGreen, OfHead
<1>2. /\ queue' \in Seq(PRs) /\ Len(queue') = n + 1 /\ queue'[n + 1] = p
      /\ \A i \in 1..n : queue'[i] = queue[i]
  BY <1>1
<1>3. \A i \in 1..n : queue[i] # p BY <1>1 DEF Queued
<1>4. group[p] = NoTree BY <1>1 DEF IInv, Owned
<1>5. TypeOK' BY <1>1, <1>2 DEF IInv, TypeOK
<1>6. Opened' BY <1>1, <1>2 DEF IInv, Opened
<1>7. Once' BY <1>1, <1>2, <1>3 DEF IInv, Once
<1>8. Chain'
  <2> SUFFICES ASSUME NEW i \in 1..(n + 1), group[queue'[i]] # NoTree
               PROVE /\ i = 1 => group[queue'[i]] = Merge(main, branch[queue'[i]])
                     /\ i > 1 => group[queue'[i - 1]] # NoTree /\
                          group[queue'[i]] = Merge(group[queue'[i - 1]], branch[queue'[i]])
    BY <1>1, <1>2 DEF Chain
  <2>1. i \in 1..n BY <1>1, <1>2, <1>4
  <2>2. queue'[i] = queue[i] /\ (i > 1 => queue'[i - 1] = queue[i - 1]) BY <1>1, <1>2, <2>1
  <2> QED BY <2>1, <2>2 DEF IInv, Chain
<1>9. Owned' BY <1>1, <1>2 DEF IInv, Owned, Queued
<1>10. (\A q \in PRs : OnGroup(q))' BY <1>1 DEF IInv, OnGroup
<1>11. (NothingNew /\ Formed)' BY <1>1 DEF IInv, NothingNew, Formed
<1> QED BY <1>5, <1>6, <1>7, <1>8, <1>9, <1>10, <1>11 DEF IInv

LEMMA BuildKeeps ==
  ASSUME IInv, NEW k \in 1..Len(queue), Build(k)
  PROVE  IInv'
<1> DEFINE p == queue[k]
           below == IF k = 1 THEN main ELSE group[queue[k - 1]]
<1>1. /\ queue \in Seq(PRs) /\ p \in PRs /\ k \in Nat /\ k >= 1 /\ k <= Len(queue)
      /\ group \in [PRs -> Trees] /\ head[p] > 0
  BY DEF IInv, TypeOK, Opened
<1>2. k > 1 => queue[k - 1] \in PRs /\ group[queue[k - 1]] # NoTree
  BY <1>1 DEF Build
<1>3. below \in Trees BY <1>1, <1>2 DEF IInv, TypeOK
<1>4. /\ group[p] = NoTree /\ group' = [group EXCEPT ![p] = Merge(below, branch[p])]
      /\ due \subseteq due' /\ due' \subseteq due \cup {Lane(p)}
      /\ UNCHANGED <<main, head, branch, run, queue, faults>>
  BY DEF Build, Lane
<1>5. Merge(below, branch[p]) \in Trees /\ Merge(below, branch[p]) # NoTree
  BY <1>1, <1>3, MergeType DEF IInv
<1> HIDE DEF below
<1>6. group' \in [PRs -> Trees] /\ group'[p] = Merge(below, branch[p])
      /\ \A q \in PRs : q # p => group'[q] = group[q]
  BY <1>1, <1>4, <1>5
<1>7. Lane(p) \in Refs /\ PR(Lane(p)) = p BY <1>1 DEF Lane, Refs, Lanes, PR
<1>8. TypeOK' BY <1>4, <1>6, <1>7 DEF IInv, TypeOK
<1>9. Opened' BY <1>1, <1>4, <1>7 DEF IInv, Opened
<1>10. Once' /\ NothingNew' /\ Formed' BY <1>4 DEF IInv, Once, NothingNew, Formed
<1>11. Owned' BY <1>1, <1>4, <1>6 DEF IInv, Owned, Queued
<1>12. \A i \in 1..Len(queue) : queue[i] = p => i = k BY DEF IInv, Once
<1>13. Chain'
  <2> SUFFICES ASSUME NEW i \in 1..Len(queue), group'[queue[i]] # NoTree
               PROVE /\ i = 1 => group'[queue[i]] = Merge(main, branch[queue[i]])
                     /\ i > 1 => group'[queue[i - 1]] # NoTree /\
                          group'[queue[i]] = Merge(group'[queue[i - 1]], branch[queue[i]])
    BY <1>4 DEF Chain
  <2>0. i \in Nat /\ queue[i] \in PRs /\ (i > 1 => i - 1 \in 1..Len(queue) /\ queue[i - 1] \in PRs)
    BY <1>1
  <2>1. CASE i = k
    <3>1. k > 1 => queue[k - 1] # p BY <1>12, <2>0, <2>1
    <3>2. k > 1 => group'[queue[k - 1]] = group[queue[k - 1]] BY <1>2, <1>6, <3>1
    <3> QED BY <1>1, <1>2, <1>6, <2>1, <3>2 DEF below
  <2>2. CASE i # k
    <3>1. queue[i] # p /\ group'[queue[i]] = group[queue[i]] BY <1>6, <1>12, <2>0, <2>2
    <3>2. /\ i = 1 => group[queue[i]] = Merge(main, branch[queue[i]])
          /\ i > 1 => group[queue[i - 1]] # NoTree /\
                         group[queue[i]] = Merge(group[queue[i - 1]], branch[queue[i]])
      BY <3>1 DEF IInv, Chain
    <3>3. i > 1 => queue[i - 1] # p BY <1>4, <3>2
    <3> QED BY <1>6, <2>0, <3>1, <3>2, <3>3
  <2> QED BY <2>1, <2>2
<1>14. ASSUME NEW q \in PRs PROVE OnGroup(q)'
  <2>1. CASE q = p
    <3>1. run[Lane(q)].state = "none" BY <1>4, <2>1 DEF IInv, OnGroup
    <3>2. run[Lane(q)].build # "success" /\ run[Lane(q)].ci # "success"
      BY <3>1 DEF IInv, OnGroup
    <3> QED BY <1>4, <1>5, <1>6, <2>1, <3>1, <3>2 DEF OnGroup
  <2>2. CASE q # p
    <3>1. Lane(q) \in due' => Lane(q) \in due BY <1>4, <2>2 DEF Lane
    <3> QED BY <1>4, <1>6, <2>2, <3>1 DEF IInv, OnGroup
  <2> QED BY <2>1, <2>2
<1> QED BY <1>8, <1>9, <1>10, <1>11, <1>13, <1>14 DEF IInv

\* The first branch of the queue is main with one pull request, and nothing new on its list.
LEMMA LandIsJudged ==
  ASSUME IInv, Land
  PROVE  /\ queue[1] \in PRs /\ head[queue[1]] > 0 /\ Len(queue) >= 1
         /\ main' = Merge(main, branch[queue[1]])
         /\ main'.on \in Green /\ main'.list \subseteq InitList /\ Lane(queue[1]) \notin due
<1>1. queue \in Seq(PRs) /\ queue # <<>> BY DEF IInv, TypeOK, Land
<1>2. 1 \in 1..Len(queue) /\ queue[1] \in PRs /\ Len(queue) >= 1 BY <1>1
<1>3. run[Lane(queue[1])].state = "done" /\ run[Lane(queue[1])].ci = "success"
  BY DEF Land, QueueRun, Lane
<1>4. /\ group[queue[1]] # NoTree /\ group[queue[1]].on \in Green
      /\ group[queue[1]].list \subseteq InitList /\ Lane(queue[1]) \notin due
  BY <1>2, <1>3 DEF IInv, OnGroup
<1>5. group[queue[1]] = Merge(main, branch[queue[1]]) BY <1>2, <1>4 DEF IInv, Chain
<1> QED BY <1>2, <1>4, <1>5 DEF Land, IInv, Opened

LEMMA LandKeeps ==
  ASSUME IInv, Land
  PROVE  IInv'
<1> DEFINE p == queue[1]
           n == Len(queue) - 1
<1>1. /\ p \in PRs /\ head[p] > 0 /\ main' = Merge(main, branch[p]) /\ main' = group[p]
      /\ main'.list \subseteq InitList /\ Lane(p) \notin due
  BY LandIsJudged DEF Land
<1>2. /\ queue \in Seq(PRs) /\ n \in Nat /\ queue' \in Seq(PRs) /\ Len(queue') = n
      /\ \A i \in 1..n : queue'[i] = queue[i + 1]
  BY LandIsJudged DEF Land, IInv, TypeOK
<1>3. \A i, j \in 1..(n + 1) : queue[i] = queue[j] => i = j BY DEF IInv, Once
<1>4. /\ run \in [Refs -> Runs] /\ group \in [PRs -> Trees] /\ main' \in Trees
      /\ NoRun \in Runs /\ NoTree \in Trees
  <2>1. NoTree \in Trees BY DEF NoTree, Trees
  <2>2. NoRun \in Runs BY <2>1 DEF NoRun, Runs
  <2>3. main' \in Trees BY <1>1 DEF IInv, TypeOK
  <2> QED BY <2>1, <2>2, <2>3 DEF IInv, TypeOK
<1>5. /\ UNCHANGED <<head, branch, due, faults>>
      /\ group' = [group EXCEPT ![p] = NoTree] /\ run' = [run EXCEPT ![Lane(p)] = NoRun]
  BY DEF Land, Lane
<1> HIDE DEF p
<1>6. TypeOK' BY <1>2, <1>4, <1>5 DEF IInv, TypeOK
<1>7. \A i \in 1..n : i + 1 \in 1..(n + 1) /\ i + 1 # 1 BY <1>2
<1>8. \A i \in 1..n : queue'[i] # p /\ queue'[i] \in PRs
  BY <1>2, <1>3, <1>7 DEF p
<1>9. \A q \in PRs : q # p => group'[q] = group[q] BY <1>4, <1>5
<1>10. Opened'
  BY <1>2, <1>5, <1>7 DEF IInv, Opened
<1>11. Once'
  <2> SUFFICES ASSUME NEW i \in 1..n, NEW j \in 1..n, queue'[i] = queue'[j] PROVE i = j
    BY <1>2 DEF Once
  <2>1. queue[i + 1] = queue[j + 1] BY <1>2
  <2>2. i + 1 = j + 1 BY <1>3, <1>7, <2>1
  <2> QED BY <1>2, <2>2
<1>12. Chain'
  <2> SUFFICES ASSUME NEW i \in 1..n, group'[queue'[i]] # NoTree
               PROVE /\ i = 1 => group'[queue'[i]] = Merge(main', branch[queue'[i]])
                     /\ i > 1 => group'[queue'[i - 1]] # NoTree /\
                          group'[queue'[i]] = Merge(group'[queue'[i - 1]], branch[queue'[i]])
    BY <1>2, <1>5 DEF Chain
  <2>1. queue'[i] = queue[i + 1] /\ group'[queue'[i]] = group[queue[i + 1]]
    BY <1>2, <1>8, <1>9
  <2>2. i + 1 \in 1..Len(queue) /\ i + 1 > 1 /\ (i + 1) - 1 = i BY <1>2
  <2>3. group[queue[i]] # NoTree /\ group[queue[i + 1]] = Merge(group[queue[i]], branch[queue[i + 1]])
    BY <2>1, <2>2 DEF IInv, Chain
  <2>4. CASE i = 1
    BY <1>1, <2>1, <2>3, <2>4 DEF p
  <2>5. CASE i > 1
    <3>1. i - 1 \in 1..n /\ (i - 1) + 1 = i BY <1>2, <2>5
    <3>2. queue'[i - 1] = queue[i] /\ group'[queue'[i - 1]] = group[queue[i]]
      BY <1>2, <1>8, <1>9, <3>1
    <3> QED BY <2>1, <2>3, <2>5, <3>2
  <2> QED BY <1>2, <2>4, <2>5
<1>13. Owned'
  <2> SUFFICES ASSUME NEW q \in PRs, group'[q] # NoTree PROVE \E i \in 1..n : queue'[i] = q
    BY <1>2 DEF Owned, Queued
  <2>1. q # p /\ group[q] # NoTree BY <1>4, <1>5
  <2>2. PICK j \in 1..(n + 1) : queue[j] = q BY <1>2, <2>1 DEF IInv, Owned, Queued
  <2>3. j # 1 BY <2>1, <2>2 DEF p
  <2>4. j - 1 \in 1..n /\ (j - 1) + 1 = j BY <1>2, <2>3
  <2> QED BY <1>2, <2>2, <2>4
<1>14. ASSUME NEW q \in PRs PROVE OnGroup(q)'
  <2>1. Lane(q) \in Refs BY DEF Lane, Refs, Lanes
  <2>2. CASE q = p
    <3>1. run'[Lane(q)] = NoRun BY <1>4, <1>5, <2>1, <2>2
    <3>2. NoRun.state = "none" /\ NoRun.build = "" /\ NoRun.ci = "" BY DEF NoRun
    <3> QED BY <1>1, <1>5, <2>2, <3>1, <3>2 DEF OnGroup, p
  <2>3. CASE q # p
    <3>1. run'[Lane(q)] = run[Lane(q)] BY <1>4, <1>5, <2>1, <2>3 DEF Lane
    <3> QED BY <1>5, <1>9, <2>3, <3>1 DEF IInv, OnGroup
  <2> QED BY <2>2, <2>3
<1>15. NothingNew' /\ Formed'
  BY <1>1, <1>5 DEF IInv, NothingNew, Formed
<1> QED BY <1>6, <1>10, <1>11, <1>12, <1>13, <1>14, <1>15 DEF IInv

-----------------------------------------------------------------------------
LEMMA StepKeeps ==
  ASSUME QueueAssumption, IInv, [Next]_vars
  PROVE  IInv'
<1>1. CASE UNCHANGED vars
  <2> USE <1>1 DEF vars
  <2>1. TypeOK' BY DEF IInv, TypeOK
  <2>2. (Formed /\ Opened /\ Once /\ Owned /\ NothingNew)'
    BY DEF IInv, Formed, Opened, Once, Owned, NothingNew, Queued
  <2>3. Chain' BY DEF IInv, Chain
  <2>4. (\A p \in PRs : OnGroup(p))' BY DEF IInv, OnGroup
  <2> QED BY <2>1, <2>2, <2>3, <2>4 DEF IInv
<1>2. CASE \E ref \in Refs : Fire(ref) \/ Job(ref) \/ Fault(ref)
  BY <1>2, FireKeeps, StartKeeps, ConcludeKeeps, AggregateKeeps, FaultKeeps DEF Job
<1>3. CASE \E p \in PRs : Push(p) \/ Enqueue(p)
  BY <1>3, PushKeeps, EnqueueKeeps
<1>4. CASE Land BY <1>4, LandKeeps
<1>5. CASE \E k \in 1..Len(queue) : Build(k) \/ Eject(k)
  BY <1>5, BuildKeeps, EjectKeeps
<1> QED BY <1>1, <1>2, <1>3, <1>4, <1>5 DEF Next

\* The chain of branches, their owners and the runs on them are as IInv says, always.
THEOREM Invariance == Spec => []IInv
<1>1. Init => IInv BY QueueAssumption, InitHolds
<1>2. IInv /\ [Next]_vars => IInv' BY QueueAssumption, StepKeeps
<1> QED BY <1>1, <1>2, PTL DEF Spec

\* Every variable of the queue keeps its type, whatever is pushed and fails.
THEOREM TypeCorrect == Spec => []TypeOK
<1>1. IInv => TypeOK BY DEF IInv
<1> QED BY <1>1, Invariance, PTL

\* Only Land moves main.
LEMMA MainMoves ==
  ASSUME [Next]_vars
  PROVE  main' = main \/ Land
BY DEF Next, vars, Fire, Job, Start, Conclude, Aggregate, Fault, Push, Enqueue, Build, Eject

\* No entry that main's list of linter exceptions did not have at first lands, whatever
\* stands on what, and whatever main retires while a run is on its way.
THEOREM NothingNewLands == Spec => []NothingNew
<1>1. IInv => NothingNew BY DEF IInv
<1> QED BY <1>1, Invariance, PTL

\* The queue implements the promise of Landing: every move of main is to a tree that
\* the gates accept as a whole, and keeps what had landed.
THEOREM QueueImplementsLanding == Spec => OnlyJudgedLands
<1>1. Init => Promise!Init BY DEF Init, Promise!Init
<1>2. IInv /\ [Next]_vars => [Promise!Land]_main
  <2> SUFFICES ASSUME IInv, [Next]_vars, main' # main PROVE Promise!Land
    OBVIOUS
  <2>1. Land BY MainMoves
  <2>2. /\ main'.on \in Green /\ main'.list \subseteq InitList /\ main' = Merge(main, branch[queue[1]])
    BY <2>1, LandIsJudged
  <2>3. main.on \subseteq main'.on BY <2>2 DEF Merge
  <2> QED BY <2>1, <2>2, <2>3 DEF Promise!Land
<1> QED BY <1>1, <1>2, Invariance, PTL DEF Spec, OnlyJudgedLands, Promise!Spec
=============================================================================
