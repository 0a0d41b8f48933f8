--------------------------- MODULE WorkflowProofs ---------------------------
(***************************************************************************)
(* Proofs about the workflows beside the queue: BuildCache, for any        *)
(* modules, versions, toolchains and trees (any number of each; nothing is *)
(* assumed finite), and Docs, for any day, any time limit shorter than it, *)
(* any number of commits, dispatches and failures.                         *)
(*                                                                         *)
(* BuiltIsExact follows from what a job has established so far: from the   *)
(* prune on, its directory holds nothing its tree lacks, and a build adds  *)
(* only what the tree has.  SettledIsWarm follows from the group holding   *)
(* back, of main's runs, only one of main as it is, so that a run of main  *)
(* that found nothing behind it was on main as it is.                      *)
(*                                                                         *)
(* NeverOlder follows from the runs of a group being ordered as they came. *)
(* AtMostADayBehind needs to know by whom each commit that the site lacks  *)
(* will be served: by the next scheduled event, if it landed after the     *)
(* last, and otherwise by a run that builds it.                            *)
(***************************************************************************)
EXTENDS BuildCache, Docs, SequenceTheorems, TLAPS

-----------------------------------------------------------------------------
(* The build cache.                                                        *)

NoOrphans(out, t) == \A m \in Modules : t.src[m] = None => out[m] = None

JobOnTree ==
  /\ job.phase \in {"pruned", "built"} => NoOrphans(dir[job.lane], job.tree)
  /\ job.phase = "built" => Covers(dir[job.lane], job.tree)

WarmOnMain ==
  /\ \A p \in pending : p.ref = "main" => p.tree = main
  /\ pending = {} /\ warm.phase \in {"started", "building"} /\ warm.ref = "main" => warm.tree = main

IInv == TypeOK /\ JobOnTree /\ WarmOnMain /\ SettledIsWarm

\* The artifact lake wants is an artifact.
LEMMA WantedType ==
  ASSUME NEW t \in Trees, NEW m \in Modules
  PROVE  Wanted(t, m) \in Artifact /\ (t.src[m] # None => Wanted(t, m) # None)
<1>1. t.pin \in Pins /\ t.src[m] \in Versions \cup {None}
  BY TreesAssumption DEF Source
<1>2. CASE t.src[m] = None
  BY <1>2 DEF Wanted, Artifact
<1>3. CASE t.src[m] # None
  <2>1. <<t.pin, t.src[m]>> \in Pins \X Versions
    BY <1>1, <1>3
  <2> QED
    BY <1>3, <2>1, TreesAssumption DEF Wanted, Artifact
<1> QED
  BY <1>2, <1>3

\* What a restore finds is an output.
LEMMA RestoredType ==
  ASSUME TypeOK, NEW ref, NEW k \in Pins, NEW out \in Restored(ref, k)
  PROVE  out \in Output
<1>1. CASE out = cache[k]
  BY <1>1 DEF TypeOK
<1>2. CASE out \in [Modules -> ({k} \X Versions) \cup {None}]
  <2>1. ({k} \X Versions) \cup {None} \subseteq Artifact
    BY DEF Artifact
  <2> QED BY <1>2, <2>1 DEF Output
<1> QED BY <1>1, <1>2 DEF Restored

\* A step that leaves the job and its directory alone leaves it where it is.
LEMMA JobUndisturbed ==
  ASSUME TypeOK, JobOnTree, job' = job, dir'[job.lane] = dir[job.lane]
  PROVE  JobOnTree'
BY DEF JobOnTree, NoOrphans, Covers, Wanted

\* The warm side and the CI side keep the types.
LEMMA StepsKeepTypes ==
  ASSUME TypeOK, [Next]_vars
  PROVE  TypeOK'
<1> USE DEF TypeOK, Dirs, Ended
<1>0. Bare \in Output /\ \A k \in Pins : cache[k] \in Output
  BY DEF Bare, Output, Artifact
<1>1. ASSUME NEW t \in Trees, Push(t) PROVE TypeOK'
  BY <1>1 DEF Push, Queue, Refs
<1>2. CASE Dispatch
  BY <1>2 DEF Dispatch, Queue, Refs
<1>3. CASE WarmStart
  <2>1. PICK p \in pending : warm' = [phase |-> "started", ref |-> p.ref, tree |-> p.tree]
    BY <1>3 DEF WarmStart
  <2> QED
    BY <1>3, <2>1 DEF WarmStart
<1>4. CASE WarmRestore
  <2>1. warm.ref \in Refs /\ warm.tree \in Trees /\ warm.tree.pin \in Pins
    BY <1>4, TreesAssumption DEF WarmRestore
  <2>2. PICK out \in Restored(warm.ref, warm.tree.pin) : dir' = [dir EXCEPT !["warm"] = out]
    BY <1>4 DEF WarmRestore
  <2>3. out \in Output
    BY <2>1, RestoredType
  <2>4. dir' \in [Dirs -> Output]
    BY <2>2, <2>3
  <2>5. warm' \in [phase : {"started", "building"}, ref : Refs, tree : Trees]
    BY <1>4, <2>1 DEF WarmRestore
  <2> QED
    BY <1>4, <2>4, <2>5 DEF WarmRestore
<1>5. ASSUME NEW m \in Modules, WarmBuild(m) PROVE TypeOK'
  <2>1. Wanted(warm.tree, m) \in Artifact
    <3>1. warm.tree \in Trees
      BY <1>5 DEF WarmBuild
    <3> QED BY <3>1, WantedType
  <2>2. dir' \in [Dirs -> Output]
    BY <1>5, <2>1 DEF WarmBuild, Lake, Output
  <2> QED
    BY <1>5, <2>2 DEF WarmBuild
<1>6. CASE WarmEnd
  <2>1. warm' \in [phase : Ended, ref : Refs, tree : {None}]
    BY <1>6 DEF WarmEnd
  <2>2. cache' \in [Pins -> Output]
    BY <1>6 DEF WarmEnd
  <2>3. dir' \in [Dirs -> Output]
    BY <1>0, <1>6 DEF WarmEnd
  <2> QED
    BY <1>6, <2>1, <2>2, <2>3 DEF WarmEnd
<1>7. ASSUME NEW t \in Trees, NEW lane \in {"hosted", "mac"}, JobStart(t, lane)
      PROVE  TypeOK'
  <2>1. dir' \in [Dirs -> Output]
    BY <1>0, <1>7 DEF JobStart
  <2> QED
    BY <1>7, <2>1 DEF JobStart
<1>8. CASE JobRestore
  <2>1. job.tree.pin \in Pins
    BY TreesAssumption
  <2>2. dir' \in [Dirs -> Output]
    <3>1. CASE job.lane = "hosted"
      <4>1. PICK out \in Restored("branch", job.tree.pin) : dir' = [dir EXCEPT !["hosted"] = out]
        BY <1>8, <3>1 DEF JobRestore
      <4>2. out \in Output
        BY <2>1, RestoredType
      <4> QED BY <4>1, <4>2
    <3>2. CASE job.lane # "hosted"
      BY <1>8, <3>2 DEF JobRestore
    <3> QED BY <3>1, <3>2
  <2> QED
    BY <1>8, <2>2 DEF JobRestore
<1>9. CASE JobPrune
  <2>1. [m \in Modules |-> IF job.tree.src[m] = None THEN None ELSE dir[job.lane][m]]
          \in Output
    BY DEF Output, Artifact
  <2>2. dir' \in [Dirs -> Output]
    BY <1>9, <2>1 DEF JobPrune
  <2> QED
    BY <1>9, <2>2 DEF JobPrune
<1>10. ASSUME NEW m \in Modules, JobBuild(m) PROVE TypeOK'
  <2>1. Wanted(job.tree, m) \in Artifact
    BY WantedType
  <2>2. dir' \in [Dirs -> Output]
    BY <1>10, <2>1 DEF JobBuild, Lake, Output
  <2> QED
    BY <1>10, <2>2 DEF JobBuild
<1>11. CASE JobBuilt
  BY <1>11 DEF JobBuilt
<1>12. CASE UNCHANGED vars
  BY <1>12 DEF vars
<1> QED
  BY <1>1, <1>2, <1>3, <1>4, <1>5, <1>6, <1>7, <1>8, <1>9, <1>10, <1>11, <1>12
     DEF Next, WarmStep, JobStep

\* From the prune on, a job's directory holds nothing its tree lacks.
LEMMA StepsKeepJob ==
  ASSUME TypeOK, JobOnTree, [Next]_vars
  PROVE  JobOnTree'
<1> USE DEF TypeOK, Dirs
<1>1. CASE WarmStep \/ Dispatch \/ UNCHANGED vars \/ \E t \in Trees : Push(t)
  <2>1. job' = job /\ dir'[job.lane] = dir[job.lane]
    BY <1>1 DEF WarmStep, Dispatch, Push, vars, WarmStart, WarmRestore, WarmBuild,
                WarmEnd, Lake
  <2> QED
    BY <2>1, JobUndisturbed
<1>2. CASE \E t \in Trees, lane \in {"hosted", "mac"} : JobStart(t, lane)
  BY <1>2 DEF JobStart, JobOnTree
<1>3. CASE JobRestore
  BY <1>3 DEF JobRestore, JobOnTree
<1>4. CASE JobPrune
  BY <1>4 DEF JobPrune, JobOnTree, NoOrphans
<1>5. ASSUME NEW m \in Modules, JobBuild(m) PROVE JobOnTree'
  <2>1. /\ job.phase = "pruned" /\ job' = job /\ job.tree.src[m] # None
        /\ \A n \in Modules : n # m => dir'[job.lane][n] = dir[job.lane][n]
    BY <1>5 DEF JobBuild, Lake, Output
  <2> QED
    BY <2>1 DEF JobOnTree, NoOrphans
<1>6. CASE JobBuilt
  BY <1>6 DEF JobBuilt, JobOnTree, NoOrphans, Covers, Wanted
<1> QED
  BY <1>1, <1>2, <1>3, <1>4, <1>5, <1>6 DEF Next, JobStep

\* A run of main that is held back is on main as it is, and so is what the last one saved.
LEMMA StepsKeepWarm ==
  ASSUME TypeOK, WarmOnMain, SettledIsWarm, [Next]_vars
  PROVE  WarmOnMain' /\ SettledIsWarm'
<1> USE DEF TypeOK, Dirs, Ended, WarmOnMain, SettledIsWarm, Settled
<1>1. ASSUME NEW t \in Trees, Push(t) PROVE WarmOnMain' /\ SettledIsWarm'
  <2>1. pending' = {[ref |-> "main", tree |-> t]} /\ main' = t
    BY <1>1, Zenon DEF Push, Queue
  <2>2. pending' # {} /\ \A p \in pending' : p.ref = "main" => p.tree = main'
    BY <2>1
  <2> QED BY <2>2, Zenon
<1>2. CASE Dispatch
  <2>1. PICK ref \in Refs, t \in Trees : /\ pending' = {[ref |-> ref, tree |-> t]}
                                         /\ ref = "main" => t = main
    BY <1>2 DEF Dispatch, Queue, Refs
  <2>2. main' = main
    BY <1>2 DEF Dispatch
  <2>3. pending' # {} /\ \A p \in pending' : p.ref = "main" => p.tree = main'
    BY <2>1, <2>2
  <2> QED BY <2>3, Zenon
<1>3. CASE WarmStart
  <2>1. PICK p \in pending : warm' = [phase |-> "started", ref |-> p.ref, tree |-> p.tree]
    BY <1>3 DEF WarmStart
  <2> QED
    BY <1>3, <2>1 DEF WarmStart
<1>4. CASE WarmRestore
  BY <1>4 DEF WarmRestore
<1>5. CASE \E m \in Modules : WarmBuild(m)
  BY <1>5 DEF WarmBuild
<1>6. CASE WarmEnd
  <2>1. warm.phase = "building" /\ pending' = pending /\ main' = main
    BY <1>6 DEF WarmEnd
  <2>2. warm.tree \in Trees /\ warm.tree.pin \in Pins
    BY <2>1, TreesAssumption
  <2>3. warm'.phase \in {"saved", "failed"} /\ warm'.ref = warm.ref
    BY <1>6 DEF WarmEnd
  <2>4. warm'.phase = "saved" /\ warm'.ref = "main" =>
          cache'[warm.tree.pin] = dir["warm"] /\ Covers(dir["warm"], warm.tree)
    BY <1>6, <2>2, <2>3 DEF WarmEnd
  <2> QED
    BY <2>1, <2>3, <2>4 DEF Covers, Wanted
<1>7. CASE JobStep
  <2>1. UNCHANGED <<main, pending, warm, cache>>
    BY <1>7 DEF JobStep, JobStart, JobRestore, JobPrune, JobBuild, JobBuilt
  <2> QED
    BY <2>1 DEF Covers, Wanted
<1>8. CASE UNCHANGED vars
  BY <1>8 DEF vars, Covers, Wanted
<1> QED
  BY <1>1, <1>2, <1>3, <1>4, <1>5, <1>6, <1>7, <1>8 DEF Next, WarmStep

\* The invariant holds initially and every step keeps it.
THEOREM Invariant == Spec => []IInv
<1>1. Init => IInv
  BY DEF Init, IInv, TypeOK, JobOnTree, WarmOnMain, SettledIsWarm, Settled, Refs, Dirs, Ended,
         Bare, Output, Artifact
<1>2. IInv /\ [Next]_vars => IInv'
  BY StepsKeepTypes, StepsKeepJob, StepsKeepWarm DEF IInv
<1> QED
  BY <1>1, <1>2, PTL DEF Spec

\* Every variable keeps its type.
THEOREM TypeCorrect == Spec => []TypeOK
BY Invariant, PTL DEF IInv

\* A finished build directory is exactly the tree it was built from, on either lane,
\* whatever it inherited and whatever was cancelled before.
THEOREM BuildsAreExact == Spec => []BuiltIsExact
<1>1. IInv => BuiltIsExact
  <2> SUFFICES ASSUME IInv, job.phase = "built"
              PROVE  dir[job.lane] = [m \in Modules |-> Wanted(job.tree, m)]
    BY DEF BuiltIsExact
  <2>1. dir[job.lane] \in Output
    BY DEF IInv, TypeOK, Dirs
  <2>2. \A m \in Modules : dir[job.lane][m] = Wanted(job.tree, m)
    BY DEF IInv, JobOnTree, NoOrphans, Covers, Wanted
  <2> QED
    BY <2>1, <2>2 DEF Output
<1> QED
  BY <1>1, Invariant, PTL

\* Once the last warm run has saved and none waits, main restores warm.
THEOREM SettledMainIsWarm == Spec => []SettledIsWarm
BY Invariant, PTL DEF IInv

-----------------------------------------------------------------------------
(* The group of the documentation site.                                    *)

\* All but the last of a sequence.
LEMMA FrontOf ==
  ASSUME NEW S, NEW s \in Seq(S), Len(s) > 0
  PROVE  /\ Front(s) \in Seq(S) /\ Len(Front(s)) = Len(s) - 1
         /\ \A i \in 1..Len(s) - 1 : Front(s)[i] = s[i]
<1> DEFINE k == Len(s) - 1
           f == SubSeq(s, 1, k)
<1>1. k \in Nat /\ \A i \in 1..k : s[i] \in S
  BY ElementOfSeq
<1>2. Front(s) = f
  BY DEF Front
<1> HIDE DEF k
<1>3. /\ f \in Seq(S) /\ Len(f) = (IF 1 <= k THEN k - 1 + 1 ELSE 0)
      /\ \A i \in 1..k - 1 + 1 : f[i] = s[1 + i - 1]
  BY <1>1, SubSeqProperties
<1> HIDE DEF f
<1>4. Len(f) = k /\ \A i \in 1..k : f[i] = s[i]
  BY <1>1, <1>3
<1> QED BY <1>2, <1>3, <1>4 DEF k

\* What is left without the first.
LEMMA FirstRemoved ==
  ASSUME NEW S, NEW s \in Seq(S), Len(s) > 0
  PROVE  /\ RemoveAt(s, 1) \in Seq(S) /\ Len(RemoveAt(s, 1)) = Len(s) - 1
         /\ \A i \in 1..Len(s) - 1 : RemoveAt(s, 1)[i] = s[i + 1]
<1> DEFINE n    == Len(s)
           none == SubSeq(s, 1, 0)
           rest == SubSeq(s, 2, n)
<1>1. n \in Nat /\ n > 0 /\ \A i \in 2..n : s[i] \in S
  BY ElementOfSeq
<1>2. RemoveAt(s, 1) = none \o rest
  <2>1. 1 - 1 = 0 /\ 1 + 1 = 2
    OBVIOUS
  <2> QED BY <2>1, Zenon DEF RemoveAt
<1> HIDE DEF n
<1>3. /\ rest \in Seq(S) /\ Len(rest) = (IF 2 <= n THEN n - 2 + 1 ELSE 0)
      /\ \A i \in 1..n - 2 + 1 : rest[i] = s[2 + i - 1]
  BY <1>1, SubSeqProperties
<1>4. none = <<>>
  BY SubSeqEmpty
<1> HIDE DEF none, rest
<1>5. RemoveAt(s, 1) = rest
  BY <1>2, <1>3, <1>4, ConcatEmptySeq
<1>6. Len(rest) = n - 1
  BY <1>1, <1>3
<1>7. ASSUME NEW i \in 1..n - 1 PROVE rest[i] = s[i + 1]
  <2>1. i \in 1..n - 2 + 1 /\ 2 + i - 1 = i + 1
    BY <1>1
  <2> QED BY <1>3, <2>1
<1> QED BY <1>3, <1>5, <1>6, <1>7 DEF n

\* A run that enters is the last of the group, and stands where the one it replaces stood.
LEMMA EntersLast ==
  ASSUME runs \in Seq(Run), Len(runs) <= 2, DocsAssumption,
         NEW event \in {"schedule", "workflow_dispatch"}, NEW onMain \in BOOLEAN,
         NEW sha \in Commits, Enters(event, onMain, sha)
  PROVE  /\ runs' \in Seq(Run) /\ Len(runs') \in 1..2
         /\ Len(runs') = (IF Len(runs) = 2 THEN 2 ELSE Len(runs) + 1)
         /\ runs'[Len(runs')] = [event |-> event, main |-> onMain, sha |-> sha, step |-> "check", spent |-> 0]
         /\ \A i \in 1..Len(runs') - 1 : i \in 1..Len(runs) /\ runs'[i] = runs[i]
<1> DEFINE new   == [event |-> event, main |-> onMain, sha |-> sha, step |-> "check", spent |-> 0]
           ahead == IF Len(runs) = 2 THEN Front(runs) ELSE runs
<1>1. new \in Run
  BY DEF Run, DocsAssumption
<1>2. Len(runs) \in Nat
  OBVIOUS
<1>3. /\ ahead \in Seq(Run) /\ Len(ahead) = (IF Len(runs) = 2 THEN 1 ELSE Len(runs))
      /\ \A i \in 1..Len(ahead) : i \in 1..Len(runs) /\ ahead[i] = runs[i]
  <2>1. CASE Len(runs) = 2
    <3>1. Len(runs) > 0 /\ Len(runs) - 1 = 1 /\ 1 \in 1..Len(runs) /\ \A i \in 1..1 : i = 1
      BY <2>1
    <3>2. /\ Front(runs) \in Seq(Run) /\ Len(Front(runs)) = Len(runs) - 1
          /\ \A i \in 1..Len(runs) - 1 : Front(runs)[i] = runs[i]
      BY <3>1, FrontOf, Zenon
    <3> QED BY <2>1, <3>1, <3>2, Zenon
  <2> QED BY <1>2, <2>1
<1> HIDE DEF new, ahead
<1>4. runs' = Append(ahead, new)
  BY DEF Enters, new, ahead
<1>5. /\ runs' \in Seq(Run) /\ Len(runs') = Len(ahead) + 1
      /\ runs'[Len(ahead) + 1] = new /\ \A i \in 1..Len(ahead) : runs'[i] = ahead[i]
  BY <1>1, <1>3, <1>4
<1>6. /\ Len(runs') = (IF Len(runs) = 2 THEN 2 ELSE Len(runs) + 1) /\ Len(runs') \in 1..2
      /\ Len(ahead) + 1 = Len(runs') /\ Len(runs') - 1 = Len(ahead)
  <2>1. CASE Len(runs) = 2
    BY <1>3, <1>5, <2>1
  <2>2. CASE Len(runs) # 2
    BY <1>2, <1>3, <1>5, <2>2
  <2> QED BY <2>1, <2>2
<1> QED BY <1>3, <1>5, <1>6, Zenon DEF new

\* A run that ends leaves the other in front.
LEMMA LeavesFirst ==
  ASSUME runs \in Seq(Run), 1 \in 1..Len(runs), runs' = RemoveAt(runs, 1)
  PROVE  /\ runs' \in Seq(Run) /\ Len(runs') = Len(runs) - 1
         /\ \A i \in 1..Len(runs') : i + 1 \in 1..Len(runs) /\ runs'[i] = runs[i + 1]
<1>1. Len(runs) \in Nat /\ Len(runs) > 0
  OBVIOUS
<1>2. /\ RemoveAt(runs, 1) \in Seq(Run) /\ Len(RemoveAt(runs, 1)) = Len(runs) - 1
      /\ \A i \in 1..Len(runs) - 1 : RemoveAt(runs, 1)[i] = runs[i + 1]
  BY <1>1, FirstRemoved, Zenon
<1>3. \A i \in 1..Len(runs) - 1 : i + 1 \in 1..Len(runs)
  BY <1>1
<1> QED BY <1>2, <1>3, Zenon

\* A run that works, or goes on, is a run.
LEMMA RunMoves ==
  ASSUME NEW r \in Run, NEW s \in {"build", "deploy"}, DocsAssumption
  PROVE  /\ To(r, s) \in Run /\ To(r, s).sha = r.sha /\ To(r, s).event = r.event
         /\ To(r, s).main = r.main /\ To(r, s).step = s /\ To(r, s).spent = r.spent
         /\ Worked(r).sha = r.sha /\ Worked(r).event = r.event /\ Worked(r).main = r.main
         /\ Worked(r).step = r.step /\ Worked(r).spent = r.spent + 1
         /\ r.spent < CAP => Worked(r) \in Run
<1>1. Worked(r) = [event |-> r.event, main |-> r.main, sha |-> r.sha, step |-> r.step,
                      spent |-> r.spent + 1]
  BY DEF Run, Worked
<1>2. To(r, s) = [event |-> r.event, main |-> r.main, sha |-> r.sha, step |-> s, spent |-> r.spent]
  BY DEF Run, To
<1> QED BY <1>1, <1>2 DEF Run, DocsAssumption

\* Each run is on a commit that has landed. One on main is on what was its head when it
\* entered: not older than what the runs before it are on, nor than what the site shows.
\* While all goes smoothly there is no other.
Ordered ==
  /\ \A i \in 1..Len(runs) : runs[i].sha <= landed /\ (runs[i].main => site <= runs[i].sha)
  /\ \A i, j \in 1..Len(runs) : i <= j /\ runs[j].main => runs[i].sha <= runs[j].sha
  /\ smooth => \A i \in 1..Len(runs) : runs[i].main
\* Only the first of the group is past its check, and a run that waits has spent nothing.
OneAtWork ==
  \A i \in 1..Len(runs) : /\ i > 1 => runs[i].step = "check"
                          /\ runs[i].step = "check" => runs[i].spent = 0
\* What landed later has been on main for less time.
Dated ==
  /\ \A c \in Commits : c > landed => since[c] = 0
  /\ \A c, d \in Commits : c <= d /\ d <= landed => since[d] <= since[c]
\* How long ago the last schedule was, whose event may still be on its way.
Horizon == IF due THEN DAY ELSE phase
\* A run that will build, or does; and one that will build c within its bound.
WillBuild(i) == runs[i].event = "workflow_dispatch" \/ runs[i].step # "check" \/ Young(runs[i].sha)
Covered(c) == \E i \in 1..Len(runs) :
                runs[i].sha >= c /\ WillBuild(i) /\ since[c] < DAY + runs[i].spent
\* Whatever the site lacks landed after the last schedule, or some run will build it; and
\* if main's head landed after the last schedule then it was also made after it.
Served == smooth =>
  /\ due => phase = 0
  /\ since[landed] < Horizon => age[landed] < Horizon
  /\ \A c \in site + 1..landed : since[c] < Horizon \/ Covered(c)

GroupInv == SiteTypeOK /\ Ordered /\ OneAtWork

\* A tick takes one from what is left, and gives one to what is spent.
LEMMA Sooner ==
  ASSUME NEW a \in Nat, NEW b \in Nat, NEW spent \in Nat, NEW day \in Nat,
         b <= a + 1, a < day + spent
  PROVE  b < day + (spent + 1)
OBVIOUS

\* A tick leaves every run where it is, and ages those at work.
LEMMA TickGroup ==
  ASSUME GroupInv, Tick, DocsAssumption
  PROVE  /\ runs' \in Seq(Run) /\ Len(runs') = Len(runs)
         /\ \A i \in 1..Len(runs) :
              /\ runs'[i].sha = runs[i].sha /\ runs'[i].event = runs[i].event
              /\ runs'[i].main = runs[i].main /\ runs'[i].step = runs[i].step
              /\ runs'[i].spent = runs[i].spent + (IF runs[i].step = "check" THEN 0 ELSE 1)
<1> DEFINE worked(i) == IF runs[i].step = "check" THEN runs[i] ELSE Worked(runs[i])
<1>1. ASSUME NEW i \in 1..Len(runs)
      PROVE  /\ worked(i) \in Run
             /\ worked(i).sha = runs[i].sha /\ worked(i).event = runs[i].event
             /\ worked(i).main = runs[i].main /\ worked(i).step = runs[i].step
             /\ worked(i).spent = runs[i].spent + (IF runs[i].step = "check" THEN 0 ELSE 1)
  <2>1. runs[i] \in Run /\ runs[i].spent < CAP
    BY DEF Tick, GroupInv, SiteTypeOK
  <2>2. runs[i].spent \in Nat
    BY <2>1, DocsAssumption DEF Run, DocsAssumption
  <2> QED BY <2>1, <2>2, RunMoves
<1>2. runs' = [i \in 1..Len(runs) |-> worked(i)] /\ Len(runs) \in Nat
  BY DEF Tick, GroupInv, SiteTypeOK
<1> HIDE DEF worked
<1> QED BY <1>1, <1>2

\* A run that proceeds, or has built, is the first, and only its step moves.
LEMMA GoesOnGroup ==
  ASSUME GroupInv, DocsAssumption, NEW i \in 1..Len(runs), Proceed(i) \/ Build(i)
  PROVE  \E s \in {"build", "deploy"} :
           /\ i = 1 /\ runs' \in Seq(Run) /\ Len(runs') = Len(runs)
           /\ runs'[1].sha = runs[1].sha /\ runs'[1].event = runs[1].event
           /\ runs'[1].main = runs[1].main
           /\ runs'[1].step = s /\ runs'[1].spent = runs[1].spent
           /\ \A j \in 1..Len(runs) : j > 1 => runs'[j] = runs[j]
           /\ runs[1].step = "check" /\ runs[1].event = "schedule" => Young(runs[1].sha)
<1>1. i = 1 /\ runs \in Seq(Run) /\ runs[1] \in Run /\ Len(runs) \in Nat
  BY DEF Proceed, Build, At, Turn, GroupInv, SiteTypeOK
<1>2. PICK s \in {"build", "deploy"} : runs' = [runs EXCEPT ![1] = To(runs[1], s)]
  BY <1>1 DEF Proceed, Build
<1>3. runs[1].step = "check" /\ runs[1].event = "schedule" => Young(runs[1].sha)
  BY <1>1 DEF Proceed, Build, At
<1>4. /\ To(runs[1], s) \in Run /\ To(runs[1], s).sha = runs[1].sha
      /\ To(runs[1], s).event = runs[1].event /\ To(runs[1], s).main = runs[1].main
      /\ To(runs[1], s).step = s /\ To(runs[1], s).spent = runs[1].spent
  BY <1>1, RunMoves
<1>5. /\ runs' \in Seq(Run) /\ Len(runs') = Len(runs) /\ runs'[1] = To(runs[1], s)
      /\ \A j \in 1..Len(runs) : j > 1 => runs'[j] = runs[j]
  BY <1>1, <1>2, <1>4
<1> QED BY <1>1, <1>3, <1>4, <1>5

\* A run that is skipped, deployed or failed is the first, and the other moves up.
LEMMA LeavesGroup ==
  ASSUME GroupInv, NEW i \in 1..Len(runs), Skip(i) \/ Deploy(i) \/ Fault(i)
  PROVE  /\ i = 1 /\ runs' \in Seq(Run) /\ Len(runs') = Len(runs) - 1 /\ Len(runs) \in Nat
         /\ \A j \in 1..Len(runs') : j + 1 \in 1..Len(runs) /\ runs'[j] = runs[j + 1]
<1>1. i = 1 /\ runs \in Seq(Run) /\ runs' = RemoveAt(runs, 1) /\ Len(runs) \in Nat
  BY DEF Skip, Deploy, Fault, At, Turn, GroupInv, SiteTypeOK
<1> QED BY <1>1, LeavesFirst

\* The type invariant and the order of the runs are inductive together.
LEMMA GroupInductive == DocsAssumption /\ GroupInv /\ [SiteNext]_siteVars => GroupInv'
<1> SUFFICES ASSUME DocsAssumption, GroupInv, [SiteNext]_siteVars PROVE GroupInv'
  OBVIOUS
<1> USE DEF Commits, DocsAssumption
<1>0. /\ runs \in Seq(Run) /\ Len(runs) \in Nat /\ Len(runs) <= 2
      /\ \A i \in 1..Len(runs) : /\ runs[i] \in Run /\ runs[i].sha \in Nat /\ runs[i].spent \in Nat
                                 /\ runs[i].sha <= landed /\ runs[i].main \in BOOLEAN
      /\ site \in Nat /\ landed \in Nat /\ made \in Nat /\ made <= MaxCommits /\ landed <= made
  <2>1. /\ runs \in Seq(Run) /\ Len(runs) \in Nat /\ Len(runs) <= 2
        /\ site \in Nat /\ landed \in Nat /\ made \in Nat /\ made <= MaxCommits /\ landed <= made
    BY DEF GroupInv, SiteTypeOK
  <2>2. \A i \in 1..Len(runs) : runs[i] \in Run /\ runs[i].sha <= landed
    BY <2>1 DEF GroupInv, Ordered
  <2>3. \A r \in Run : r.sha \in Nat /\ r.spent \in Nat /\ r.main \in BOOLEAN
    BY DEF Run
  <2> QED BY <2>1, <2>2, <2>3
<1>01. phase \in 0..DAY - 1 /\ due \in BOOLEAN /\ smooth \in BOOLEAN
  BY DEF GroupInv, SiteTypeOK
<1>1. CASE Tick
  <2>1. due' \in BOOLEAN /\ smooth' \in BOOLEAN
    BY <1>1, Zenon DEF Tick
  <2>2. phase' \in 0..DAY - 1
    <3>1. phase' = IF phase + 1 = DAY THEN 0 ELSE phase + 1
      BY <1>1, Zenon DEF Tick
    <3> QED BY <1>01, <3>1
  <2>3. age' \in [Commits -> 0..DAY] /\ since' \in [Commits -> 0..DAY + CAP]
    <3>1. /\ age' = [c \in Commits |-> IF c <= made THEN AtMost(age[c] + 1, DAY) ELSE 0]
          /\ since' = [c \in Commits |-> IF c <= landed THEN AtMost(since[c] + 1, DAY + CAP) ELSE 0]
      BY <1>1, Zenon DEF Tick
    <3>2. \A c \in Commits : age[c] \in Nat /\ since[c] \in Nat
      BY DEF GroupInv, SiteTypeOK
    <3> QED BY <3>1, <3>2 DEF AtMost
  <2>4. SiteTypeOK'
    BY <1>0, <1>1, <2>1, <2>2, <2>3, TickGroup DEF Tick, GroupInv, SiteTypeOK
  <2>5. Ordered' /\ OneAtWork'
    BY <1>0, <1>1, TickGroup DEF Tick, GroupInv, Ordered, OneAtWork
  <2> QED BY <2>4, <2>5 DEF GroupInv
<1>2. CASE Make
  <2>1. smooth' \in BOOLEAN
    BY <1>2, Zenon DEF Make
  <2>2. made' \in Commits /\ landed \in 0..made'
    BY <1>0, <1>2 DEF Make
  <2>3. SiteTypeOK'
    BY <1>2, <2>1, <2>2 DEF Make, GroupInv, SiteTypeOK
  <2> QED BY <1>2, <2>3 DEF Make, GroupInv, Ordered, OneAtWork
<1>3. CASE Land
  <2>1. smooth' \in BOOLEAN
    BY <1>3, Zenon DEF Land
  <2>2. landed' \in 0..made /\ site \in 0..landed' /\ landed <= landed' /\ made \in Commits
    <3>1. landed < made /\ landed' = made
      BY <1>3, Zenon DEF Land
    <3>2. made \in Commits /\ site \in 0..landed
      BY DEF GroupInv, SiteTypeOK
    <3> QED BY <1>0, <3>1, <3>2
  <2>3. SiteTypeOK'
    BY <1>3, <2>1, <2>2 DEF Land, GroupInv, SiteTypeOK
  <2>4. Ordered'
    BY <1>0, <1>3, <2>2 DEF Land, GroupInv, Ordered
  <2> QED BY <1>3, <2>3, <2>4 DEF Land, GroupInv, OneAtWork
<1>4. CASE Schedule \/ SiteDispatch \/ \E c \in 0..landed : BranchDispatch(c)
  <2>1. PICK event \in {"schedule", "workflow_dispatch"}, onMain \in BOOLEAN, sha \in 0..landed :
          Enters(event, onMain, sha) /\ (IF onMain THEN sha = landed ELSE ~smooth')
    <3>1. landed \in 0..landed
      BY <1>0
    <3>2. CASE Schedule
      BY <3>1, <3>2, Zenon DEF Schedule
    <3>3. CASE SiteDispatch
      BY <3>1, <3>3, Zenon DEF SiteDispatch
    <3>4. CASE \E c \in 0..landed : BranchDispatch(c)
      BY <3>4, Zenon DEF BranchDispatch
    <3> QED BY <1>4, <3>2, <3>3, <3>4
  <2>01. sha \in Commits /\ sha \in Nat /\ sha <= landed
    BY <1>0
  <2>2. /\ runs' \in Seq(Run) /\ Len(runs') \in 1..2
        /\ runs'[Len(runs')] = [event |-> event, main |-> onMain, sha |-> sha, step |-> "check", spent |-> 0]
        /\ \A i \in 1..Len(runs') - 1 : i \in 1..Len(runs) /\ runs'[i] = runs[i]
    BY <1>0, <2>01, <2>1, EntersLast
  <2>3. /\ due' \in BOOLEAN /\ smooth' \in BOOLEAN /\ (smooth' => smooth)
        /\ UNCHANGED <<phase, made, landed, age, since, site>>
    <3>1. CASE Schedule
      BY <1>01, <3>1, Zenon DEF Schedule
    <3>2. CASE SiteDispatch
      BY <1>01, <3>2, Zenon DEF SiteDispatch
    <3>3. CASE \E c \in 0..landed : BranchDispatch(c)
      BY <1>01, <3>3, Zenon DEF BranchDispatch
    <3> QED BY <1>4, <3>1, <3>2, <3>3
  <2>4. SiteTypeOK'
    <3>1. Len(runs') <= 2
      BY <2>2
    <3> QED BY <2>2, <2>3, <3>1 DEF GroupInv, SiteTypeOK
  <2> DEFINE n == Len(runs')
             enters(i) == /\ i = n /\ runs'[i].sha = sha /\ runs'[i].main = onMain
                          /\ runs'[i].step = "check" /\ runs'[i].spent = 0
             stays(i)  == i < n /\ i \in 1..Len(runs) /\ runs'[i] = runs[i]
  <2>5. ASSUME NEW i \in 1..n PROVE enters(i) \/ stays(i)
    <3>0. n \in 1..2
      BY <2>2, Zenon
    <3>1. i = n \/ (i < n /\ i \in 1..n - 1)
      <4> HIDE DEF n
      <4> QED BY <3>0
    <3>2. CASE i = n
      BY <2>2, <3>2
    <3>3. CASE i < n /\ i \in 1..n - 1
      BY <2>2, <3>3, Zenon
    <3> QED BY <3>1, <3>2, <3>3
  <2>6. Ordered'
    <3>1. ASSUME NEW i \in 1..n
          PROVE runs'[i].sha <= landed /\ (runs'[i].main => site <= runs'[i].sha)
      <4>1. CASE enters(i)
        <5>1. site <= landed
          BY DEF GroupInv, SiteTypeOK
        <5> QED BY <1>0, <2>01, <2>1, <4>1, <5>1
      <4>2. CASE stays(i)
        BY <1>0, <4>2 DEF GroupInv, Ordered
      <4> QED BY <2>5, <4>1, <4>2
    <3>2. ASSUME NEW i \in 1..n, NEW j \in 1..n, i <= j, runs'[j].main
          PROVE runs'[i].sha <= runs'[j].sha
      <4>1. CASE enters(j)
        <5>1. runs'[j].sha = landed
          BY <2>1, <3>2, <4>1
        <5> QED BY <3>1, <5>1
      <4>2. CASE stays(j)
        <5>1. i # n
          BY <2>2, <3>2, <4>2
        <5>2. stays(i)
          BY <2>5, <5>1
        <5> QED BY <3>2, <4>2, <5>2 DEF GroupInv, Ordered
      <4> QED BY <2>5, <4>1, <4>2
    <3>3. ASSUME smooth', NEW i \in 1..n PROVE runs'[i].main
      <4>1. CASE enters(i)
        BY <2>1, <3>3, <4>1
      <4>2. CASE stays(i)
        BY <2>3, <3>3, <4>2 DEF GroupInv, Ordered
      <4> QED BY <2>5, <4>1, <4>2
    <3> QED BY <2>3, <3>1, <3>2, <3>3 DEF Ordered
  <2>7. OneAtWork'
    BY <1>0, <2>2, <2>5 DEF GroupInv, OneAtWork
  <2> QED BY <2>4, <2>6, <2>7 DEF GroupInv
<1>5. ASSUME NEW i \in 1..Len(runs), Proceed(i) \/ Build(i) PROVE GroupInv'
  <2>1. PICK s \in {"build", "deploy"} :
           /\ i = 1 /\ runs' \in Seq(Run) /\ Len(runs') = Len(runs)
           /\ runs'[1].sha = runs[1].sha /\ runs'[1].main = runs[1].main
           /\ runs'[1].step = s
           /\ \A j \in 1..Len(runs) : j > 1 => runs'[j] = runs[j]
    BY <1>5, GoesOnGroup
  <2>2. SiteTypeOK'
    BY <1>5, <2>1 DEF Proceed, Build, GroupInv, SiteTypeOK
  <2>3. \A j \in 1..Len(runs) : j = 1 \/ j > 1
    BY <1>0
  <2>4. \A j \in 1..Len(runs') : runs'[j].sha = runs[j].sha /\ runs'[j].main = runs[j].main
    BY <2>1, <2>3
  <2>5. Ordered'
    BY <1>5, <2>1, <2>4 DEF Proceed, Build, GroupInv, Ordered
  <2>6. OneAtWork'
    BY <2>1, <2>3 DEF GroupInv, OneAtWork
  <2> QED BY <2>2, <2>5, <2>6 DEF GroupInv
<1>6. ASSUME NEW i \in 1..Len(runs), Skip(i) \/ Deploy(i) \/ Fault(i) PROVE GroupInv'
  <2>1. /\ i = 1 /\ runs' \in Seq(Run) /\ Len(runs') = Len(runs) - 1
        /\ \A j \in 1..Len(runs') : j + 1 \in 1..Len(runs) /\ runs'[j] = runs[j + 1]
    BY <1>6, LeavesGroup
  <2>2. site' \in {site, runs[1].sha} /\ UNCHANGED <<phase, due, made, landed, age, since>>
        /\ smooth' \in BOOLEAN /\ (smooth' => smooth)
    <3>1. CASE Skip(i)
      BY <1>01, <2>1, <3>1, Zenon DEF Skip
    <3>2. CASE Deploy(i)
      BY <1>01, <2>1, <3>2, Zenon DEF Deploy
    <3>3. CASE Fault(i)
      BY <1>01, <2>1, <3>3, Zenon DEF Fault
    <3> QED BY <1>6, <3>1, <3>2, <3>3
  <2>3. 1 <= Len(runs)
    BY <1>0, <2>1
  <2>4. \A j \in 1..Len(runs') : runs'[j].main => runs[1].sha <= runs'[j].sha
    BY <1>0, <2>1, <2>3 DEF GroupInv, Ordered
  <2>5. SiteTypeOK'
    <3>1. site' \in 0..landed /\ Len(runs') <= 2
      <4>1. site \in 0..landed
        BY DEF GroupInv, SiteTypeOK
      <4> QED BY <1>0, <2>1, <2>2, <2>3, <4>1
    <3> QED BY <2>1, <2>2, <3>1 DEF GroupInv, SiteTypeOK
  <2>6. Ordered'
    <3>1. ASSUME NEW j \in 1..Len(runs')
          PROVE  /\ runs'[j].sha <= landed /\ (runs'[j].main => site' <= runs'[j].sha)
                 /\ smooth' => runs'[j].main
      <4>1. j + 1 \in 1..Len(runs) /\ runs'[j] = runs[j + 1]
        BY <2>1
      <4>2. runs'[j].main => site <= runs'[j].sha
        BY <4>1 DEF GroupInv, Ordered
      <4>3. smooth' => runs'[j].main
        BY <2>2, <4>1 DEF GroupInv, Ordered
      <4>4. runs'[j].sha <= landed
        BY <1>0, <4>1
      <4> QED BY <2>2, <2>4, <4>2, <4>3, <4>4
    <3>2. ASSUME NEW j \in 1..Len(runs'), NEW k \in 1..Len(runs'), j <= k, runs'[k].main
          PROVE  runs'[j].sha <= runs'[k].sha
      <4>1. /\ j + 1 \in 1..Len(runs) /\ runs'[j] = runs[j + 1]
            /\ k + 1 \in 1..Len(runs) /\ runs'[k] = runs[k + 1] /\ j + 1 <= k + 1
        BY <2>1, <3>2
      <4> QED BY <3>2, <4>1 DEF GroupInv, Ordered
    <3> QED BY <2>2, <3>1, <3>2 DEF Ordered
  <2>7. OneAtWork'
    BY <1>0, <2>1, <2>3 DEF GroupInv, OneAtWork
  <2> QED BY <2>5, <2>6, <2>7 DEF GroupInv
<1>7. CASE UNCHANGED siteVars
  BY <1>7 DEF siteVars, GroupInv, SiteTypeOK, Ordered, OneAtWork
<1> QED BY <1>1, <1>2, <1>3, <1>4, <1>5, <1>6, <1>7 DEF SiteNext

\* Ages on main keep their order.
LEMMA DatedInductive == DocsAssumption /\ GroupInv /\ Dated /\ [SiteNext]_siteVars => Dated'
<1> SUFFICES ASSUME DocsAssumption, GroupInv, Dated, [SiteNext]_siteVars PROVE Dated'
  OBVIOUS
<1>0. /\ landed \in Nat /\ made \in Nat /\ DAY + CAP \in Nat
      /\ \A c \in Commits : c \in Nat /\ since[c] \in Nat
  BY DEF GroupInv, SiteTypeOK, Commits, DocsAssumption
<1>1. CASE Tick
  <2>1. /\ since' = [c \in Commits |-> IF c <= landed THEN AtMost(since[c] + 1, DAY + CAP) ELSE 0]
        /\ landed' = landed
    BY <1>1, Zenon DEF Tick
  <2> QED BY <1>0, <2>1 DEF Dated, AtMost
<1>2. CASE Land
  <2>1. landed < made /\ landed' = made /\ since' = since
    BY <1>2, Zenon DEF Land
  <2> QED BY <1>0, <2>1 DEF Dated
<1>3. CASE UNCHANGED <<landed, since>>
  BY <1>3 DEF Dated
<1> QED
  BY <1>1, <1>2, <1>3
  DEF SiteNext, siteVars, Make, Schedule, SiteDispatch, BranchDispatch, Proceed, Skip, Build,
      Deploy, Fault

\* No step leaves a commit unserved: what a replaced or skipped run was to build is served
\* by another, or is not yet a day old.
LEMMA ServedInductive ==
  DocsAssumption /\ GroupInv /\ Dated /\ Served /\ [SiteNext]_siteVars => Served'
<1> SUFFICES ASSUME DocsAssumption, GroupInv, Dated, Served, [SiteNext]_siteVars, smooth'
             PROVE  /\ due' => phase' = 0
                    /\ since'[landed'] < Horizon' => age'[landed'] < Horizon'
                    /\ \A c \in site' + 1..landed' : since'[c] < Horizon' \/ Covered(c)'
  BY Zenon DEF Served
<1>0. /\ landed \in Nat /\ made \in Nat /\ site \in Nat /\ phase \in 0..DAY - 1
      /\ DAY \in Nat /\ CAP \in Nat /\ site <= landed /\ landed <= made
      /\ Commits = 0..MaxCommits /\ MaxCommits \in Nat /\ made <= MaxCommits
      /\ runs \in Seq(Run) /\ Len(runs) \in Nat /\ Len(runs) <= 2
  <2>1. runs \in Seq(Run) /\ Len(runs) \in Nat /\ Len(runs) <= 2
    BY DEF GroupInv, SiteTypeOK
  <2> QED BY <2>1 DEF GroupInv, SiteTypeOK, Commits, DocsAssumption
<1>01. \A c \in Commits : since[c] \in Nat /\ age[c] \in Nat
  BY DEF GroupInv, SiteTypeOK
<1>02. \A i \in 1..Len(runs) : runs[i].sha \in Nat /\ runs[i].spent \in Nat
  <2>1. \A r \in Run : r.sha \in Nat /\ r.spent \in Nat
    BY <1>0 DEF Run
  <2>2. \A i \in 1..Len(runs) : runs[i] \in Run
    BY <1>0, ElementOfSeq
  <2> QED BY <2>1, <2>2
<1>1. CASE Tick
  <2>1. /\ phase' = IF phase + 1 = DAY THEN 0 ELSE phase + 1
        /\ due' = (due \/ phase' = 0)
        /\ age' = [c \in Commits |-> IF c <= made THEN AtMost(age[c] + 1, DAY) ELSE 0]
        /\ since' = [c \in Commits |-> IF c <= landed THEN AtMost(since[c] + 1, DAY + CAP) ELSE 0]
        /\ smooth /\ ~due /\ \A i \in 1..Len(runs) : runs[i].step # "check"
        /\ landed' = landed /\ site' = site
    BY <1>1, Zenon DEF Tick
  <2>2. Horizon = phase /\ Horizon' = phase + 1
    <3>1. CASE phase + 1 = DAY
      <4>1. phase' = 0 /\ due'
        BY <2>1, <3>1
      <4> QED BY <2>1, <3>1, <4>1 DEF Horizon
    <3>2. CASE phase + 1 # DAY
      <4>1. phase' = phase + 1
        BY <2>1, <3>2
      <4>2. ~due'
        <5>1. phase' # 0
          BY <1>0, <4>1
        <5> QED BY <2>1, <5>1, Zenon
      <4> QED BY <2>1, <4>1, <4>2 DEF Horizon
    <3> QED BY <3>1, <3>2
  <2>3. \A c \in 0..landed : since'[c] = AtMost(since[c] + 1, DAY + CAP)
    BY <1>0, <2>1
  <2>4. \A c \in 0..landed : /\ since'[c] \in Nat /\ since'[c] <= since[c] + 1
                             /\ since'[c] < phase + 1 => since[c] < phase
    <3> SUFFICES ASSUME NEW c \in 0..landed
                 PROVE  /\ since'[c] \in Nat /\ since'[c] <= since[c] + 1
                        /\ since'[c] < phase + 1 => since[c] < phase
      OBVIOUS
    <3>1. since[c] \in Nat /\ since'[c] = AtMost(since[c] + 1, DAY + CAP)
      BY <1>0, <1>01, <2>3
    <3> QED BY <1>0, <3>1 DEF AtMost
  <2>5. age'[landed] \in Nat /\ age'[landed] <= age[landed] + 1
    BY <1>0, <1>01, <2>1 DEF AtMost
  <2>6. since'[landed] < phase + 1 => age'[landed] < phase + 1
    <3> SUFFICES ASSUME since'[landed] < phase + 1 PROVE age'[landed] < phase + 1
      OBVIOUS
    <3>0. landed \in 0..landed /\ landed \in Commits
      BY <1>0
    <3>1. since[landed] < phase
      BY <2>4, <3>0, Zenon
    <3>2. age[landed] < phase /\ age[landed] \in Nat
      BY <1>01, <2>1, <2>2, <3>0, <3>1 DEF Served
    <3> QED BY <1>0, <2>5, <3>2
  <2>7. ASSUME NEW c \in site + 1..landed PROVE since'[c] < Horizon' \/ Covered(c)'
    <3>1. c \in 0..landed /\ c \in Commits
      BY <1>0
    <3>2. CASE since[c] < phase
      <4>1. since'[c] \in Nat /\ since'[c] <= since[c] + 1 /\ since[c] \in Nat
        BY <1>01, <2>4, <3>1, Zenon
      <4>2. since'[c] < phase + 1
        BY <1>0, <3>2, <4>1
      <4> QED BY <2>2, <4>2
    <3>3. CASE Covered(c)
      <4>1. PICK i \in 1..Len(runs) : runs[i].sha >= c /\ since[c] < DAY + runs[i].spent
        BY <3>3 DEF Covered
      <4>2. /\ Len(runs') = Len(runs) /\ runs'[i].sha = runs[i].sha
            /\ runs'[i].step # "check" /\ runs'[i].spent = runs[i].spent + 1
        BY <1>1, <2>1, TickGroup
      <4>3. since'[c] < DAY + runs'[i].spent
        <5>1. /\ since'[c] \in Nat /\ since[c] \in Nat /\ since'[c] <= since[c] + 1
              /\ runs[i].spent \in Nat
          BY <1>01, <1>02, <2>4, <3>1, Zenon
        <5>2. CAP \in Nat /\ DAY \in Nat
          BY <1>0
        <5>3. since'[c] < DAY + (runs[i].spent + 1)
          BY <4>1, <5>1, <5>2, Sooner
        <5> QED BY <4>2, <5>3, Zenon
      <4> QED BY <4>1, <4>2, <4>3 DEF Covered, WillBuild
    <3> QED BY <2>1, <2>2, <3>2, <3>3 DEF Served
  <2> QED BY <2>1, <2>2, <2>6, <2>7
<1>2. CASE Make
  BY <1>2 DEF Make, Served, Horizon, Covered, WillBuild, Young
<1>3. CASE Land
  <2>1. /\ landed < made /\ landed' = made /\ smooth /\ age[made] < phase
        /\ UNCHANGED <<phase, due, made, age, since, site, runs>>
    BY <1>3, Zenon DEF Land
  <2>2. ~due /\ Horizon = phase /\ Horizon' = phase /\ phase > 0
    BY <1>0, <1>01, <2>1 DEF Served, Horizon
  <2>3. ASSUME NEW c \in site + 1..made PROVE since[c] < phase \/ Covered(c)
    <3>1. CASE c <= landed
      BY <1>0, <2>1, <2>2, <3>1 DEF Served
    <3>2. CASE c > landed
      BY <1>0, <2>2, <3>2 DEF Dated
    <3> QED BY <1>0, <3>1, <3>2
  <2>4. ASSUME NEW c \in site + 1..made, Covered(c) PROVE Covered(c)'
    BY <2>1, <2>4 DEF Covered, WillBuild, Young
  <2> QED BY <2>1, <2>2, <2>3, <2>4
<1>4. ASSUME NEW event \in {"schedule", "workflow_dispatch"}, Enters(event, TRUE, landed),
             UNCHANGED <<phase, made, landed, age, since, site>>, smooth,
             IF event = "schedule" THEN due /\ ~due' ELSE due' = due
      PROVE  /\ due' => phase' = 0
             /\ since'[landed'] < Horizon' => age'[landed'] < Horizon'
             /\ \A c \in site' + 1..landed' : since'[c] < Horizon' \/ Covered(c)'
  <2>1. PICK n \in 1..2 :
          /\ Len(runs') = n /\ n = (IF Len(runs) = 2 THEN 2 ELSE Len(runs) + 1)
          /\ runs'[n] = [event |-> event, main |-> TRUE, sha |-> landed, step |-> "check", spent |-> 0]
          /\ \A i \in 1..n - 1 : i \in 1..Len(runs) /\ runs'[i] = runs[i]
    <3>1. landed \in Commits /\ Len(runs) <= 2
      BY <1>0
    <3>2. /\ Len(runs') \in 1..2
          /\ Len(runs') = (IF Len(runs) = 2 THEN 2 ELSE Len(runs) + 1)
          /\ runs'[Len(runs')] = [event |-> event, main |-> TRUE, sha |-> landed, step |-> "check", spent |-> 0]
          /\ \A i \in 1..Len(runs') - 1 : i \in 1..Len(runs) /\ runs'[i] = runs[i]
      BY <1>0, <1>4, <3>1, EntersLast, Zenon
    <3> QED BY <3>2, Zenon
  <2>2. runs'[n].event = event /\ runs'[n].sha = landed /\ runs'[n].spent = 0 /\ n \in 1..Len(runs')
    BY <2>1
  \* The run that enters serves what landed in the last day.
  <2>3. ASSUME NEW c \in site + 1..landed, since[c] < DAY,
               event = "workflow_dispatch" \/ age[landed] < DAY
        PROVE  Covered(c)'
    <3>1. runs'[n].sha >= c /\ since'[c] < DAY + runs'[n].spent
      BY <1>0, <1>4, <2>2, <2>3
    <3>2. WillBuild(n)'
      <4>1. age' = age
        BY <1>4
      <4> QED BY <2>2, <2>3, <4>1 DEF WillBuild, Young
    <3> QED BY <2>2, <3>1, <3>2, Zenon DEF Covered
  \* A run that stays serves what it served; one that is replaced had not begun.
  <2>4. ASSUME NEW c \in site + 1..landed, Covered(c) PROVE Covered(c)' \/ since[c] < DAY
    <3>1. PICK i \in 1..Len(runs) :
            runs[i].sha >= c /\ WillBuild(i) /\ since[c] < DAY + runs[i].spent
      BY <2>4 DEF Covered
    <3>2. CASE i \in 1..n - 1
      <4>1. runs'[i] = runs[i] /\ i \in 1..n
        BY <2>1, <3>2
      <4>2. WillBuild(i)'
        BY <1>4, <3>1, <4>1 DEF WillBuild, Young
      <4> QED BY <1>4, <2>1, <3>1, <4>1, <4>2 DEF Covered
    <3>3. CASE i \notin 1..n - 1
      <4>1. i = 2
        <5>1. CASE Len(runs) = 2
          BY <2>1, <3>3, <5>1
        <5>2. CASE Len(runs) # 2
          BY <1>0, <2>1, <3>3, <5>2
        <5> QED BY <5>1, <5>2
      <4>2. runs[i].spent = 0
        BY <4>1 DEF GroupInv, OneAtWork
      <4> QED BY <1>0, <3>1, <4>2
    <3> QED BY <3>2, <3>3
  <2>5. CASE event = "schedule"
    <3>1. due /\ ~due' /\ Horizon = DAY /\ phase = 0 /\ Horizon' = 0
      BY <1>4, <2>5 DEF Horizon, Served
    <3>2. landed \in Commits /\ since[landed] \in Nat
      BY <1>0, <1>01
    <3>3. ASSUME NEW c \in site + 1..landed PROVE Covered(c)'
      <4>1. c \in Commits /\ c <= landed
        BY <1>0
      <4>2. CASE since[c] < DAY
        <5>1. since[landed] <= since[c]
          BY <1>0, <3>2, <4>1 DEF Dated
        <5>2. age[landed] < DAY
          BY <1>0, <1>01, <1>4, <3>1, <3>2, <4>1, <4>2, <5>1 DEF Served
        <5> QED BY <2>3, <4>2, <5>2
      <4>3. CASE ~(since[c] < DAY)
        <5>1. Covered(c)
          BY <1>4, <3>1, <4>3 DEF Served
        <5> QED BY <2>4, <4>3, <5>1
      <4> QED BY <4>2, <4>3
    <3> QED BY <1>4, <3>1, <3>2, <3>3
  <2>6. CASE event = "workflow_dispatch"
    <3>1. due' = due /\ Horizon' = Horizon
      BY <1>4, <2>6 DEF Horizon
    <3>2. ASSUME NEW c \in site + 1..landed, Covered(c) PROVE Covered(c)'
      BY <2>3, <2>4, <2>6, <3>2
    <3> QED BY <1>4, <3>1, <3>2 DEF Served
  <2> QED BY <2>5, <2>6
<1>5. CASE Schedule
  BY <1>4, <1>5 DEF Schedule
<1>6. CASE SiteDispatch \/ \E c \in 0..landed : BranchDispatch(c)
  <2>1. SiteDispatch
    BY <1>6 DEF BranchDispatch
  <2> QED BY <1>4, <2>1 DEF SiteDispatch
<1>7. ASSUME NEW i \in 1..Len(runs), Proceed(i) \/ Build(i)
      PROVE  /\ due' => phase' = 0
             /\ since'[landed'] < Horizon' => age'[landed'] < Horizon'
             /\ \A c \in site' + 1..landed' : since'[c] < Horizon' \/ Covered(c)'
  <2>1. smooth /\ UNCHANGED <<phase, due, made, landed, age, since, site>>
    BY <1>7, Zenon DEF Proceed, Build
  <2>2. PICK s \in {"build", "deploy"} :
           /\ Len(runs') = Len(runs)
           /\ runs'[1].sha = runs[1].sha /\ runs'[1].step = s /\ runs'[1].spent = runs[1].spent
           /\ \A j \in 1..Len(runs) : j > 1 => runs'[j] = runs[j]
    BY <1>7, GoesOnGroup
  <2>3. ASSUME NEW c \in site + 1..landed, Covered(c) PROVE Covered(c)'
    <3>1. PICK j \in 1..Len(runs) :
            runs[j].sha >= c /\ WillBuild(j) /\ since[c] < DAY + runs[j].spent
      BY <2>3 DEF Covered
    <3>2. CASE j = 1
      <4>1. WillBuild(j)'
        BY <2>2, <3>2 DEF WillBuild
      <4> QED BY <2>1, <2>2, <3>1, <3>2, <4>1 DEF Covered
    <3>3. CASE j > 1
      <4>1. runs'[j] = runs[j]
        BY <2>2, <3>3
      <4>2. WillBuild(j)'
        BY <2>1, <3>1, <4>1 DEF WillBuild, Young
      <4> QED BY <2>1, <2>2, <3>1, <4>1, <4>2 DEF Covered
    <3> QED BY <1>0, <3>2, <3>3
  <2> QED BY <2>1, <2>3 DEF Served, Horizon
<1>8. ASSUME NEW i \in 1..Len(runs), Skip(i) \/ Deploy(i) \/ Fault(i)
      PROVE  /\ due' => phase' = 0
             /\ since'[landed'] < Horizon' => age'[landed'] < Horizon'
             /\ \A c \in site' + 1..landed' : since'[c] < Horizon' \/ Covered(c)'
  <2>1. Skip(i) \/ Deploy(i)
    BY <1>8 DEF Fault
  <2>2. /\ i = 1 /\ Len(runs') = Len(runs) - 1
        /\ \A j \in 1..Len(runs') : runs'[j] = runs[j + 1]
    BY <1>8, LeavesGroup
  <2>3. smooth /\ UNCHANGED <<phase, due, made, landed, age, since>>
    BY <2>1, Zenon DEF Skip, Deploy
  <2>4. /\ site' \in Nat /\ site <= site'
        /\ \A c \in site' + 1..landed : ~(runs[1].sha >= c /\ WillBuild(1))
    <3>1. CASE Skip(i)
      <4>1. ~WillBuild(1) /\ site' = site
        BY <2>2, <3>1 DEF Skip, At, WillBuild
      <4> QED BY <1>0, <4>1
    <3>2. CASE Deploy(i)
      <4>1. site' = runs[1].sha /\ 1 \in 1..Len(runs)
        BY <2>2, <3>2 DEF Deploy
      <4>2. runs[1].sha \in Nat /\ site <= runs[1].sha
        BY <1>02, <2>3, <4>1 DEF GroupInv, Ordered
      <4> QED BY <1>0, <4>1, <4>2
    <3> QED BY <2>1, <3>1, <3>2
  <2>5. ASSUME NEW c \in site' + 1..landed, Covered(c) PROVE Covered(c)'
    <3>1. PICK j \in 1..Len(runs) :
            runs[j].sha >= c /\ WillBuild(j) /\ since[c] < DAY + runs[j].spent
      BY <2>5 DEF Covered
    <3>2. j # 1
      BY <2>4, <3>1
    <3>3. j - 1 \in 1..Len(runs') /\ runs'[j - 1] = runs[j]
      <4>1. j - 1 \in 1..Len(runs') /\ (j - 1) + 1 = j
        BY <1>0, <2>2, <3>2
      <4> QED BY <2>2, <4>1
    <3>4. WillBuild(j - 1)'
      BY <2>3, <3>1, <3>3 DEF WillBuild, Young
    <3> QED BY <2>3, <3>1, <3>3, <3>4 DEF Covered
  <2>6. site' + 1..landed \subseteq site + 1..landed
    <3>1. site' \in Nat /\ site <= site' /\ site \in Nat /\ landed \in Nat
      BY <1>0, <2>4
    <3>2. \A a, b, m \in Nat : a <= b => b + 1..m \subseteq a + 1..m
      OBVIOUS
    <3> QED BY <3>1, <3>2, Zenon
  <2> QED BY <2>3, <2>5, <2>6 DEF Served, Horizon
<1>9. CASE UNCHANGED siteVars
  BY <1>9 DEF siteVars, Served, Horizon, Covered, WillBuild, Young
<1> QED BY <1>1, <1>2, <1>3, <1>5, <1>6, <1>7, <1>8, <1>9 DEF SiteNext

\* The invariant holds at first, and the bound on how far the site is behind follows.
LEMMA BoundsFollow ==
  /\ SiteInit => GroupInv /\ Dated /\ Served
  /\ GroupInv /\ Served => AtMostADayBehind
<1> USE DocsAssumption DEF DocsAssumption
<1>1. SiteInit => GroupInv
  BY DEF SiteInit, GroupInv, SiteTypeOK, Ordered, OneAtWork, Commits
<1>2. SiteInit => Dated
  BY DEF SiteInit, Dated, Commits
<1>3. SiteInit => Served
  BY DEF SiteInit, Served, Horizon, Commits
<1>4. ASSUME GroupInv, Served, smooth, NEW c \in site + 1..landed PROVE since[c] < DAY + CAP
  <2>1. /\ c \in Commits /\ since[c] \in Nat /\ Horizon <= DAY /\ Horizon \in Nat
    BY <1>4 DEF GroupInv, SiteTypeOK, Commits, Horizon
  <2>2. CASE since[c] < Horizon
    BY <2>1, <2>2
  <2>3. CASE Covered(c)
    <3>1. PICK i \in 1..Len(runs) : since[c] < DAY + runs[i].spent
      BY <2>3 DEF Covered
    <3>2. runs[i].spent \in 0..CAP
      <4>1. runs[i] \in Run
        BY <1>4 DEF GroupInv, SiteTypeOK
      <4> QED BY <4>1 DEF Run
    <3> QED BY <2>1, <3>1, <3>2
  <2> QED BY <1>4, <2>2, <2>3 DEF Served
<1> QED BY <1>1, <1>2, <1>3, <1>4 DEF AtMostADayBehind

\* Every variable of the site's workflow keeps its type, the group never holds more than
\* two runs, and no commit is deployed that has not landed.
THEOREM SiteTypeCorrect == SiteSpec => []SiteTypeOK
<1>1. GroupInv => SiteTypeOK
  BY DEF GroupInv
<1> QED BY <1>1, DocsAssumption, GroupInductive, BoundsFollow, PTL DEF SiteSpec

\* While nothing is late and nothing fails, what landed a day and a build ago is on the
\* site, for any day, time limit, and order of commits, events and manual dispatches.
THEOREM SiteDayBehind == SiteSpec => []AtMostADayBehind
<1>1. GroupInv /\ Dated /\ Served /\ [SiteNext]_siteVars => (GroupInv /\ Dated /\ Served)'
  BY DocsAssumption, GroupInductive, DatedInductive, ServedInductive
<1> QED BY <1>1, BoundsFollow, PTL DEF SiteSpec

\* No run on main takes the site back to an older commit, whatever is late, fails, waits or
\* is replaced in the group, or is put on the site by a run on a branch.
THEOREM SiteNeverTakenBack == SiteSpec => NeverOlder
<1>1. GroupInv /\ [SiteNext]_siteVars
        => [\A i \in 1..Len(runs) : Deploy(i) /\ runs[i].main => site' >= site]_siteVars
  <2> SUFFICES ASSUME GroupInv, NEW i \in 1..Len(runs), Deploy(i), runs[i].main
               PROVE  site' >= site
    BY DEF siteVars
  <2>1. site \in Nat
    BY DocsAssumption DEF GroupInv, SiteTypeOK, Commits, DocsAssumption
  <2> QED BY <2>1 DEF Deploy, GroupInv, Ordered
<1> QED BY <1>1, DocsAssumption, GroupInductive, BoundsFollow, PTL DEF SiteSpec, NeverOlder
=============================================================================
