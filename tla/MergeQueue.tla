------------------------------ MODULE MergeQueue ------------------------------
(***************************************************************************)
(* How a change gets on main: .github/workflows/ci.yml on the events that  *)
(* start it, its concurrency groups, its job `build` with the ratchet of   *)
(* scripts/check_nolints.py, and its job `ci`, the one required check; and *)
(* around it GitHub's merge queue, which builds main plus the queued pull  *)
(* requests and moves main to what it built.                               *)
(*                                                                         *)
(* A change <<p, n>> is the n-th head of pull request p. A run belongs to  *)
(* a lane (an event) and a pull request; only its lane's newest is kept,   *)
(* since nothing reads an older one. The runs on a push to main, and on    *)
(* request, are left out: they judge what has landed and hold nothing up.  *)
(* A branch leaves main or stands on another pull request's: pr_queue.py   *)
(* calls the queue a stack, where "each slice contains all of its          *)
(* predecessors".                                                          *)
(***************************************************************************)
EXTENDS Integers, Sequences, FiniteSets

CONSTANTS
  PRs,
  Agent,      \* the pull requests from a branch agent/**
  Entries, Linters,
  LinterOf,   \* LinterOf[e]: the linter whose finding the entry e of the list excuses
  CEILING, PER_LINTER_CEILING,
  InitList,   \* the list on main at first
  Diffs,      \* what a branch's own slice may do to the list: [adds, dels]
  Green,      \* the sets of changes that the other gates accept together
  MaxHead,    \* MaxHead[p]: how often p may be pushed
  MaxFaults

Changes == UNION {{p} \X (1..MaxHead[p]) : p \in PRs}
Trees   == [on : SUBSET Changes, list : SUBSET Entries]
Commits == [by : Changes \cup {"main"}, list : SUBSET Entries]
NoTree  == [on |-> {}, list |-> Entries]    \* no group was built

ASSUME QueueAssumption ==
  /\ Agent \subseteq PRs
  /\ LinterOf \in [Entries -> Linters]
  /\ CEILING \in Nat /\ DOMAIN PER_LINTER_CEILING \subseteq Linters
  /\ PER_LINTER_CEILING \in [DOMAIN PER_LINTER_CEILING -> Nat]
  /\ InitList \subseteq Entries
  /\ Diffs \subseteq [adds : SUBSET Entries, dels : SUBSET Entries]
  /\ Green \subseteq SUBSET Changes
  /\ MaxHead \in [PRs -> Nat] /\ MaxFaults \in Nat

Lanes == {"push", "pull_request", "merge_group"}
Refs  == Lanes \X PRs
PR(ref) == ref[2]

\* A run: base is the list of the origin/main it checked out, fault that something
\* outside the repository ended it.
Runs == [state : {"none", "queued", "building", "built", "done"},
         tree : Trees, base : SUBSET Entries,
         build : {"", "success", "failure", "cancelled"},
         ci : {"", "success", "failure", "cancelled"}, fault : BOOLEAN]
NoRun == [state |-> "none", tree |-> NoTree, base |-> {}, build |-> "", ci |-> "",
          fault |-> FALSE]

VARIABLES
  main,    \* the tree of main
  head,    \* head[p]: how often p was pushed; 0 is a pull request not yet opened
  branch,  \* branch[p]: the commit of main it left, the heads it stands on, its own
  due,     \* the events not yet delivered
  run,     \* run[ref]: the newest run of the lane
  queue,   \* the merge queue
  group,   \* group[p]: the tree of the queue's branch for p, or NoTree
  faults   \* how many runs something outside has ended

vars == <<main, head, branch, due, run, queue, group, faults>>

TypeOK ==
  /\ main \in Trees
  /\ head \in [PRs -> Nat] /\ \A p \in PRs : head[p] <= MaxHead[p]
  /\ branch \in [PRs -> Seq(Commits)]
  /\ due \subseteq Refs
  /\ run \in [Refs -> Runs]
  /\ queue \in Seq(PRs)
  /\ group \in [PRs -> Trees]
  /\ faults \in 0..MaxFaults

Queued(p) == \E i \in 1..Len(queue) : queue[i] = p
Landed(p) == <<p, head[p]>> \in main.on
Tip(b)    == b[Len(b)].list

\* The list at the last commit of branch b that a tree with these changes has.
Base(on, b) == UNION {b[i].list : i \in {i \in 1..Len(b) :
                 (i = 1 \/ b[i].by \in on) /\ \A j \in i + 1..Len(b) : b[j].by \notin on}}

\* git merges branch b into a tree: what the branch does to the list since that commit.
Merge(t, b) ==
  LET base == Base(t.on, b)
  IN  [on   |-> t.on \cup {b[i].by : i \in 2..Len(b)},
       list |-> (t.list \ (base \ Tip(b))) \cup (Tip(b) \ base)]

-----------------------------------------------------------------------------
(* The workflow.                                                           *)

\* on: push to agent/**, pull_request, merge_group.
MutOn(ref) == ref[1] = "pull_request" \/ (ref[1] = "push" /\ PR(ref) \in Agent)
On(ref)    == ref[1] = "push" => PR(ref) \in Agent

\* concurrency: the event's ref, which is the branch, the pull request's merge ref or
\* the queue's branch: no two lanes share a group.
MutGroup(ref) == IF ref[1] = "merge_group" THEN ref ELSE <<"head", PR(ref)>>
Group(ref)    == ref

InProgress(r) == r.state \in {"queued", "building", "built"}

\* A job that was in progress is cancelled; the job `ci` runs all the same.
Cancelled(r) == IF r.state = "built" THEN [r EXCEPT !.state = "done", !.ci = "cancelled"]
                                     ELSE [r EXCEPT !.state = "built", !.build = "cancelled"]

\* What is checked out: the head itself, what GitHub would merge, or the queue's branch.
TreeOf(ref) == IF ref[1] = "merge_group" THEN group[PR(ref)]
                                         ELSE Merge(main, branch[PR(ref)])

\* An event starts a run; cancel-in-progress ends the others of its group.
Fire(ref) ==
  /\ ref \in due /\ due' = due \ {ref}
  /\ run' = [r \in Refs |->
       IF r = ref THEN [NoRun EXCEPT !.state = "queued", !.tree = TreeOf(ref)]
       ELSE IF Group(r) = Group(ref) /\ InProgress(run[r]) THEN Cancelled(run[r])
       ELSE run[r]]
  /\ UNCHANGED <<main, head, branch, queue, group, faults>>

\* actions/checkout with fetch-depth 0: origin/main is there, and what main is now.
Start(ref) ==
  /\ run[ref].state = "queued"
  /\ run' = [run EXCEPT ![ref].state = "building", ![ref].base = main.list]
  /\ UNCHANGED <<main, head, branch, due, queue, group, faults>>

\* check_nolints.py: the two ceilings, and no entry that origin/main has not.
CountsHold(list) ==
  /\ Cardinality(list) <= CEILING
  /\ \A l \in Linters :
       Cardinality({e \in list : LinterOf[e] = l})
         <= (IF l \in DOMAIN PER_LINTER_CEILING THEN PER_LINTER_CEILING[l] ELSE 0)
MutCountsOnly(list, baseline) == CountsHold(list)
NolintsHold(list, baseline) == CountsHold(list) /\ list \subseteq baseline

Passes(r) == r.tree.on \in Green /\ NolintsHold(r.tree.list, r.base)

\* The job `build` ends.
Conclude(ref) ==
  /\ run[ref].state = "building"
  /\ run' = [run EXCEPT ![ref].state = "built",
                        ![ref].build = IF Passes(run[ref]) THEN "success" ELSE "failure"]
  /\ UNCHANGED <<main, head, branch, due, queue, group, faults>>

\* A runner dies, the time limit passes, somebody cancels: `build` has no verdict.
Fault(ref) ==
  /\ faults < MaxFaults /\ faults' = faults + 1
  /\ run[ref].state \in {"queued", "building"}
  /\ \E result \in {"failure", "cancelled"} :
       run' = [run EXCEPT ![ref].state = "built", ![ref].build = result, ![ref].fault = TRUE]
  /\ UNCHANGED <<main, head, branch, due, queue, group>>

\* The job `ci`, which runs always: every result must be exactly `success`.
MutEveryResult(result) == result # "failure"
EveryResult(result)    == result = "success"
Aggregate(ref) ==
  /\ run[ref].state = "built"
  /\ run' = [run EXCEPT ![ref].state = "done",
       ![ref].ci = IF EveryResult(run[ref].build) THEN "success" ELSE "failure"]
  /\ UNCHANGED <<main, head, branch, due, queue, group, faults>>

-----------------------------------------------------------------------------
(* GitHub and people.                                                      *)

\* The required check is green on the pull request's head.
HeadRun(p) == run[<<"pull_request", p>>]
OfHead(p)  == head[p] > 0 /\ <<p, head[p]>> \in HeadRun(p).tree.on
                 /\ <<"pull_request", p>> \notin due
HeadGreen(p) == OfHead(p) /\ HeadRun(p).state = "done" /\ HeadRun(p).ci = "success"

\* The queue without the pull request at position k. What was built on top of it is
\* given up, and no run on it is read any more.
Without(k) == [i \in 1..(Len(queue) - 1) |-> IF i < k THEN queue[i] ELSE queue[i + 1]]
Behind(k)  == {queue[i] : i \in k..Len(queue)}
Drop(k) ==
  /\ queue' = Without(k)
  /\ group' = [p \in PRs |-> IF p \in Behind(k) THEN NoTree ELSE group[p]]

DropRuns(k) == [r \in Refs |-> IF r[1] = "merge_group" /\ PR(r) \in Behind(k)
                                 THEN NoRun ELSE run[r]]
DropDue(k)  == {r \in due : ~(r[1] = "merge_group" /\ PR(r) \in Behind(k))}

\* What a head may stand on: main as it is now, where p's branch left it before, or
\* another pull request's head.
Stems(p) ==
  {<<[by |-> "main", list |-> main.list]>>}
    \cup {SubSeq(branch[q], 1, Len(branch[q]) - 1) : q \in {q \in {p} : head[q] > 0}}
    \cup {branch[q] : q \in {q \in PRs \ {p} : head[q] > 0}}

\* A push opens or updates a pull request, and takes it out of the queue.
Pushed(p) == {r \in Refs : PR(r) = p /\ r[1] # "merge_group" /\ On(r)}
Push(p) ==
  /\ ~Landed(p) /\ head[p] < MaxHead[p]
  /\ head' = [head EXCEPT ![p] = @ + 1]
  /\ \E stem \in Stems(p), d \in Diffs :
       /\ d.adds \cap Tip(stem) = {} /\ d.dels \subseteq Tip(stem)
       /\ branch' = [branch EXCEPT ![p] = Append(stem,
            [by |-> <<p, head[p] + 1>>, list |-> (Tip(stem) \ d.dels) \cup d.adds])]
  /\ \/ ~Queued(p) /\ due' = due \cup Pushed(p) /\ UNCHANGED <<run, queue, group>>
     \/ \E k \in 1..Len(queue) :
          queue[k] = p /\ Drop(k) /\ run' = DropRuns(k) /\ due' = DropDue(k) \cup Pushed(p)
  /\ UNCHANGED <<main, faults>>

\* A maintainer puts a green pull request in the queue.
Enqueue(p) ==
  /\ HeadGreen(p) /\ ~Queued(p) /\ ~Landed(p)
  /\ queue' = Append(queue, p)
  /\ UNCHANGED <<main, head, branch, due, run, group, faults>>

\* GitHub builds the next branch of the queue, on main or on the branch before it.
Build(k) ==
  /\ k \in 1..Len(queue) /\ group[queue[k]] = NoTree
  /\ k > 1 => group[queue[k - 1]] # NoTree
  /\ group' = [group EXCEPT ![queue[k]] =
                 Merge(IF k = 1 THEN main ELSE group[queue[k - 1]], branch[queue[k]])]
  /\ due' = due \cup {r \in {<<"merge_group", queue[k]>>} : On(r)}
  /\ UNCHANGED <<main, head, branch, run, queue, faults>>

QueueRun(k) == run[<<"merge_group", queue[k]>>]

\* The first of the queue is green: main moves to what was built.
Land ==
  /\ queue # <<>> /\ QueueRun(1).state = "done" /\ QueueRun(1).ci = "success"
  /\ main' = group[queue[1]]
  /\ queue' = Tail(queue)
  /\ group' = [group EXCEPT ![queue[1]] = NoTree]
  /\ run' = [run EXCEPT ![<<"merge_group", queue[1]>>] = NoRun]
  /\ UNCHANGED <<head, branch, due, faults>>

\* One that is not leaves the queue, and those behind it are built again.
Eject(k) ==
  /\ k \in 1..Len(queue) /\ QueueRun(k).state = "done" /\ QueueRun(k).ci # "success"
  /\ Drop(k) /\ run' = DropRuns(k) /\ due' = DropDue(k)
  /\ UNCHANGED <<main, head, branch, faults>>

-----------------------------------------------------------------------------
Init ==
  /\ main = [on |-> {}, list |-> InitList]
  /\ head = [p \in PRs |-> 0] /\ branch = [p \in PRs |-> <<>>]
  /\ due = {} /\ run = [r \in Refs |-> NoRun]
  /\ queue = <<>> /\ group = [p \in PRs |-> NoTree] /\ faults = 0

Job(ref)  == Start(ref) \/ Conclude(ref) \/ Aggregate(ref)

Next ==
  \/ \E ref \in Refs : Fire(ref) \/ Job(ref) \/ Fault(ref)
  \/ \E p \in PRs : Push(p) \/ Enqueue(p)
  \/ Land \/ \E k \in 1..Len(queue) : Build(k) \/ Eject(k)

\* GitHub delivers events and runs jobs to their end; it works on the first of its queue.
Fairness ==
  /\ \A ref \in Refs : WF_vars(Fire(ref)) /\ WF_vars(Job(ref))
  /\ WF_vars(Land \/ Build(1) \/ Eject(1))

Spec == Init /\ [][Next]_vars /\ Fairness

-----------------------------------------------------------------------------
(* Properties.                                                             *)

\* Only trees that all gates accept as a whole land, however the queue speculates,
\* jobs die and branches go stale; and none puts on the list what was never on main's.
Promise == INSTANCE Landing WITH First <- {[on |-> {}, list |-> InitList]}
OnlyJudgedLands == Promise!Spec

\* No entry gets on main's list that was not there at first, not by a swap that keeps every
\* count either, whatever stands on what.
NothingNew == main.list \subseteq InitList

\* "The list may shrink, never grow." False: a branch that stands on one that retires an
\* entry and puts it back is compared with a main that has the entry still.
ListNeverGrows == [][main'.list \subseteq main.list]_vars

\* Nothing stays in the queue for ever: it lands, is ejected or is pushed to.
QueueMoves == \A p \in PRs : Queued(p) ~> ~Queued(p)

\* Once the pushes stop, the required check of each head says what the gates say of it,
\* unless something outside ended its run: no other lane's run cancels it.
Judged(p) == /\ OfHead(p) /\ HeadRun(p).state = "done"
             /\ HeadRun(p).fault \/ (HeadRun(p).ci = "success" <=> Passes(HeadRun(p)))
HeadIsJudged == \A p \in PRs : <>[](head[p] = 0 \/ Judged(p))
=============================================================================
