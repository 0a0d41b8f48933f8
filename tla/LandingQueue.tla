---------------------------- MODULE LandingQueue ----------------------------
(***************************************************************************)
(* scripts/pr_queue.py ranks the open pull requests for an unattended      *)
(* landing loop.  The script keeps no state of its own: each wakeup it     *)
(* reads a snapshot of the queue from GitHub, classifies every pull        *)
(* request, sorts, and either names work or says why the loop must stop.   *)
(* What makes it hard is everything that moves around it: pushes, CI       *)
(* results, comments and merges between the snapshot and the verdict the   *)
(* loop posts.                                                             *)
(*                                                                         *)
(* The script is translated from src/scripts/pr_queue.py.  The loop that   *)
(* calls it (the `land-pr` skill), GitHub and the human who merges are not *)
(* in the repository: they are modelled from what the script reads and     *)
(* says of them.                                                           *)
(***************************************************************************)
EXTENDS Integers

CONSTANTS
  PRs,             \* pull request numbers
  Slices,          \* the units of work; a branch is a set of them
  Work,            \* Work[p]: the slices pull request p carries
  Added,           \* Added[S]: the lines a diff of the slices S adds
  File,            \* File[s]: the path slice s changes
  BootstrapFiles,  \* BOOTSTRAP_PATHS and BOOTSTRAP_PREFIXES
  Drafts,          \* the pull requests that start as drafts
  Jobs,            \* the check contexts GitHub reports on a head
  Outcomes,        \* what CI reports of an unfinished check
  Prefix(_),       \* the first seven characters of a commit id
  MaxDisturb       \* bound: disturbances (see there) in a behaviour

VARIABLES
  main,        \* the slices that have landed
  base,        \* base[p]: the slices main had when p was last rebased
  status,      \* status[p]: "open" or "merged"
  head,        \* headRefOid: the commit p's branch points at
  last,        \* the newest commit made on p's branch
  draft,       \* isDraft
  mergeable,   \* GitHub's cached answer: MERGEABLE, CONFLICTING or UNKNOWN
  checks,      \* statusCheckRollup: the conclusion of each job on the head
  comments,    \* the comments on p: is the marker there, which heads are quoted
  phase,       \* where the loop is in its iteration
  pick,        \* the pull request the iteration works on
  task,        \* the state the snapshot gave it
  checkout,    \* the commit the iteration gates and reviews
  gated,       \* (history) gated[p]: the commits an iteration has gated
  builds,      \* (history) builds[p]: how often an iteration has gated p
  disturbed    \* (bound) the disturbances so far

github == <<main, base, status, head, last, draft, mergeable, checks, comments>>
loop   == <<phase, pick, task, checkout, gated, builds>>
vars   == <<github, loop, disturbed>>

Bad       == {"FAILURE", "TIMED_OUT", "CANCELLED", "ACTION_REQUIRED"}
Ok        == {"SUCCESS", "SKIPPED", "NEUTRAL"}
Other     == {"STARTUP_FAILURE", "STALE"}
Concluded == Bad \cup Ok \cup Other
Absent    == "absent"    \* GitHub has not created the check on this head
Running   == ""          \* created, no conclusion yet

ASSUME ConstantsAssumption ==
  /\ PRs \subseteq Nat \ {0}
  /\ Work \in [PRs -> SUBSET Slices]
  /\ Added \in [SUBSET Slices -> Nat]
  /\ \A S, T \in SUBSET Slices : S \subseteq T => Added[S] <= Added[T]
  /\ Drafts \subseteq PRs
  /\ Outcomes \subseteq Concluded \cup {Running}
  /\ MaxDisturb \in Nat

NoPR  == 0
Empty == [j \in Jobs |-> Absent]

Comment == [marker : BOOLEAN, quotes : SUBSET Nat]
States  == {"READY", "GATE", "FIX", "CONFLICT", "SKIP", "DONE"}
AtWork  == {"picked", "gating", "reviewed"}

TypeOK ==
  /\ main \subseteq Slices
  /\ base \in [PRs -> SUBSET Slices]
  /\ status \in [PRs -> {"open", "merged"}]
  /\ head \in [PRs -> Nat] /\ last \in [PRs -> Nat]
  /\ draft \in [PRs -> BOOLEAN]
  /\ mergeable \in [PRs -> {"MERGEABLE", "CONFLICTING", "UNKNOWN"}]
  /\ checks \in [PRs -> [Jobs -> Concluded \cup {Absent, Running}]]
  /\ comments \in [PRs -> SUBSET Comment]
  /\ phase \in AtWork \cup {"asleep", "blocked", "drained"}
  /\ pick \in PRs \cup {NoPR}
  /\ phase \in AtWork => pick \in PRs
  /\ task \in States
  /\ checkout \in Nat
  /\ gated \in [PRs -> SUBSET Nat] /\ builds \in [PRs -> Nat]
  /\ disturbed \in Nat

-----------------------------------------------------------------------------
(* What the script makes of one snapshot.                                  *)

\* A verdict comment counts for the head it quotes, by its first seven characters.
MutMarkerOnly(p) == \E c \in comments[p] : c.marker
MutNeverLanded(p) == FALSE
MutUnlessRed(p) ==
  /\ \A j \in Jobs : checks[p][j] \notin Bad
  /\ \E c \in comments[p] :
       c.marker /\ \E h \in c.quotes : Prefix(h) = Prefix(head[p])
AlreadyLanded(p) ==
  \E c \in comments[p] :
    c.marker /\ \E h \in c.quotes : Prefix(h) = Prefix(head[p])

Unlanded(p)    == Work[p] \ main
Paths(p)       == {File[s] : s \in Unlanded(p)}
Additions(p)   == Added[Unlanded(p)]
IsBootstrap(p) == Paths(p) \cap BootstrapFiles # {}

\* The check rollup; a head with no check at all is not green.
Rollup(p) ==
  LET concls == {checks[p][j] : j \in Jobs} \ {Absent}
  IN  CASE concls = {}                           -> "none"
        [] concls \cap Bad # {}                  -> "red"
        [] concls # {} /\ concls \subseteq Ok    -> "green"
        [] OTHER                                 -> "pending"

\* A posted verdict outranks a conflict, a conflict outranks everything else.
Classify(p) ==
  IF AlreadyLanded(p) THEN "DONE"
  ELSE IF mergeable[p] = "CONFLICTING" THEN "CONFLICT"
  ELSE IF Additions(p) = 0 THEN "SKIP"
  ELSE CASE Rollup(p) = "red"                 -> "FIX"
         [] Rollup(p) = "green" /\ ~draft[p]  -> "READY"
         [] OTHER                             -> "GATE"

Order == [READY |-> 0, GATE |-> 1, FIX |-> 2, CONFLICT |-> 3, SKIP |-> 4, DONE |-> 5]

Open       == {p \in PRs : status[p] = "open"}
Waiting    == {p \in Open : Classify(p) = "DONE"}
MutWaitingToo == {p \in Open : Classify(p) # "SKIP"}
Actionable == {p \in Open : Classify(p) \notin {"DONE", "SKIP"}}

\* The sort key: bootstrap first, then state, then size, then number.
MutNoSize(p, q) ==
  LET P == Order[Classify(p)]  Q == Order[Classify(q)]
  IN  \/ IsBootstrap(p) /\ ~IsBootstrap(q)
      \/ IsBootstrap(p) = IsBootstrap(q) /\ (P < Q \/ (P = Q /\ p < q))
Before(p, q) ==
  LET P == Order[Classify(p)]  Q == Order[Classify(q)]
  IN  \/ IsBootstrap(p) /\ ~IsBootstrap(q)
      \/ /\ IsBootstrap(p) = IsBootstrap(q)
         /\ \/ P < Q
            \/ P = Q /\ Additions(p) < Additions(q)
            \/ P = Q /\ Additions(p) = Additions(q) /\ p < q

\* The printed list: every open pull request, whatever its state, in this order.
Heads(p, rows) == p \in rows /\ \A q \in rows \ {p} : Before(p, q)

\* Land top-down: p is the first row that is work.  A row that is DONE or SKIP is
\* no work wherever it stands: the script lists those apart, as waiting on a merge.
IsTop(p) == Heads(p, Actionable)

-----------------------------------------------------------------------------
(* The loop that calls the script, one iteration at a time.                *)

MutStayPicked ==
  /\ UNCHANGED phase /\ pick' = NoPR /\ task' = "SKIP" /\ checkout' = 0
Sleep ==
  /\ phase' = "asleep" /\ pick' = NoPR /\ task' = "SKIP" /\ checkout' = 0

\* A wakeup with work queued (exit code 0).
Wake ==
  /\ phase = "asleep"
  /\ \E p \in PRs :
       /\ IsTop(p)
       /\ phase' = "picked" /\ pick' = p /\ task' = Classify(p)
  /\ UNCHANGED <<github, checkout, gated, builds, disturbed>>

\* A wakeup no iteration can follow (exit code 2), for one of two reasons.
Stop ==
  /\ phase = "asleep"
  /\ Actionable = {}
  /\ phase' = IF Waiting # {} THEN "blocked" ELSE "drained"
  /\ UNCHANGED <<github, pick, task, checkout, gated, builds, disturbed>>

\* FIX and CONFLICT: the failure is the work.  The iteration pushes its fix or
\* its rebase, and gates the commit it pushed.
Rework ==
  /\ phase = "picked" /\ status[pick] = "open" /\ task \in {"FIX", "CONFLICT"}
  /\ last' = [last EXCEPT ![pick] = @ + 1]
  /\ head' = [head EXCEPT ![pick] = last[pick] + 1]
  /\ checks' = [checks EXCEPT ![pick] = Empty]
  /\ base' = [base EXCEPT ![pick] = main]
  /\ mergeable' = [mergeable EXCEPT ![pick] = "MERGEABLE"]
  /\ phase' = "gating" /\ checkout' = last[pick] + 1
  /\ UNCHANGED <<main, status, draft, comments, pick, task, gated, builds, disturbed>>

\* READY and GATE: check out the branch, which the row names without its head.
Checkout ==
  /\ phase = "picked" /\ status[pick] = "open" /\ task \in {"READY", "GATE"}
  /\ phase' = "gating" /\ checkout' = head[pick]
  /\ UNCHANGED <<github, pick, task, gated, builds, disturbed>>

\* The pull request was merged before the iteration got to it.
Abandon ==
  /\ phase = "picked" /\ status[pick] # "open"
  /\ Sleep
  /\ UNCHANGED <<github, gated, builds, disturbed>>

\* The gates and the review have run on the commit that was checked out.
Gate ==
  /\ phase = "gating"
  /\ phase' = "reviewed"
  /\ gated' = [gated EXCEPT ![pick] = @ \cup {checkout}]
  /\ builds' = [builds EXCEPT ![pick] = @ + 1]
  /\ UNCHANGED <<github, pick, task, checkout, disturbed>>

\* The verdict comment carries the marker and quotes the commit it was written against.
PostVerdict ==
  /\ phase = "reviewed"
  /\ comments' = [comments EXCEPT ![pick] =
                    @ \cup {[marker |-> TRUE, quotes |-> {checkout}]}]
  /\ Sleep
  /\ UNCHANGED <<main, base, status, head, last, draft, mergeable, checks, gated, builds,
                 disturbed>>

LoopStep == Wake \/ Stop \/ Rework \/ Checkout \/ Abandon \/ Gate \/ PostVerdict

\* The session dies in the middle of an iteration; the next wakeup starts over.
Crash ==
  /\ phase \in AtWork
  /\ Sleep
  /\ UNCHANGED <<github, gated, builds>>

\* Someone starts the stopped loop again.
Resume ==
  /\ phase \in {"blocked", "drained"}
  /\ phase' = "asleep"
  /\ UNCHANGED <<github, pick, task, checkout, gated, builds, disturbed>>

-----------------------------------------------------------------------------
(* People and GitHub.                                                      *)

\* A push (a new commit), or a force-push back to an earlier one.
Push(p, h) ==
  /\ status[p] = "open" /\ h # head[p]
  /\ head' = [head EXCEPT ![p] = h]
  /\ last' = [last EXCEPT ![p] = IF h > @ THEN h ELSE @]
  /\ checks' = [checks EXCEPT ![p] = Empty]
  /\ mergeable' = [mergeable EXCEPT ![p] = "UNKNOWN"]
  /\ UNCHANGED <<main, base, status, draft, comments, loop>>

\* A comment of a person: it may name a commit, it is not a verdict.
Discuss(p) ==
  /\ status[p] = "open"
  /\ comments' = [comments EXCEPT ![p] =
                    @ \cup {[marker |-> FALSE, quotes |-> {head[p]}]}]
  /\ UNCHANGED <<main, base, status, head, last, draft, mergeable, checks, loop>>

ToggleDraft(p) ==
  /\ status[p] = "open"
  /\ draft' = [draft EXCEPT ![p] = ~@]
  /\ UNCHANGED <<main, base, status, head, last, mergeable, checks, comments, loop>>

\* CI reports on an unfinished check: it is running, or it has concluded.
Report(p, j) ==
  /\ status[p] = "open" /\ checks[p][j] \in {Absent, Running}
  /\ \E c \in Outcomes : checks' = [checks EXCEPT ![p][j] = c]
  /\ UNCHANGED <<main, base, status, head, last, draft, mergeable, comments, loop, disturbed>>

\* Somebody runs a concluded check again.
Rerun(p, j) ==
  /\ status[p] = "open" /\ checks[p][j] \in Concluded
  /\ checks' = [checks EXCEPT ![p][j] = Running]
  /\ UNCHANGED <<main, base, status, head, last, draft, mergeable, comments, loop>>

\* A slice that landed since p was rebased changes a file p changes too.
Clashes(p) == \E s \in main \ (base[p] \cup Work[p]) : File[s] \in Paths(p)

\* GitHub computes mergeability in the background.
ComputeMergeable(p) ==
  /\ status[p] = "open" /\ mergeable[p] = "UNKNOWN"
  /\ \E m \in {"MERGEABLE", "CONFLICTING"} :
       /\ m = "CONFLICTING" => Clashes(p)
       /\ mergeable' = [mergeable EXCEPT ![p] = m]
  /\ UNCHANGED <<main, base, status, head, last, draft, checks, comments, loop, disturbed>>

\* A human merges.  Landing a base shrinks what the branches above it add, and
\* a branch that changes the same files has to be judged again.
Merge(p) ==
  /\ status[p] = "open" /\ ~draft[p]
  /\ mergeable[p] = "MERGEABLE" /\ Rollup(p) = "green"
  /\ status' = [status EXCEPT ![p] = "merged"]
  /\ main' = main \cup Work[p]
  /\ mergeable' = [q \in PRs |->
       IF /\ q # p /\ status[q] = "open"
          /\ \E s \in Unlanded(p) \ Work[q] : File[s] \in Paths(q)
       THEN "UNKNOWN" ELSE mergeable[q]]
  /\ UNCHANGED <<base, head, last, draft, checks, comments, loop, disturbed>>

\* What people do to a pull request at any time, and the loss of a session, are
\* counted: a behaviour has at most MaxDisturb of them.
Disturbance ==
  /\ disturbed < MaxDisturb
  /\ disturbed' = disturbed + 1
  /\ \/ Crash
     \/ \E p \in PRs : Discuss(p) \/ ToggleDraft(p)
     \/ \E p \in PRs : \E h \in 0..(last[p] + 1) : Push(p, h)
     \/ \E p \in PRs, j \in Jobs : Rerun(p, j)

Environment ==
  \/ Resume
  \/ \E p \in PRs : ComputeMergeable(p) \/ Merge(p)
  \/ \E p \in PRs, j \in Jobs : Report(p, j)

Init ==
  /\ main = {} /\ base = [p \in PRs |-> {}]
  /\ status = [p \in PRs |-> "open"]
  /\ head = [p \in PRs |-> 0] /\ last = [p \in PRs |-> 0]
  /\ draft = [p \in PRs |-> p \in Drafts]
  /\ mergeable = [p \in PRs |-> "MERGEABLE"]
  /\ checks = [p \in PRs |-> Empty]
  /\ comments = [p \in PRs |-> {}]
  /\ phase = "asleep" /\ pick = NoPR /\ task = "SKIP"
  /\ checkout = 0
  /\ gated = [p \in PRs |-> {}] /\ builds = [p \in PRs |-> 0]
  /\ disturbed = 0

Next == LoopStep \/ Environment \/ Disturbance

\* The loop is woken on a timer, so it always takes its next step eventually;
\* nobody owes it a merge, a CI result, a push or a restart.
Spec == Init /\ [][Next]_vars /\ WF_vars(LoopStep)

-----------------------------------------------------------------------------
(* Properties.                                                             *)

\* "A landing iteration already gated and reviewed this exact head": a pull
\* request shown as DONE has a gated commit with its head's prefix, whatever was
\* pushed, commented or crashed between the snapshot and the verdict.
DoneSound ==
  \A p \in PRs : AlreadyLanded(p) =>
    \E h \in gated[p] : Prefix(h) = Prefix(head[p])

\* "Without a marker it would re-pick the same head PR on every wakeup and re-run a
\* full build to reach the same verdict": with it the gates run once on a pull
\* request, and once more at most for each disturbance, also where a push comes
\* between the snapshot and the checkout, or during the build.
BuildsBounded == \A p \in PRs : builds[p] <= disturbed + 1

\* A verdict stays until somebody pushes: no comment, CI result, merge or crash
\* returns a DONE pull request to the queue.
VerdictStands ==
  [][\A p \in PRs :
       AlreadyLanded(p) => AlreadyLanded(p)' \/ head[p]' # head[p]]_vars

\* Smallest diff first: of two pull requests in the same state, one carrying all
\* the other does and more lines besides, the base is picked before the tip.
StackOrder ==
  [][phase = "asleep" /\ phase' = "picked" =>
       \A q \in Actionable :
         (/\ Unlanded(q) \subseteq Unlanded(pick')
          /\ Additions(q) # Additions(pick')
          /\ IsBootstrap(q) = IsBootstrap(pick'))
         => Classify(q) # Classify(pick')]_vars

\* The loop's own pushes do not feed it: without disturbances it pushes at most
\* once to a branch, and each disturbance lets it push at most once more.
WorkBounded == \A p \in PRs : last[p] <= 2 * disturbed + 1

\* The loop does not spin: it always gets to report that it is blocked or drained.
Quiesces == []<>(phase \in {"blocked", "drained"})

\* DONE "sorts last so the loop moves on": while there is work, what heads the
\* printed list is work.  False, and in no run: README, section 4.
DoneSortsLast ==
  Actionable # {} => \A p \in Open : Heads(p, Open) => p \in Actionable

\* "No iteration can make progress until some of these merge": when the loop
\* stops as blocked, one of the pull requests it waits for can be merged.
\* False, and in no run: README, section 4.
BlockedCanMove ==
  [][phase = "asleep" /\ phase' = "blocked" =>
       \E p \in Waiting : mergeable[p] # "CONFLICTING"]_vars
=============================================================================
