--------------------------------- MODULE Docs ---------------------------------
(***************************************************************************)
(* .github/workflows/docs.yml: the nightly build of the documentation site *)
(* and its manual one, on main or on another branch, one at a time in the  *)
(* group `pages`, while commits are made by the merge queue and land       *)
(* later. GitHub's clock, schedule and concurrency group are modelled from *)
(* how the workflow uses them.                                             *)
(*                                                                         *)
(* Time is in ticks. Commits are numbered in the order they land; 0 is an  *)
(* old one, which the site shows at first. Of a branch only the last       *)
(* commit of main that it has is told.                                     *)
(***************************************************************************)
EXTENDS Integers, Sequences, SequencesExt

CONSTANTS
  DAY,      \* ticks
  CAP,      \* how long a build and its deployment may take, by timeout-minutes
  LANDING,  \* how long a made commit may wait to land
  MaxCommits, MaxDispatches, MaxFaults

ASSUME DocsAssumption == DAY \in Nat /\ CAP \in Nat /\ CAP < DAY /\ MaxCommits \in Nat /\ LANDING \in Nat

Commits == 0..MaxCommits

VARIABLES
  phase,       \* ticks since 04:17
  due,         \* a scheduled event is on its way
  made, landed,  \* the last commit that was made, and that landed: the head of main
  age, since,  \* age[c]: ticks since c was made, its %ct; since[c]: since it landed
  site,        \* the last commit of main that the published site documents
  runs,        \* the group: the run in progress and the one that waits
  dispatches, faults,
  smooth       \* nothing was late, failed, or ran on a branch: see Tick, Make, Land, BranchDispatch

siteVars == <<phase, due, made, landed, age, since, site, runs, dispatches, faults, smooth>>

Run == [event : {"schedule", "workflow_dispatch"}, main : BOOLEAN, sha : Commits,
        step : {"check", "build", "deploy"}, spent : 0..CAP]

SiteTypeOK ==
  /\ phase \in 0..DAY - 1 /\ due \in BOOLEAN /\ smooth \in BOOLEAN
  /\ made \in Commits /\ landed \in 0..made /\ site \in 0..landed
  /\ age \in [Commits -> 0..DAY] /\ since \in [Commits -> 0..DAY + CAP]
  /\ runs \in Seq(Run) /\ Len(runs) <= 2

AtMost(n, m) == IF n < m THEN n ELSE m

Worked(r)   == [r EXCEPT !.spent = @ + 1]     \* a run of the group, a tick later
To(r, step) == [r EXCEPT !.step = step]

-----------------------------------------------------------------------------
(* The world: time, and commits.                                           *)

\* A job does not run past its time limit, nor a landing past its own.
Tick ==
  /\ \A i \in 1..Len(runs) : runs[i].spent < CAP
  /\ landed < made => age[made] < LANDING
  /\ phase' = IF phase + 1 = DAY THEN 0 ELSE phase + 1
  /\ due' = (due \/ phase' = 0)
  /\ age' = [c \in Commits |-> IF c <= made THEN AtMost(age[c] + 1, DAY) ELSE 0]
  /\ since' = [c \in Commits |-> IF c <= landed THEN AtMost(since[c] + 1, DAY + CAP) ELSE 0]
  /\ runs' = [i \in 1..Len(runs) |->
       IF runs[i].step = "check" THEN runs[i] ELSE Worked(runs[i])]
  /\ smooth' = (smooth /\ ~due /\ \A i \in 1..Len(runs) : runs[i].step # "check")
  /\ UNCHANGED <<made, landed, site, dispatches, faults>>

\* The merge queue makes a commit, dated now; it lands when its checks are done.
Make ==
  /\ made = landed /\ made < MaxCommits /\ made' = made + 1
  /\ smooth' = (smooth /\ phase > 0)
  /\ UNCHANGED <<phase, due, landed, age, since, site, runs, dispatches, faults>>
Land ==
  /\ landed < made /\ landed' = made
  /\ smooth' = (smooth /\ age[made] < phase)
  /\ UNCHANGED <<phase, due, made, age, since, site, runs, dispatches, faults>>

-----------------------------------------------------------------------------
(* The workflow.                                                           *)

\* A run enters the group; one that waited is replaced, none is cancelled.
MutEnters(event, main, sha) ==
  runs' = Append(runs, [event |-> event, main |-> main, sha |-> sha, step |-> "check", spent |-> 0])
Enters(event, main, sha) ==
  runs' = Append(IF Len(runs) = 2 THEN Front(runs) ELSE runs,
                 [event |-> event, main |-> main, sha |-> sha, step |-> "check", spent |-> 0])

\* A schedule runs on main's head; someone may run the workflow there, or on a branch.
Schedule ==
  /\ due /\ due' = FALSE /\ Enters("schedule", TRUE, landed)
  /\ UNCHANGED <<phase, made, landed, age, since, site, dispatches, faults, smooth>>
SiteDispatch ==
  /\ dispatches < MaxDispatches /\ dispatches' = dispatches + 1
  /\ Enters("workflow_dispatch", TRUE, landed)
  /\ UNCHANGED <<phase, due, made, landed, age, since, site, faults, smooth>>
BranchDispatch(c) ==
  /\ dispatches < MaxDispatches /\ dispatches' = dispatches + 1 /\ smooth' = FALSE
  /\ Enters("workflow_dispatch", FALSE, c)
  /\ UNCHANGED <<phase, due, made, landed, age, since, site, faults>>

\* cancel-in-progress: false. The one that waits takes its turn after the other.
MutTurn(i) == TRUE
Turn(i)    == i = 1

\* The job check: a scheduled run builds only what is younger than a day.
MutYoung(c) == age[c] < DAY - 1
Young(c)    == age[c] < DAY
At(i, step) == Turn(i) /\ runs[i].step = step

Proceed(i) ==
  /\ At(i, "check") /\ (runs[i].event = "schedule" => Young(runs[i].sha))
  /\ runs' = [runs EXCEPT ![i] = To(@, "build")]
  /\ UNCHANGED <<phase, due, made, landed, age, since, site, dispatches, faults, smooth>>

\* "No commits in the last 24h -- the published docs are current."
Skip(i) ==
  /\ At(i, "check") /\ runs[i].event = "schedule" /\ ~Young(runs[i].sha)
  /\ runs' = RemoveAt(runs, i)
  /\ UNCHANGED <<phase, due, made, landed, age, since, site, dispatches, faults, smooth>>

Build(i) ==
  /\ At(i, "build")
  /\ runs' = [runs EXCEPT ![i] = To(@, "deploy")]
  /\ UNCHANGED <<phase, due, made, landed, age, since, site, dispatches, faults, smooth>>
Deploy(i) ==
  /\ At(i, "deploy")
  /\ site' = runs[i].sha /\ runs' = RemoveAt(runs, i)
  /\ UNCHANGED <<phase, due, made, landed, age, since, dispatches, faults, smooth>>

\* A job fails, or its time limit passes; nothing tries it again.
Fault(i) ==
  /\ faults < MaxFaults /\ faults' = faults + 1 /\ smooth' = FALSE
  /\ Turn(i) /\ runs' = RemoveAt(runs, i)
  /\ UNCHANGED <<phase, due, made, landed, age, since, site, dispatches>>

SiteInit ==
  /\ phase = 0 /\ due = FALSE /\ made = 0 /\ landed = 0 /\ site = 0
  /\ age = [c \in Commits |-> IF c = 0 THEN DAY ELSE 0]
  /\ since = [c \in Commits |-> IF c = 0 THEN DAY + CAP ELSE 0]
  /\ runs = <<>> /\ dispatches = 0 /\ faults = 0 /\ smooth = TRUE

SiteNext ==
  \/ Tick \/ Make \/ Land \/ Schedule \/ SiteDispatch \/ \E c \in 0..landed : BranchDispatch(c)
  \/ \E i \in 1..Len(runs) : Proceed(i) \/ Skip(i) \/ Build(i) \/ Deploy(i) \/ Fault(i)

SiteSpec == SiteInit /\ [][SiteNext]_siteVars

-----------------------------------------------------------------------------
(* Properties.                                                             *)

\* However runs, landings and failures interleave, and whatever a run on a branch has
\* put on the site in between, no run on main takes the site back to an older commit.
NeverOlder == [][\A i \in 1..Len(runs) : Deploy(i) /\ runs[i].main => site' >= site]_siteVars

\* "Docs are at most a day behind main" -- a day and a build, if no event and no check is
\* late, no job fails, each commit is made and lands between two schedules, and nobody
\* runs the workflow on a branch.
AtMostADayBehind == smooth => \A c \in site + 1..landed : since[c] < DAY + CAP

\* Two that are false of the workflow. A manual run on a branch takes the site back:
NeverBack == [][site' >= site]_siteVars
\* and a skipped run may say that the published docs are current when they are not: main's
\* head may have been in the queue at the schedule before, or its run have failed.
NoticeIsTrue == [][\A i \in 1..Len(runs) : Skip(i) => site = runs[i].sha]_siteVars
=============================================================================
