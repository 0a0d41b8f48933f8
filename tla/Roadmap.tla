-------------------------------- MODULE Roadmap --------------------------------
(***************************************************************************)
(* scripts/check_roadmap.py: the roadmap's entries against the GitHub      *)
(* issues they name.  The check reads the issues with one call and the     *)
(* open milestones with a second, and judges both as if they were of one   *)
(* moment, while people close, reopen and move what it reads.              *)
(*                                                                         *)
(* Each rule of the script is an operator on a roadmap r and a reading x   *)
(* of the tracker.  The tracker is external: what GitHub lets people do.   *)
(***************************************************************************)
EXTENDS Integers, FiniteSets

CONSTANTS
  Entries,          \* the ids of roadmap entries
  Issues,           \* issue numbers
  Milestones,       \* milestone numbers
  Roadmaps,         \* the contents of .claude/roadmap/*.yaml
  RM06_KNOWN_GAPS,  \* gaps recorded in the script
  Trackers,         \* what the tracker may hold when the check starts
  None,             \* a field that is absent
  MaxMoves          \* bound: the moves people make during a check

LEAF_KINDS == {"deliverable", "task"}

\* status: "done" for RM07_DONE_STATUSES, "open" for RM07_OPEN_STATUSES.
Entry == [kind : LEAF_KINDS \cup {"epic", "milestone"},
          gh_issue : Issues \cup {None}, gh_sub_issues : SUBSET Issues,
          parent : Entries \cup {None}, gh_milestone : Milestones \cup {None},
          blocked_by : SUBSET Issues, status : {"done", "open", "unjudged"}]

Issue == [open : BOOLEAN, parent : Issues \cup {None},
          milestone : Milestones \cup {None}, blocked_by : SUBSET Issues]

\* What `gh issue list` answers: the numbers there are, and the issue of each.
Reading == [num : SUBSET Issues, of : [Issues -> Issue]]

ASSUME RoadmapsAssumption ==
  /\ None \notin Issues /\ None \notin Milestones
  /\ \A r \in Roadmaps : DOMAIN r \subseteq Entries /\ r \in [DOMAIN r -> Entry]
  /\ Trackers \subseteq Reading
  /\ RM06_KNOWN_GAPS \subseteq Issues
  /\ MaxMoves \in Nat

VARIABLES
  tracker,    \* the issues as they are now
  openMs,     \* the milestones that are open now
  roadmap,    \* the entries of the tree being checked
  require,    \* --require-api
  phase,      \* start, loaded, issues, milestones, done
  live,       \* what fetch_issues returned
  open_milestones,  \* what fetch_open_milestones returned
  failures,   \* the rules found broken
  exit,       \* the exit code
  held,       \* (history) what has been so at every moment since fetch_issues
  moves       \* (bound) the moves so far

script == <<roadmap, require, phase, live, open_milestones, failures, exit>>
vars   == <<tracker, openMs, script, held, moves>>

Rules == {"RM-00", "RM-01", "RM-02", "RM-03", "RM-04", "RM-05", "RM-06", "RM-07"}

TypeOK ==
  /\ tracker \in Reading /\ openMs \subseteq Milestones
  /\ roadmap \in Roadmaps /\ require \in BOOLEAN
  /\ phase \in {"start", "loaded", "issues", "milestones", "done"}
  /\ live \in Reading /\ open_milestones \subseteq Milestones
  /\ failures \subseteq Rules /\ exit \in {0, 1}
  /\ held \in [open : SUBSET Issues, ms : SUBSET Milestones]
  /\ moves \in Nat

-----------------------------------------------------------------------------
(* The rules.                                                              *)

OwnIssues(r)  == {r[e].gh_issue : e \in DOMAIN r} \ {None}
Referenced(r) == OwnIssues(r) \cup UNION {r[e].gh_sub_issues : e \in DOMAIN r}
Owned(r)      == {r[e].gh_milestone : e \in {i \in DOMAIN r : r[i].kind = "milestone"}} \ {None}
Epics(r)      == {e \in DOMAIN r : r[e].kind = "epic" /\ r[e].gh_issue # None}

\* Every issue the roadmap references exists.
MutSubsOnly(r, x) == UNION {r[e].gh_sub_issues : e \in DOMAIN r} \subseteq x.num
RM01(r, x) == Referenced(r) \subseteq x.num

\* An epic's sub-issues are its GitHub children, both ways.
Children(x, p) == {n \in x.num : x.of[n].parent = p}
RM02(r, x) == \A e \in Epics(r) : r[e].gh_sub_issues = Children(x, r[e].gh_issue)

\* A deliverable's GitHub parent is its entry's parent's issue, or none if that has none.
Leaves(r, x, kind) == {e \in DOMAIN r : r[e].kind = kind /\ r[e].gh_issue \in x.num}
MutOrphansPass(r, x) ==
  \A e \in Leaves(r, x, "deliverable") :
    r[e].parent \in DOMAIN r =>
      x.of[r[e].gh_issue].parent \in {None, r[r[e].parent].gh_issue}
RM03(r, x) ==
  \A e \in Leaves(r, x, "deliverable") :
    /\ r[e].parent \in DOMAIN r
    /\ x.of[r[e].gh_issue].parent = r[r[e].parent].gh_issue

\* A task has no GitHub parent, and its entry's parent's milestone.
RM04(r, x) ==
  \A e \in Leaves(r, x, "task") :
    /\ r[e].parent \in DOMAIN r
    /\ x.of[r[e].gh_issue].parent = None
    /\ x.of[r[e].gh_issue].milestone = r[r[e].parent].gh_milestone

\* The blockers of open issues are mirrored.
RM05(r, x) ==
  \A e \in DOMAIN r : r[e].gh_issue \in x.num /\ x.of[r[e].gh_issue].open =>
    r[e].blocked_by = x.of[r[e].gh_issue].blocked_by

\* The live issues on an owned milestone that nothing references are the known gaps,
\* no more and no fewer.
Gaps(r, x, ms) ==
  {n \in x.num \ Referenced(r) :
     /\ x.of[n].milestone \in Owned(r)
     /\ x.of[n].open \/ x.of[n].milestone \in ms}
MutOpenOnly(r, x, ms) ==
  {n \in x.num \ Referenced(r) : x.of[n].milestone \in Owned(r) /\ x.of[n].open}
  = RM06_KNOWN_GAPS
RM06(r, x, ms) == Gaps(r, x, ms) = RM06_KNOWN_GAPS

\* A finished entry's issue is closed, an unfinished entry's is open.
RM07(r, x) ==
  \A e \in DOMAIN r : r[e].gh_issue \in x.num /\ r[e].status # "unjudged" =>
    (x.of[r[e].gh_issue].open <=> r[e].status = "open")

Broken(r, x, ms) ==
  (IF RM01(r, x) THEN {} ELSE {"RM-01"}) \cup (IF RM02(r, x) THEN {} ELSE {"RM-02"})
  \cup (IF RM03(r, x) THEN {} ELSE {"RM-03"}) \cup (IF RM04(r, x) THEN {} ELSE {"RM-04"})
  \cup (IF RM05(r, x) THEN {} ELSE {"RM-05"}) \cup (IF RM06(r, x, ms) THEN {} ELSE {"RM-06"})
  \cup (IF RM07(r, x) THEN {} ELSE {"RM-07"})

-----------------------------------------------------------------------------
(* The check.                                                              *)

\* NOT_RUN is not a pass: no PyYAML, no gh, no auth.
MutNotRunPasses == exit' = 0
NotRun == exit' = IF require THEN 1 ELSE 0

CannotLook ==
  /\ phase \in {"start", "loaded", "issues"} /\ phase' = "done"
  /\ NotRun
  /\ UNCHANGED <<tracker, openMs, roadmap, require, live, open_milestones, failures, held, moves>>

LoadItems ==
  /\ phase = "start"
  /\ IF DOMAIN roadmap = {}
     THEN phase' = "done" /\ failures' = {"RM-00"} /\ exit' = 1
     ELSE phase' = "loaded" /\ UNCHANGED <<failures, exit>>
  /\ UNCHANGED <<tracker, openMs, roadmap, require, live, open_milestones, held, moves>>

FetchIssues ==
  /\ phase = "loaded" /\ phase' = "issues"
  /\ live' = tracker
  /\ held' = [open |-> {n \in tracker.num : tracker.of[n].open}, ms |-> openMs]
  /\ UNCHANGED <<tracker, openMs, roadmap, require, open_milestones, failures, exit, moves>>

FetchOpenMilestones ==
  /\ phase = "issues" /\ phase' = "milestones"
  /\ open_milestones' = openMs
  /\ UNCHANGED <<tracker, openMs, roadmap, require, live, failures, exit, held, moves>>

Judge ==
  /\ phase = "milestones" /\ phase' = "done"
  /\ failures' = Broken(roadmap, live, open_milestones)
  /\ exit' = IF failures' = {} THEN 0 ELSE 1
  /\ UNCHANGED <<tracker, openMs, roadmap, require, live, open_milestones, held, moves>>

-----------------------------------------------------------------------------
(* The tracker moves.                                                      *)

Change(issue) == tracker' = [tracker EXCEPT !.of = issue] /\ UNCHANGED openMs

Toggle(n)       == Change([tracker.of EXCEPT ![n].open = ~@])
Reparent(n, p)  == p # n /\ Change([tracker.of EXCEPT ![n].parent = p])
Schedule(n, m)  == Change([tracker.of EXCEPT ![n].milestone = m])
Block(n, b)     == b # n /\ Change([tracker.of EXCEPT ![n].blocked_by =
                     IF b \in @ THEN @ \ {b} ELSE @ \cup {b}])
ToggleMilestone(m) ==
  /\ openMs' = IF m \in openMs THEN openMs \ {m} ELSE openMs \cup {m}
  /\ UNCHANGED tracker
Create(n) ==
  /\ tracker' = [num |-> tracker.num \cup {n}, of |-> [tracker.of EXCEPT ![n] =
                   [open |-> TRUE, parent |-> None, milestone |-> None, blocked_by |-> {}]]]
  /\ UNCHANGED openMs

Move ==
  /\ phase # "done" /\ moves < MaxMoves /\ moves' = moves + 1
  /\ \/ \E n \in tracker.num :
          \/ Toggle(n)
          \/ \E p \in tracker.num \cup {None} : Reparent(n, p)
          \/ \E m \in Milestones \cup {None} : Schedule(n, m)
          \/ \E b \in tracker.num : Block(n, b)
     \/ \E n \in Issues \ tracker.num : Create(n)
     \/ \E m \in Milestones : ToggleMilestone(m)
  /\ held' = [open |-> held.open \cap {n \in tracker'.num : tracker'.of[n].open},
              ms   |-> held.ms \cap openMs']
  /\ UNCHANGED script

Init ==
  /\ roadmap \in Roadmaps /\ require \in BOOLEAN
  /\ tracker \in Trackers
  /\ openMs \in SUBSET Milestones
  /\ phase = "start" /\ live = tracker /\ open_milestones = {}
  /\ failures = {} /\ exit = 0
  /\ held = [open |-> {}, ms |-> {}]
  /\ moves = 0

Check == CannotLook \/ LoadItems \/ FetchIssues \/ FetchOpenMilestones \/ Judge
Next  == Check \/ Move

Spec == Init /\ [][Next]_vars

-----------------------------------------------------------------------------
(* Properties.                                                             *)

\* What CI takes for a pass: it always asks for --require-api.
Green == phase = "done" /\ exit = 0 /\ require

\* Two rules that mend each other's gaps: after a pass an issue has one home.  A
\* deliverable's issue is listed by the epic its entry names and by no epic with
\* another issue; a task's issue is listed by none.
OneHome ==
  Green => \A e \in DOMAIN roadmap :
    LET n == roadmap[e].gh_issue  p == roadmap[e].parent
    IN  n # None =>
          /\ roadmap[e].kind = "deliverable" =>
               /\ p \in Epics(roadmap) => n \in roadmap[p].gh_sub_issues
               /\ \A q \in Epics(roadmap) : n \in roadmap[q].gh_sub_issues =>
                    roadmap[q].gh_issue = roadmap[p].gh_issue
          /\ roadmap[e].kind = "task" =>
               \A q \in Epics(roadmap) : n \notin roadmap[q].gh_sub_issues

\* The rule behind #192 and #554: after a pass every unfinished entry that names an
\* issue had an issue, open, when the check looked, and no finished entry's was open.
PlanMeetsProgress ==
  Green => \A e \in DOMAIN roadmap :
    LET n == roadmap[e].gh_issue
    IN  n # None =>
          /\ roadmap[e].status = "open" => n \in live.num /\ live.of[n].open
          /\ roadmap[e].status = "done" => n \in live.num /\ ~live.of[n].open

\* Nothing that stayed put is lost between the two fetches: after a pass, an issue that
\* was on an owned milestone and that no entry references was not open all along, nor
\* was its milestone.
StayedIsSeen ==
  Green => \A n \in (live.num \ Referenced(roadmap)) \ RM06_KNOWN_GAPS :
    live.of[n].milestone \in Owned(roadmap) =>
      n \notin held.open /\ live.of[n].milestone \notin held.ms
=============================================================================
