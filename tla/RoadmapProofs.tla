----------------------------- MODULE RoadmapProofs -----------------------------
(***************************************************************************)
(* Proofs about Roadmap for any roadmap, tracker and number of moves.      *)
(*                                                                         *)
(* A pass of a run that may not skip is a pass of all the rules on what    *)
(* the two fetches returned, and what is still so since the first fetch    *)
(* was so in both of them: the rest is a consequence of the rules.         *)
(***************************************************************************)
EXTENDS Roadmap, TLAPS

\* What a green run has established.
GreenIsClean == Green => Broken(roadmap, live, open_milestones) = {}

\* What has been so since fetch_issues was so when each fetch read it.
HeldWasRead ==
  /\ phase \in {"issues", "milestones"} \/ Green =>
       \A n \in held.open : n \in live.num => live.of[n].open
  /\ phase = "issues" => held.ms \subseteq openMs
  /\ phase = "milestones" \/ Green => held.ms \subseteq open_milestones

IInv == TypeOK /\ GreenIsClean /\ HeldWasRead

-----------------------------------------------------------------------------

\* No failure means that every rule holds.
LEMMA CleanMeans ==
  ASSUME NEW r, NEW x, NEW ms, Broken(r, x, ms) = {}
  PROVE  RM01(r, x) /\ RM02(r, x) /\ RM03(r, x) /\ RM04(r, x) /\ RM06(r, x, ms) /\ RM07(r, x)
BY DEF Broken

\* A roadmap is a function into entries.
LEMMA RoadmapType ==
  ASSUME NEW r \in Roadmaps, NEW e \in DOMAIN r
  PROVE  /\ r[e] \in Entry /\ r[e].gh_issue \in Issues \cup {None}
         /\ r[e].gh_sub_issues \subseteq Issues
BY RoadmapsAssumption DEF Entry

\* What people do to the tracker leaves it a tracker.
LEMMA MovesKeepReading ==
  ASSUME TypeOK, Move
  PROVE  tracker' \in Reading /\ openMs' \subseteq Milestones
<1> USE DEF Reading
<1>0. /\ tracker = [num |-> tracker.num, of |-> tracker.of]
      /\ tracker.num \subseteq Issues /\ tracker.of \in [Issues -> Issue]
      /\ openMs \subseteq Milestones
  BY DEF TypeOK
<1>1. ASSUME NEW f \in [Issues -> Issue], Change(f)
      PROVE  tracker' \in Reading /\ openMs' \subseteq Milestones
  BY <1>0, <1>1 DEF Change
<1>2. ASSUME NEW n \in tracker.num, Toggle(n)
      PROVE  tracker' \in Reading /\ openMs' \subseteq Milestones
  <2>1. [tracker.of EXCEPT ![n].open = ~@] \in [Issues -> Issue]
    <3>1. n \in Issues /\ tracker.of[n] \in Issue
      BY <1>0
    <3>2. [tracker.of[n] EXCEPT !.open = ~@] \in Issue
      BY <3>1 DEF Issue
    <3> QED
      BY <1>0, <3>1, <3>2
  <2> QED
    BY <1>1, <1>2, <2>1 DEF Toggle
<1>3. ASSUME NEW n \in tracker.num, NEW p \in tracker.num \cup {None}, Reparent(n, p)
      PROVE  tracker' \in Reading /\ openMs' \subseteq Milestones
  <2>1. [tracker.of EXCEPT ![n].parent = p] \in [Issues -> Issue]
    BY <1>0 DEF Issue
  <2> QED
    BY <1>1, <1>3, <2>1 DEF Reparent
<1>4. ASSUME NEW n \in tracker.num, NEW m \in Milestones \cup {None}, Schedule(n, m)
      PROVE  tracker' \in Reading /\ openMs' \subseteq Milestones
  <2>1. [tracker.of EXCEPT ![n].milestone = m] \in [Issues -> Issue]
    BY <1>0 DEF Issue
  <2> QED
    BY <1>1, <1>4, <2>1 DEF Schedule
<1>5. ASSUME NEW n \in tracker.num, NEW b \in tracker.num, Block(n, b)
      PROVE  tracker' \in Reading /\ openMs' \subseteq Milestones
  <2>1. [tracker.of EXCEPT ![n].blocked_by = IF b \in @ THEN @ \ {b} ELSE @ \cup {b}]
          \in [Issues -> Issue]
    BY <1>0 DEF Issue
  <2> QED
    BY <1>1, <1>5, <2>1 DEF Block
<1>6. ASSUME NEW n \in Issues \ tracker.num, Create(n)
      PROVE  tracker' \in Reading /\ openMs' \subseteq Milestones
  BY <1>0, <1>6 DEF Create, Issue
<1>7. ASSUME NEW m \in Milestones, ToggleMilestone(m)
      PROVE  tracker' \in Reading /\ openMs' \subseteq Milestones
  BY <1>0, <1>7 DEF ToggleMilestone
<1> QED
  BY <1>2, <1>3, <1>4, <1>5, <1>6, <1>7 DEF Move

THEOREM Invariant == Spec => []IInv
<1>1. Init => IInv
  <2> SUFFICES ASSUME Init PROVE IInv
    OBVIOUS
  <2>1. TypeOK
    BY RoadmapsAssumption DEF Init, TypeOK
  <2>2. ~Green /\ phase = "start"
    BY DEF Init, Green
  <2> QED
    BY <2>1, <2>2 DEF IInv, GreenIsClean, HeldWasRead
<1>2. IInv /\ [Next]_vars => IInv'
  <2> SUFFICES ASSUME IInv, [Next]_vars PROVE IInv'
    OBVIOUS
  <2> USE DEF IInv, Green
  <2>1. CASE CannotLook
    <3>1. TypeOK'
      BY <2>1 DEF CannotLook, NotRun, TypeOK
    <3>2. ~Green' /\ phase' = "done"
      BY <2>1 DEF CannotLook, NotRun
    <3> QED
      BY <3>1, <3>2 DEF GreenIsClean, HeldWasRead
  <2>2. CASE LoadItems
    <3>1. TypeOK'
      BY <2>2 DEF LoadItems, TypeOK, Rules
    <3>2. ~Green' /\ phase' \notin {"issues", "milestones"}
      BY <2>2 DEF LoadItems
    <3> QED
      BY <3>1, <3>2 DEF GreenIsClean, HeldWasRead
  <2>3. CASE FetchIssues
    <3>1. \A n \in tracker.num : tracker.num \subseteq Issues
      BY DEF TypeOK, Reading
    <3>2. TypeOK'
      BY <2>3, <3>1 DEF FetchIssues, TypeOK
    <3>3. /\ live' = tracker /\ openMs' = openMs /\ phase' = "issues"
          /\ held'.open = {n \in tracker.num : tracker.of[n].open} /\ held'.ms = openMs
      BY <2>3 DEF FetchIssues
    <3>4. HeldWasRead' /\ GreenIsClean'
      BY <3>3 DEF HeldWasRead, GreenIsClean
    <3> QED
      BY <3>2, <3>4
  <2>4. CASE FetchOpenMilestones
    <3>1. TypeOK'
      BY <2>4 DEF FetchOpenMilestones, TypeOK
    <3>2. HeldWasRead' /\ GreenIsClean'
      BY <2>4 DEF FetchOpenMilestones, HeldWasRead, GreenIsClean
    <3> QED
      BY <3>1, <3>2
  <2>5. CASE Judge
    <3>1. /\ phase = "milestones" /\ failures' = Broken(roadmap, live, open_milestones)
          /\ exit' = IF failures' = {} THEN 0 ELSE 1
          /\ phase' = "done"
          /\ UNCHANGED <<tracker, openMs, roadmap, require, live, open_milestones, held, moves>>
      BY <2>5 DEF Judge
    <3>2. TypeOK'
      <4>1. Broken(roadmap, live, open_milestones) \subseteq Rules
        BY DEF Broken, Rules
      <4> QED
        BY <3>1, <4>1 DEF TypeOK
    <3>3. HeldWasRead'
      BY <3>1 DEF HeldWasRead
    <3>4. Broken(roadmap, live, open_milestones)' = Broken(roadmap, live, open_milestones)
      BY <3>1 DEF Broken, RM01, RM02, RM03, RM04, RM05, RM06, RM07, Gaps, Owned, Epics,
                  Leaves, Children, Referenced, OwnIssues
    <3>5. GreenIsClean'
      BY <3>1, <3>4 DEF GreenIsClean
    <3> QED
      BY <3>2, <3>3, <3>5
  <2>6. CASE Move
    <3>1. /\ UNCHANGED <<roadmap, require, phase, live, open_milestones, failures, exit>>
          /\ phase # "done" /\ moves' = moves + 1
          /\ held'.open \subseteq held.open /\ held'.ms = held.ms \cap openMs'
          /\ held' = [open |-> held'.open, ms |-> held'.ms]
      BY <2>6 DEF Move, script
    <3>2. TypeOK'
      <4>1. tracker' \in Reading /\ openMs' \subseteq Milestones
        BY <2>6, MovesKeepReading
      <4>2. held' \in [open : SUBSET Issues, ms : SUBSET Milestones]
        BY <3>1, <4>1 DEF TypeOK
      <4> QED
        BY <3>1, <4>1, <4>2 DEF TypeOK
    <3>3. HeldWasRead' /\ GreenIsClean'
      BY <3>1 DEF HeldWasRead, GreenIsClean
    <3> QED
      BY <3>2, <3>3
  <2>7. CASE UNCHANGED vars
    BY <2>7 DEF vars, script, TypeOK, GreenIsClean, HeldWasRead, Broken, RM01, RM02, RM03,
       RM04, RM05, RM06, RM07, Gaps, Owned, Epics, Leaves, Children, Referenced, OwnIssues
  <2> QED
    BY <2>1, <2>2, <2>3, <2>4, <2>5, <2>6, <2>7 DEF Next, Check
<1> QED
  BY <1>1, <1>2, PTL DEF Spec

\* Every variable of the check keeps its type.
THEOREM TypeCorrect == Spec => []TypeOK
<1>1. IInv => TypeOK
  BY DEF IInv
<1> QED
  BY <1>1, Invariant, PTL

\* The rules about parents and the rule about children leave each issue one home.
THEOREM EachHasOneHome == Spec => []OneHome
<1>1. IInv => OneHome
  <2> SUFFICES ASSUME IInv, Green PROVE OneHome
    BY DEF OneHome
  <2>1. /\ RM01(roadmap, live) /\ RM02(roadmap, live) /\ RM03(roadmap, live) /\ RM04(roadmap, live)
        /\ roadmap \in Roadmaps
    BY CleanMeans DEF IInv, GreenIsClean, TypeOK
  <2> DEFINE issue(e) == roadmap[e].gh_issue
  <2>2. ASSUME NEW e \in DOMAIN roadmap, issue(e) # None
        PROVE  issue(e) \in live.num /\ issue(e) \in Issues
    BY <2>1, <2>2, RoadmapType DEF RM01, Referenced, OwnIssues
  <2>3. ASSUME NEW q \in Epics(roadmap), NEW n \in live.num
        PROVE  n \in roadmap[q].gh_sub_issues <=> live.of[n].parent = roadmap[q].gh_issue
    BY <2>1 DEF RM02, Children
  <2>4. ASSUME NEW e \in DOMAIN roadmap, issue(e) # None, roadmap[e].kind = "deliverable"
        PROVE  live.of[issue(e)].parent = roadmap[roadmap[e].parent].gh_issue
    BY <2>1, <2>2, <2>4 DEF RM03, Leaves
  <2>5. ASSUME NEW e \in DOMAIN roadmap, issue(e) # None, roadmap[e].kind = "task"
        PROVE  live.of[issue(e)].parent = None
    BY <2>1, <2>2, <2>5 DEF RM04, Leaves
  <2>6. \A q \in Epics(roadmap) : roadmap[q].gh_issue # None
    BY DEF Epics
  <2> HIDE DEF issue
  <2>7. ASSUME NEW e \in DOMAIN roadmap, issue(e) # None
        PROVE  /\ roadmap[e].kind = "deliverable" =>
                    /\ roadmap[e].parent \in Epics(roadmap) =>
                         issue(e) \in roadmap[roadmap[e].parent].gh_sub_issues
                    /\ \A q \in Epics(roadmap) : issue(e) \in roadmap[q].gh_sub_issues =>
                         roadmap[q].gh_issue = roadmap[roadmap[e].parent].gh_issue
               /\ roadmap[e].kind = "task" =>
                    \A q \in Epics(roadmap) : issue(e) \notin roadmap[q].gh_sub_issues
    BY <2>2, <2>3, <2>4, <2>5, <2>6, <2>7
  <2> QED
    BY <2>7 DEF OneHome, issue
<1> QED
  BY <1>1, Invariant, PTL

\* A pass never leaves an unfinished entry with a closed or missing issue.
THEOREM PlanMeetsIssues == Spec => []PlanMeetsProgress
<1>1. IInv => PlanMeetsProgress
  <2> SUFFICES ASSUME IInv, Green, NEW e \in DOMAIN roadmap, roadmap[e].gh_issue # None
               PROVE  /\ roadmap[e].status = "open" =>
                           roadmap[e].gh_issue \in live.num /\ live.of[roadmap[e].gh_issue].open
                      /\ roadmap[e].status = "done" =>
                           roadmap[e].gh_issue \in live.num /\ ~live.of[roadmap[e].gh_issue].open
    BY DEF PlanMeetsProgress
  <2>1. RM01(roadmap, live) /\ RM07(roadmap, live)
    BY CleanMeans DEF IInv, GreenIsClean
  <2>2. roadmap[e].gh_issue \in live.num
    BY <2>1 DEF RM01, Referenced, OwnIssues
  <2> QED
    BY <2>1, <2>2 DEF RM07
<1> QED
  BY <1>1, Invariant, PTL

\* What stayed open between the fetches is seen by one of them.
THEOREM StayingIsSeen == Spec => []StayedIsSeen
<1>1. IInv => StayedIsSeen
  <2> SUFFICES ASSUME IInv, Green,
                      NEW n \in (live.num \ Referenced(roadmap)) \ RM06_KNOWN_GAPS,
                      live.of[n].milestone \in Owned(roadmap)
               PROVE  n \notin held.open /\ live.of[n].milestone \notin held.ms
    BY DEF StayedIsSeen
  <2>1. RM06(roadmap, live, open_milestones)
    BY CleanMeans DEF IInv, GreenIsClean
  <2>2. n \notin Gaps(roadmap, live, open_milestones)
    BY <2>1 DEF RM06
  <2>3. ~live.of[n].open /\ live.of[n].milestone \notin open_milestones
    BY <2>2 DEF Gaps
  <2> QED
    BY <2>3 DEF IInv, HeldWasRead
<1> QED
  BY <1>1, Invariant, PTL
=============================================================================
