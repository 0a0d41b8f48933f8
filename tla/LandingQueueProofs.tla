------------------------- MODULE LandingQueueProofs -------------------------
(* What TLAPS proves of LandingQueue, for any set of pull requests, any work  *)
(* on them, any number of disturbances and any way commit prefixes collide.   *)
EXTENDS LandingQueue, TLAPS

\* A comment with the marker quotes commits an iteration has gated.
VerdictsGated ==
  \A p \in PRs : \A c \in comments[p] : c.marker => c.quotes \subseteq gated[p]

\* What is about to be posted has been gated.
ReviewedGated == phase = "reviewed" => checkout \in gated[pick]

IInv == TypeOK /\ VerdictsGated /\ ReviewedGated

-----------------------------------------------------------------------------
\* A verdict that counts stays on the pull request: comments are only added.
LEMMA LandedMonotone ==
  ASSUME NEW p \in PRs, head'[p] = head[p], comments[p] \subseteq comments'[p],
         AlreadyLanded(p)
  PROVE  AlreadyLanded(p)'
  BY DEF AlreadyLanded

\* classify() never returns a name the sort does not know.
LEMMA ClassifyType == ASSUME NEW p \in PRs PROVE Classify(p) \in States
  BY DEF Classify, States

\* The type invariant and its two companions hold initially.
LEMMA InitIInv == Init => IInv
  BY ConstantsAssumption
  DEF Init, IInv, TypeOK, VerdictsGated, ReviewedGated, Empty,
      AtWork, States, NoPR

\* Each step of the loop preserves the inductive invariant.
LEMMA LoopStepIInv == IInv /\ LoopStep => IInv'
<1> SUFFICES ASSUME IInv, LoopStep PROVE IInv'
  OBVIOUS
<1> USE ConstantsAssumption DEF IInv, github, loop
<1>1. CASE Wake
  <2>1. PICK p \in PRs :
          /\ IsTop(p)
          /\ phase' = "picked" /\ pick' = p /\ task' = Classify(p)
    BY <1>1 DEF Wake
  <2>2. TypeOK'
    BY <1>1, <2>1, ClassifyType DEF Wake, TypeOK, AtWork
  <2>3. VerdictsGated' /\ ReviewedGated'
    BY <1>1, <2>1 DEF Wake, VerdictsGated, ReviewedGated
  <2> QED BY <2>2, <2>3
<1>2. CASE Stop
  BY <1>2 DEF Stop, TypeOK, VerdictsGated, ReviewedGated, AtWork
<1>3. CASE Rework
  <2>1. TypeOK'
    BY <1>3 DEF Rework, TypeOK, AtWork, Empty
  <2>2. VerdictsGated' /\ ReviewedGated'
    BY <1>3 DEF Rework, VerdictsGated, ReviewedGated, AtWork
  <2> QED BY <2>1, <2>2
<1>4. CASE Checkout
  <2>1. TypeOK'
    BY <1>4 DEF Checkout, TypeOK, AtWork
  <2>2. VerdictsGated' /\ ReviewedGated'
    BY <1>4 DEF Checkout, VerdictsGated, ReviewedGated, AtWork
  <2> QED BY <2>1, <2>2
<1>5. CASE Abandon
  BY <1>5 DEF Abandon, Sleep, TypeOK, VerdictsGated, ReviewedGated,
              AtWork, States
<1>6. CASE Gate
  <2>1. TypeOK'
    BY <1>6 DEF Gate, TypeOK, AtWork
  <2>2. VerdictsGated' /\ ReviewedGated'
    BY <1>6 DEF Gate, VerdictsGated, ReviewedGated, TypeOK, AtWork
  <2> QED BY <2>1, <2>2
<1>7. CASE PostVerdict
  <2> DEFINE verdict == [marker |-> TRUE, quotes |-> {checkout}]
  <2>0. verdict \in Comment
    BY DEF TypeOK, Comment
  <2> HIDE DEF verdict
  <2>1. TypeOK'
    <3>1. comments' = [comments EXCEPT ![pick] = @ \cup {verdict}]
      BY <1>7 DEF PostVerdict, verdict
    <3>2. comments' \in [PRs -> SUBSET Comment]
      BY <2>0, <3>1 DEF TypeOK
    <3> QED BY <1>7, <3>2 DEF PostVerdict, Sleep, TypeOK, AtWork, States
  <2>2. VerdictsGated'
    BY <1>7 DEF PostVerdict, VerdictsGated, ReviewedGated, TypeOK, AtWork
  <2>3. ReviewedGated'
    BY <1>7 DEF PostVerdict, Sleep, ReviewedGated
  <2> QED BY <2>1, <2>2, <2>3
<1> QED BY <1>1, <1>2, <1>3, <1>4, <1>5, <1>6, <1>7 DEF LoopStep

\* So does each step of the people, of GitHub and of CI.
LEMMA EnvironmentIInv == IInv /\ Environment => IInv'
<1> SUFFICES ASSUME IInv, Environment PROVE IInv'
  OBVIOUS
<1> USE DEF IInv, github, loop
<1>1. CASE Resume
  BY <1>1 DEF Resume, TypeOK, VerdictsGated, ReviewedGated, AtWork
<1>2. ASSUME NEW p \in PRs, ComputeMergeable(p) PROVE IInv'
  BY <1>2 DEF ComputeMergeable, TypeOK, VerdictsGated, ReviewedGated
<1>3. ASSUME NEW p \in PRs, Merge(p) PROVE IInv'
  <2>1. TypeOK'
    BY <1>3, ConstantsAssumption DEF Merge, TypeOK
  <2>2. VerdictsGated' /\ ReviewedGated'
    BY <1>3 DEF Merge, VerdictsGated, ReviewedGated
  <2> QED BY <2>1, <2>2
<1>4. ASSUME NEW p \in PRs, NEW j \in Jobs, Report(p, j) PROVE IInv'
  <2>1. TypeOK'
    BY <1>4, ConstantsAssumption DEF Report, TypeOK
  <2>2. VerdictsGated' /\ ReviewedGated'
    BY <1>4 DEF Report, VerdictsGated, ReviewedGated
  <2> QED BY <2>1, <2>2
<1> QED BY <1>1, <1>2, <1>3, <1>4 DEF Environment

\* A comment without the marker, a push, a crash: none makes or unmakes a verdict.
LEMMA DisturbanceIInv == IInv /\ Disturbance => IInv'
<1> SUFFICES ASSUME IInv, Disturbance PROVE IInv'
  OBVIOUS
<1> USE DEF IInv, github, loop
<1>0. disturbed' = disturbed + 1
  BY DEF Disturbance
<1>1. CASE Crash
  BY <1>0, <1>1 DEF Crash, Sleep, TypeOK, VerdictsGated, ReviewedGated,
                    AtWork, States
<1>2. ASSUME NEW p \in PRs, Discuss(p) PROVE IInv'
  <2> DEFINE remark == [marker |-> FALSE, quotes |-> {head[p]}]
  <2>1. remark \in Comment /\ ~remark.marker
    BY DEF TypeOK, Comment
  <2>2. comments' = [comments EXCEPT ![p] = @ \cup {remark}]
    BY <1>2 DEF Discuss
  <2> HIDE DEF remark
  <2>3. TypeOK'
    <3>1. comments' \in [PRs -> SUBSET Comment]
      BY <2>1, <2>2 DEF TypeOK
    <3> QED BY <1>0, <1>2, <3>1 DEF Discuss, TypeOK
  <2>4. VerdictsGated' /\ ReviewedGated'
    BY <1>2, <2>1, <2>2 DEF Discuss, TypeOK, VerdictsGated, ReviewedGated
  <2> QED BY <2>3, <2>4
<1>3. ASSUME NEW p \in PRs, ToggleDraft(p) PROVE IInv'
  BY <1>0, <1>3 DEF ToggleDraft, TypeOK, VerdictsGated, ReviewedGated
<1>4. ASSUME NEW p \in PRs, NEW h \in 0..(last[p] + 1), Push(p, h) PROVE IInv'
  <2>1. TypeOK'
    BY <1>0, <1>4 DEF Push, TypeOK, Empty
  <2>2. VerdictsGated' /\ ReviewedGated'
    BY <1>4 DEF Push, VerdictsGated, ReviewedGated
  <2> QED BY <2>1, <2>2
<1>5. ASSUME NEW p \in PRs, NEW j \in Jobs, Rerun(p, j) PROVE IInv'
  <2>1. TypeOK'
    BY <1>0, <1>5 DEF Rerun, TypeOK
  <2>2. VerdictsGated' /\ ReviewedGated'
    BY <1>5 DEF Rerun, VerdictsGated, ReviewedGated
  <2> QED BY <2>1, <2>2
<1> QED BY <1>1, <1>2, <1>3, <1>4, <1>5 DEF Disturbance

\* The inductive step, stuttering included.
LEMMA NextIInv == IInv /\ [Next]_vars => IInv'
<1> SUFFICES ASSUME IInv, [Next]_vars PROVE IInv'
  OBVIOUS
<1>1. CASE UNCHANGED vars
  BY <1>1 DEF vars, github, loop, IInv, TypeOK, VerdictsGated, ReviewedGated
<1> QED BY <1>1, LoopStepIInv, EnvironmentIInv, DisturbanceIInv DEF Next

\* The inductive invariant holds in every reachable state.
THEOREM Invariant == Spec => []IInv
  BY InitIInv, NextIInv, PTL DEF Spec

\* Every field keeps its type: in particular an iteration at work always has a
\* pull request, and no state escapes the sort's ORDER table.
THEOREM TypeCorrect == Spec => []TypeOK
  BY Invariant, PTL DEF IInv

\* already_landed() never vouches for a head nobody gated: some gated commit of
\* the pull request has the head's seven-character prefix.
THEOREM DoneIsSound == Spec => []DoneSound
<1>1. IInv => DoneSound
  BY DEF IInv, VerdictsGated, DoneSound, AlreadyLanded
<1> QED BY <1>1, Invariant, PTL

\* Where no two commits share a prefix, DONE vouches for exactly this head.
THEOREM DoneIsExact ==
  ASSUME \A g, h \in Nat : Prefix(g) = Prefix(h) => g = h
  PROVE  Spec => [](\A p \in PRs : AlreadyLanded(p) => head[p] \in gated[p])
<1>1. IInv => \A p \in PRs : AlreadyLanded(p) => head[p] \in gated[p]
  <2> SUFFICES ASSUME IInv, NEW p \in PRs, AlreadyLanded(p) PROVE head[p] \in gated[p]
    OBVIOUS
  <2>0. PICK c \in comments[p] :
          c.marker /\ \E h \in c.quotes : Prefix(h) = Prefix(head[p])
    BY DEF AlreadyLanded
  <2>1. PICK h \in c.quotes : Prefix(h) = Prefix(head[p])
    BY <2>0
  <2>2. h \in gated[p]
    BY <2>0, <2>1 DEF IInv, VerdictsGated
  <2>3. h \in Nat /\ head[p] \in Nat
    BY <2>2 DEF IInv, TypeOK
  <2>4. h = head[p]
    BY <2>1, <2>3
  <2> QED BY <2>2, <2>4
<1> QED BY <1>1, Invariant, PTL

-----------------------------------------------------------------------------
\* Comments are only ever added.
LEMMA CommentsGrow ==
  ASSUME TypeOK, [Next]_vars, NEW p \in PRs
  PROVE  comments[p] \subseteq comments'[p]
<1> USE DEF github, loop
<1>1. CASE LoopStep
  BY <1>1 DEF LoopStep, Wake, Stop, Rework, Checkout, Abandon, Gate, PostVerdict, TypeOK
<1>2. CASE Environment
  BY <1>2 DEF Environment, Resume, ComputeMergeable, Merge, Report
<1>3. CASE Disturbance
  BY <1>3 DEF Disturbance, Crash, Discuss, ToggleDraft, Push, Rerun, TypeOK
<1>4. CASE UNCHANGED vars
  BY <1>4 DEF vars
<1> QED BY <1>1, <1>2, <1>3, <1>4 DEF Next

\* No step but a push returns a DONE pull request to the queue.
THEOREM VerdictsStand == Spec => VerdictStands
<1>1. IInv /\ [Next]_vars =>
        [\A p \in PRs : AlreadyLanded(p) => AlreadyLanded(p)' \/ head[p]' # head[p]]_vars
  BY CommentsGrow, LandedMonotone DEF IInv
<1> QED BY <1>1, Invariant, PTL DEF Spec, VerdictStands

\* Only a wakeup starts an iteration, and it starts one on the top row.
LEMMA PickedIsTop ==
  ASSUME [Next]_vars, phase = "asleep", phase' = "picked"
  PROVE  IsTop(pick')
<1> USE DEF github, loop
<1>1. CASE LoopStep
  BY <1>1 DEF LoopStep, Wake, Stop, Rework, Checkout, Abandon, Gate, PostVerdict, Sleep
<1>2. CASE Environment
  BY <1>2 DEF Environment, Resume, ComputeMergeable, Merge, Report
<1>3. CASE Disturbance
  BY <1>3 DEF Disturbance, Crash, Sleep, Discuss, ToggleDraft, Push, Rerun
<1>4. CASE UNCHANGED vars
  BY <1>4 DEF vars
<1> QED BY <1>1, <1>2, <1>3, <1>4 DEF Next

\* A branch that carries less adds no more lines.
LEMMA AdditionsMonotone ==
  ASSUME NEW p \in PRs, NEW q \in PRs, Unlanded(q) \subseteq Unlanded(p)
  PROVE  Additions(q) \in Nat /\ Additions(p) \in Nat /\ Additions(q) <= Additions(p)
<1>1. Unlanded(p) \in SUBSET Slices /\ Unlanded(q) \in SUBSET Slices
  BY ConstantsAssumption DEF Unlanded
<1> QED BY <1>1, ConstantsAssumption DEF Additions

\* The tip of a stack is never picked before a base in the same state.
THEOREM BaseBeforeTip == Spec => StackOrder
<1> DEFINE Step == phase = "asleep" /\ phase' = "picked" =>
             \A q \in Actionable :
               (/\ Unlanded(q) \subseteq Unlanded(pick')
                /\ Additions(q) # Additions(pick')
                /\ IsBootstrap(q) = IsBootstrap(pick'))
               => Classify(q) # Classify(pick')
<1>1. [Next]_vars => Step
  <2> SUFFICES ASSUME [Next]_vars, phase = "asleep", phase' = "picked",
                      NEW q \in Actionable, NEW p, p = pick',
                      Unlanded(q) \subseteq Unlanded(p), Additions(q) # Additions(p),
                      IsBootstrap(q) = IsBootstrap(p), Classify(q) = Classify(p)
               PROVE  FALSE
    OBVIOUS
  <2>1. IsTop(p)
    BY PickedIsTop
  <2>2. p \in PRs /\ q \in PRs
    BY <2>1 DEF IsTop, Heads, Actionable, Open
  <2>3. Additions(q) \in Nat /\ Additions(p) \in Nat /\ Additions(q) < Additions(p)
    BY <2>2, AdditionsMonotone
  <2>4. Order[Classify(p)] \in Nat
    BY <2>2, ClassifyType DEF Order, States
  <2>5. ~Before(p, q)
    BY <2>3, <2>4 DEF Before
  <2>6. Before(p, q)
    BY <2>1 DEF IsTop, Heads
  <2> QED BY <2>5, <2>6
<1>2. [Next]_vars => [Step]_vars
  BY <1>1
<1> QED BY <1>2, PTL DEF Spec, StackOrder

-----------------------------------------------------------------------------
\* The iteration holds the commit it will post a verdict on, and p is still there.
InFlight(p) == pick = p /\ phase \in {"gating", "reviewed"} /\ checkout = head[p]

\* p's commits are paid for by disturbances, two each; the one in excess is in
\* flight or has its verdict, so no iteration is about to push another.
Paid(p) ==
  \/ last[p] <= 2 * disturbed
  \/ /\ last[p] = 2 * disturbed + 1
     /\ InFlight(p) \/ AlreadyLanded(p)
     /\ ~(phase = "picked" /\ pick = p)

LEMMA InitPaid == Init => \A p \in PRs : Paid(p)
<1> SUFFICES ASSUME Init, NEW p \in PRs PROVE Paid(p)
  OBVIOUS
<1>1. last[p] = 0 /\ disturbed = 0
  BY DEF Init
<1> QED BY <1>1 DEF Paid

\* A disturbance pays for two commits and brings at most one.
LEMMA DisturbancePaid ==
  ASSUME TypeOK, Disturbance, NEW p \in PRs, Paid(p)
  PROVE  Paid(p)'
<1> USE DEF github, loop
<1>1. last[p] \in Nat /\ disturbed \in Nat /\ last[p] <= 2 * disturbed + 1
  BY DEF TypeOK, Paid
<1>2. disturbed' = disturbed + 1
  BY DEF Disturbance
<1>3. last'[p] \in Nat /\ last'[p] <= last[p] + 1
  <2>1. CASE UNCHANGED last
    BY <1>1, <2>1
  <2>2. ASSUME NEW q \in PRs, NEW h \in 0..(last[q] + 1), Push(q, h)
        PROVE  last'[p] \in Nat /\ last'[p] <= last[p] + 1
    BY <2>2, <1>1 DEF Push, TypeOK
  <2> QED BY <2>1, <2>2 DEF Disturbance, Crash, Discuss, ToggleDraft, Rerun
<1>4. last'[p] <= 2 * disturbed'
  BY <1>1, <1>2, <1>3
<1> QED BY <1>4 DEF Paid

\* The loop pushes only to a branch whose commits are all paid for, and then
\* holds the new commit until it has posted a verdict on it.
LEMMA LoopStepPaid ==
  ASSUME IInv, LoopStep, NEW p \in PRs, Paid(p)
  PROVE  Paid(p)'
<1> USE DEF github, loop
<1>0. TypeOK /\ last[p] \in Nat /\ disturbed \in Nat
  BY DEF IInv, TypeOK
<1>1. CASE Wake
  <2>1. PICK q \in PRs :
          /\ IsTop(q)
          /\ phase' = "picked" /\ pick' = q /\ task' = Classify(q)
    BY <1>1 DEF Wake
  <2>2. ~AlreadyLanded(q)
    BY <2>1 DEF IsTop, Heads, Actionable, Classify
  <2>3. CASE p = q
    <3>1. last[p] <= 2 * disturbed
      BY <1>1, <2>2, <2>3 DEF Wake, Paid, InFlight
    <3> QED BY <1>1, <3>1 DEF Wake, Paid
  <2>4. CASE p # q
    BY <1>1, <2>1, <2>4 DEF Wake, Paid, InFlight, AlreadyLanded
  <2> QED BY <2>3, <2>4
<1>2. CASE Stop
  BY <1>2 DEF Stop, Paid, InFlight, AlreadyLanded
<1>3. CASE Rework
  <2>1. CASE p = pick
    <3>1. last[p] <= 2 * disturbed
      BY <1>3, <2>1 DEF Rework, Paid
    <3>2. last'[p] = last[p] + 1 /\ head'[p] = last[p] + 1 /\ checkout' = last[p] + 1
      BY <1>3, <1>0, <2>1 DEF Rework, TypeOK
    <3>3. InFlight(p)'
      BY <1>3, <2>1, <3>2 DEF Rework, InFlight
    <3>4. phase' # "picked" /\ disturbed' = disturbed
      BY <1>3 DEF Rework
    <3> QED BY <1>0, <3>1, <3>2, <3>3, <3>4 DEF Paid
  <2>2. CASE p # pick
    BY <1>3, <1>0, <2>2 DEF Rework, Paid, InFlight, AlreadyLanded, TypeOK
  <2> QED BY <2>1, <2>2
<1>4. CASE Checkout
  BY <1>4 DEF Checkout, Paid, InFlight, AlreadyLanded
<1>5. CASE Abandon
  BY <1>5 DEF Abandon, Sleep, Paid, InFlight, AlreadyLanded
<1>6. CASE Gate
  BY <1>6 DEF Gate, Paid, InFlight, AlreadyLanded
<1>7. CASE PostVerdict
  <2>1. comments[p] \subseteq comments'[p]
    BY <1>0, <1>7 DEF PostVerdict, TypeOK
  <2>2. AlreadyLanded(p) => AlreadyLanded(p)'
    BY <1>7, <2>1, LandedMonotone DEF PostVerdict
  <2>3. ASSUME InFlight(p) PROVE AlreadyLanded(p)'
    <3>1. [marker |-> TRUE, quotes |-> {checkout}] \in comments'[p]
      BY <1>0, <1>7, <2>3 DEF PostVerdict, InFlight, TypeOK
    <3>2. head'[p] = checkout
      BY <1>7, <2>3 DEF PostVerdict, InFlight
    <3> QED BY <3>1, <3>2 DEF AlreadyLanded
  <2> QED BY <1>7, <2>2, <2>3 DEF PostVerdict, Sleep, Paid
<1> QED BY <1>1, <1>2, <1>3, <1>4, <1>5, <1>6, <1>7 DEF LoopStep

\* Nothing else touches a branch, a verdict or the iteration.
LEMMA EnvironmentPaid ==
  ASSUME Environment \/ UNCHANGED vars, NEW p \in PRs, Paid(p)
  PROVE  Paid(p)'
<1> USE DEF github, loop
<1>1. /\ UNCHANGED <<last, head, comments, pick, checkout, disturbed>>
      /\ phase' = phase \/ (phase' = "asleep" /\ phase \in {"blocked", "drained"})
  BY DEF Environment, Resume, ComputeMergeable, Merge, Report, vars
<1> QED BY <1>1 DEF Paid, InFlight, AlreadyLanded

\* The loop does not feed itself: however long it runs, a branch gets at most one
\* commit from it before the first disturbance and one more for each.
THEOREM WorkIsBounded == Spec => []WorkBounded
<1> DEFINE Inv == IInv /\ \A p \in PRs : Paid(p)
<1>1. Init => Inv
  BY InitIInv, InitPaid
<1>2. Inv /\ [Next]_vars => Inv'
  BY NextIInv, DisturbancePaid, LoopStepPaid, EnvironmentPaid DEF IInv, Next
<1>3. Inv => WorkBounded
  <2> SUFFICES ASSUME Inv, NEW p \in PRs PROVE last[p] <= 2 * disturbed + 1
    BY DEF WorkBounded
  <2>1. last[p] \in Nat /\ disturbed \in Nat
    BY DEF IInv, TypeOK
  <2> QED BY <2>1 DEF Paid
<1> QED BY <1>1, <1>2, <1>3, PTL DEF Spec
-----------------------------------------------------------------------------
\* p's builds are paid for by disturbances, one each, and one comes free.  An
\* iteration about to build p has its build in hand; if p's branch has moved away
\* from the commit it checked out, one more disturbance has paid.  Where the free
\* one is spent, the verdict on this head is about to be posted, or is there.
BuildsPaid(p) ==
  /\ pick = p /\ phase = "gating" /\ checkout # head[p] => builds[p] + 1 <= disturbed
  /\ \/ builds[p] <= disturbed
     \/ /\ builds[p] = disturbed + 1
        /\ \/ pick = p /\ phase = "reviewed" /\ checkout = head[p]
           \/ AlreadyLanded(p)
        /\ ~(pick = p /\ phase \in {"picked", "gating"})

\* A disturbance pays for one build and starts none.
LEMMA DisturbanceBuilds ==
  ASSUME TypeOK, Disturbance, NEW p \in PRs, BuildsPaid(p)
  PROVE  BuildsPaid(p)'
<1> USE DEF github, loop
<1>1. builds[p] \in Nat /\ disturbed \in Nat
  BY DEF TypeOK
<1>2. disturbed' = disturbed + 1
  BY DEF Disturbance
<1>3. UNCHANGED builds
  BY DEF Disturbance, Crash, Discuss, ToggleDraft, Push, Rerun
<1>4. builds'[p] <= disturbed'
  BY <1>1, <1>2, <1>3 DEF BuildsPaid
<1>5. (pick = p /\ phase = "gating" /\ checkout # head[p])'
        => builds'[p] + 1 <= disturbed'
  <2> SUFFICES ASSUME pick' = p, phase' = "gating" PROVE builds'[p] + 1 <= disturbed'
    OBVIOUS
  <2>1. pick = p /\ phase = "gating"
    BY DEF Disturbance, Crash, Sleep, Discuss, ToggleDraft, Push, Rerun
  <2>2. builds[p] <= disturbed
    BY <2>1 DEF BuildsPaid
  <2> QED BY <1>1, <1>2, <1>3, <2>2
<1> QED BY <1>4, <1>5 DEF BuildsPaid

\* The loop builds only what has no verdict, and then holds the commit until it
\* has posted one.
LEMMA LoopStepBuilds ==
  ASSUME IInv, LoopStep, NEW p \in PRs, BuildsPaid(p)
  PROVE  BuildsPaid(p)'
<1> USE DEF github, loop
<1>0. TypeOK /\ builds[p] \in Nat /\ disturbed \in Nat
  BY DEF IInv, TypeOK
<1>1. CASE Wake
  <2>1. PICK q \in PRs :
          /\ IsTop(q)
          /\ phase' = "picked" /\ pick' = q /\ task' = Classify(q)
    BY <1>1 DEF Wake
  <2>2. ~AlreadyLanded(q)
    BY <2>1 DEF IsTop, Heads, Actionable, Classify
  <2>3. CASE p = q
    <3>1. builds[p] <= disturbed
      BY <1>1, <2>2, <2>3 DEF Wake, BuildsPaid
    <3> QED BY <1>1, <3>1 DEF Wake, BuildsPaid
  <2>4. CASE p # q
    BY <1>1, <2>1, <2>4 DEF Wake, BuildsPaid, AlreadyLanded
  <2> QED BY <2>3, <2>4
<1>2. CASE Stop
  BY <1>2 DEF Stop, BuildsPaid, AlreadyLanded
<1>3. CASE Rework
  <2>1. CASE p = pick
    <3>1. builds[p] <= disturbed
      BY <1>3, <2>1 DEF Rework, BuildsPaid
    <3>2. checkout' = head'[p]
      BY <1>3, <1>0, <2>1 DEF Rework, TypeOK
    <3> QED BY <1>3, <3>1, <3>2 DEF Rework, BuildsPaid
  <2>2. CASE p # pick
    BY <1>3, <1>0, <2>2 DEF Rework, BuildsPaid, AlreadyLanded, TypeOK
  <2> QED BY <2>1, <2>2
<1>4. CASE Checkout
  BY <1>4 DEF Checkout, BuildsPaid, AlreadyLanded
<1>5. CASE Abandon
  BY <1>5 DEF Abandon, Sleep, BuildsPaid, AlreadyLanded
<1>6. CASE Gate
  <2>1. CASE p = pick
    <3>1. builds'[p] = builds[p] + 1 /\ builds[p] <= disturbed
      BY <1>0, <1>6, <2>1 DEF Gate, BuildsPaid, TypeOK
    <3>2. CASE checkout = head[p]
      BY <1>0, <1>6, <2>1, <3>1, <3>2 DEF Gate, BuildsPaid
    <3>3. CASE checkout # head[p]
      BY <1>0, <1>6, <2>1, <3>1, <3>3 DEF Gate, BuildsPaid
    <3> QED BY <3>2, <3>3
  <2>2. CASE p # pick
    BY <1>0, <1>6, <2>2 DEF Gate, BuildsPaid, AlreadyLanded, TypeOK
  <2> QED BY <2>1, <2>2
<1>7. CASE PostVerdict
  <2>1. comments[p] \subseteq comments'[p]
    BY <1>0, <1>7 DEF PostVerdict, TypeOK
  <2>2. AlreadyLanded(p) => AlreadyLanded(p)'
    BY <1>7, <2>1, LandedMonotone DEF PostVerdict
  <2>3. ASSUME pick = p, checkout = head[p] PROVE AlreadyLanded(p)'
    <3>1. [marker |-> TRUE, quotes |-> {checkout}] \in comments'[p]
      BY <1>0, <1>7, <2>3 DEF PostVerdict, TypeOK
    <3>2. head'[p] = checkout
      BY <1>7, <2>3 DEF PostVerdict
    <3> QED BY <3>1, <3>2 DEF AlreadyLanded
  <2> QED BY <1>7, <2>2, <2>3 DEF PostVerdict, Sleep, BuildsPaid
<1> QED BY <1>1, <1>2, <1>3, <1>4, <1>5, <1>6, <1>7 DEF LoopStep

\* Nothing else builds, moves a branch or takes a verdict away.
LEMMA EnvironmentBuilds ==
  ASSUME Environment \/ UNCHANGED vars, NEW p \in PRs, BuildsPaid(p)
  PROVE  BuildsPaid(p)'
<1> USE DEF github, loop
<1>1. /\ UNCHANGED <<head, comments, pick, checkout, builds, disturbed>>
      /\ phase' = phase \/ (phase' = "asleep" /\ phase \in {"blocked", "drained"})
  BY DEF Environment, Resume, ComputeMergeable, Merge, Report, vars
<1> QED BY <1>1 DEF BuildsPaid, AlreadyLanded

\* The marker does its job: one build of a pull request, and one more at most for
\* each push, crash or other disturbance, for any number of wakeups.
THEOREM BuildsAreBounded == Spec => []BuildsBounded
<1> DEFINE Inv == IInv /\ \A p \in PRs : BuildsPaid(p)
<1>1. Init => Inv
  <2> SUFFICES ASSUME Init, NEW p \in PRs PROVE BuildsPaid(p)
    BY InitIInv
  <2> QED BY DEF Init, BuildsPaid
<1>2. Inv /\ [Next]_vars => Inv'
  BY NextIInv, DisturbanceBuilds, LoopStepBuilds, EnvironmentBuilds DEF IInv, Next
<1>3. Inv => BuildsBounded
  <2> SUFFICES ASSUME Inv, NEW p \in PRs PROVE builds[p] <= disturbed + 1
    BY DEF BuildsBounded
  <2>1. builds[p] \in Nat /\ disturbed \in Nat
    BY DEF IInv, TypeOK
  <2> QED BY <2>1 DEF BuildsPaid
<1> QED BY <1>1, <1>2, <1>3, PTL DEF Spec
=============================================================================
