---------------------------- MODULE TrustProofs ----------------------------
(***************************************************************************)
(* Proofs about what keeps the audits honest: TrustGuard, for any paths    *)
(* and labels and any number of acts, and AuditRatchet, for any            *)
(* declarations and libraries and any number of edits.                     *)
(*                                                                         *)
(* The settled check is the policy's because the newest payload describes  *)
(* the pull request as it is, first in the queue, then in its job, then in *)
(* what the job said.  What lands is covered or accepted because three     *)
(* gates fit together: the count check makes a passing transcript the      *)
(* whole one, so a record that lands is clean; the identity check puts     *)
(* every missing name in the tree's own baseline; and the trust guard      *)
(* makes that baseline main's, or a labelled one.                          *)
(***************************************************************************)
EXTENDS TrustGuard, AuditRatchet, SequenceTheorems, FiniteSetTheorems, TLAPS

-----------------------------------------------------------------------------
(* The trust guard.                                                        *)

\* What the policy says of the pull request as it is.
Policy == IF Passes(diff[head + 1], labels) THEN "success" ELSE "failure"

\* The newest payload describes the pull request as it is: first while it is the
\* last event in the queue, then while its job runs, then in what the job said.
NewestIsCurrent ==
  open =>
    \/ events # <<>> /\ events[Len(events)] = [head |-> head, labels |-> labels]
    \/ /\ events = <<>> /\ run.phase # "idle"
       /\ run.head = head /\ run.labels = labels
       /\ run.phase = "fetched" => run.files = diff[head + 1]
    \/ /\ events = <<>> /\ run.phase = "idle"
       /\ status[head + 1] \in {"error", Policy}

IInv == TypeOK /\ NewestIsCurrent

\* A pull request is opened with its payload in the queue.
LEMMA InitIInv == Init => IInv
<1> SUFFICES ASSUME Init PROVE IInv
  OBVIOUS
<1> USE PathsAssumption
<1>1. PICK files \in SUBSET Paths : diff = <<files>>
  BY DEF Init
<1>2. Commits = 0..0
  BY <1>1 DEF Commits
<1>3. TypeOK
  BY <1>1, <1>2 DEF Init, TypeOK, Idle, Payload, Conclusion
<1>4. NewestIsCurrent
  BY DEF Init, NewestIsCurrent
<1> QED BY <1>3, <1>4 DEF IInv

\* The job's own steps hand the newest payload on, from queue to run to status.
LEMMA JobIInv == IInv /\ Job => IInv'
<1> SUFFICES ASSUME IInv, Job PROVE IInv'
  OBVIOUS
<1> USE DEF IInv, pr
<1>0. Commits' = Commits /\ Commits \subseteq Nat /\ Len(diff) \in Nat
  BY DEF Job, Deliver, Fetch, Fail, Judge, Commits, TypeOK
<1>1. CASE Deliver
  <2>1. Head(events) \in Payload /\ Head(events).head \in Commits /\ Len(events) \in Nat
    BY <1>1 DEF Deliver, TypeOK
  <2>2. /\ events' = Tail(events) /\ events' \in Seq(Payload)
        /\ Len(events') = Len(events) - 1
        /\ \A i \in 1..Len(events') : events'[i] = events[i + 1]
    BY <1>1 DEF Deliver, TypeOK
  <2>3. run' = [phase |-> "started", head |-> Head(events).head,
                labels |-> Head(events).labels, files |-> {}]
    BY <1>1 DEF Deliver
  <2>4. TypeOK'
    <3> DEFINE Mark  == Conclusion \cup {"none", "pending"}
               after == IF run.phase = "idle" THEN status
                        ELSE [status EXCEPT ![run.head + 1] = "cancelled"]
    <3>0. run.head + 1 \in 1..Len(status) /\ Head(events).head + 1 \in 1..Len(status)
      BY <1>0, <2>1 DEF TypeOK, Commits
    <3>a. after \in Seq(Mark) /\ Len(after) = Len(status)
      <4>1. status \in Seq(Mark)
        BY DEF TypeOK
      <4>2. "cancelled" \in Mark
        BY DEF Conclusion
      <4> HIDE DEF Mark
      <4>3. /\ [status EXCEPT ![run.head + 1] = "cancelled"] \in Seq(Mark)
            /\ Len([status EXCEPT ![run.head + 1] = "cancelled"]) = Len(status)
        BY <3>0, <4>1, <4>2, ExceptSeq
      <4> QED BY <4>1, <4>3
    <3>b. status' = [after EXCEPT ![Head(events).head + 1] = "pending"]
      BY <1>1 DEF Deliver
    <3> HIDE DEF after
    <3>1. status' \in Seq(Mark) /\ Len(status') = Len(status)
      BY <3>0, <3>a, <3>b, ExceptSeq DEF Conclusion
    <3> HIDE DEF Mark
    <3>2. run' \in [phase : {"idle", "started", "fetched"}, head : Commits,
                    labels : SUBSET Labels, files : SUBSET Paths]
      BY <2>1, <2>3 DEF Payload
    <3>3. \A i \in 1..Len(events') : events'[i].head \in Commits
      BY <2>1, <2>2 DEF TypeOK
    <3> QED BY <1>0, <1>1, <2>2, <3>1, <3>2, <3>3 DEF Deliver, TypeOK, Mark
  <2>5. NewestIsCurrent'
    <3> SUFFICES ASSUME open PROVE NewestIsCurrent'
      BY <1>1 DEF Deliver, NewestIsCurrent
    <3>1. events # <<>> /\ events[Len(events)] = [head |-> head, labels |-> labels]
      BY <1>1 DEF Deliver, NewestIsCurrent
    <3>2. CASE Len(events) = 1
      <4>1. events' = <<>> /\ Head(events) = events[Len(events)]
        BY <2>1, <2>2, <3>1, <3>2 DEF TypeOK
      <4> QED BY <1>1, <2>3, <3>1, <4>1 DEF Deliver, NewestIsCurrent
    <3>3. CASE Len(events) # 1
      <4>1. Len(events') >= 1 /\ events'[Len(events')] = events[Len(events)]
        BY <2>1, <2>2, <3>1, <3>3 DEF TypeOK
      <4>2. events' # <<>>
        BY <4>1
      <4> QED BY <1>1, <3>1, <4>1, <4>2 DEF Deliver, NewestIsCurrent
    <3> QED BY <3>2, <3>3
  <2> QED BY <2>4, <2>5
<1>2. CASE Fetch
  <2>1. diff[head + 1] \in SUBSET Paths
    BY <1>0 DEF TypeOK, Commits
  <2>2. TypeOK'
    BY <1>0, <1>2, <2>1 DEF Fetch, TypeOK
  <2>3. NewestIsCurrent'
    BY <1>2 DEF Fetch, NewestIsCurrent, TypeOK
  <2> QED BY <2>2, <2>3
<1>3. CASE Fail
  <2>1. run.head \in Commits /\ run.head + 1 \in 1..Len(status)
    BY <1>0 DEF TypeOK, Commits
  <2>2. TypeOK'
    <3>1. Idle \in [phase : {"idle", "started", "fetched"}, head : Commits,
                    labels : SUBSET Labels, files : SUBSET Paths]
      BY <1>0, <2>1 DEF Idle, Commits
    <3> QED BY <1>0, <1>3, <2>1, <3>1 DEF Fail, TypeOK, Conclusion
  <2>3. NewestIsCurrent'
    BY <1>3, <2>1 DEF Fail, NewestIsCurrent, Idle, TypeOK
  <2> QED BY <2>2, <2>3
<1>4. CASE Judge
  <2>1. run.head \in Commits /\ run.head + 1 \in 1..Len(status)
    BY <1>0 DEF TypeOK, Commits
  <2>2. TypeOK'
    <3>1. Idle \in [phase : {"idle", "started", "fetched"}, head : Commits,
                    labels : SUBSET Labels, files : SUBSET Paths]
      BY <1>0, <2>1 DEF Idle, Commits
    <3> QED BY <1>0, <1>4, <2>1, <3>1 DEF Judge, TypeOK, Conclusion
  <2>3. NewestIsCurrent'
    BY <1>4, <2>1 DEF Judge, NewestIsCurrent, Idle, TypeOK, Policy
  <2> QED BY <2>2, <2>3
<1> QED BY <1>1, <1>2, <1>3, <1>4 DEF Job

\* Firing an event the workflow listens to puts the present at the queue's end.
LEMMA FireIsCurrent ==
  ASSUME NEW kind \in Triggers, Fire(kind), events \in Seq(Payload),
         head' \in Commits', labels' \subseteq Labels,
         \A i \in 1..Len(events) : events[i].head \in Commits',
         Commits' \subseteq Nat
  PROVE  /\ events' \in Seq(Payload) /\ events' # <<>>
         /\ events'[Len(events')] = [head |-> head', labels |-> labels']
         /\ \A i \in 1..Len(events') : events'[i].head \in Commits'
<1> DEFINE now == [head |-> head', labels |-> labels']
<1>1. now \in Payload /\ now.head = head'
  BY DEF Payload
<1>2. events' = Append(events, now)
  BY DEF Fire
<1> HIDE DEF now
<1>3. /\ events' \in Seq(Payload) /\ Len(events') = Len(events) + 1
      /\ events'[Len(events) + 1] = now
      /\ \A i \in 1..Len(events) : events'[i] = events[i]
  BY <1>1, <1>2
<1>4. Len(events) \in Nat
  OBVIOUS
<1>5. events' # <<>>
  BY <1>3, <1>4
<1> QED BY <1>1, <1>3, <1>4, <1>5 DEF now

\* Everything a person does to an open pull request fires an event.
LEMMA PeopleIInv == IInv /\ People => IInv'
<1> SUFFICES ASSUME IInv, People PROVE IInv'
  OBVIOUS
<1> USE DEF IInv, pr
<1>0. acts' \in Nat /\ Commits \subseteq Nat /\ Len(diff) \in Nat /\ Len(diff) >= 1
  BY DEF People, TypeOK, Commits
<1>1. ASSUME NEW files \in SUBSET Paths, Push(files) PROVE IInv'
  <2>1. /\ diff' \in Seq(SUBSET Paths) /\ Len(diff') = Len(diff) + 1
        /\ head' = Len(diff)
        /\ status' \in Seq(Conclusion \cup {"none", "pending"})
        /\ Len(status') = Len(diff')
    BY <1>1 DEF Push, TypeOK
  <2>2. Commits' \subseteq Nat /\ head' \in Commits' /\ Commits \subseteq Commits'
    BY <1>0, <2>1 DEF Commits
  <2>3. labels' \subseteq Labels /\ UNCHANGED <<labels, open, vetted, run>>
    BY <1>1 DEF Push, TypeOK
  <2>4. CASE open
    <3>1. Fire("synchronize")
      BY <1>1, <2>4 DEF Push
    <3>2. /\ events' \in Seq(Payload) /\ events' # <<>>
          /\ events'[Len(events')] = [head |-> head', labels |-> labels']
          /\ \A i \in 1..Len(events') : events'[i].head \in Commits'
      BY <2>2, <2>3, <3>1, FireIsCurrent DEF TypeOK, Triggers
    <3> QED BY <1>0, <2>1, <2>2, <2>3, <3>2 DEF TypeOK, NewestIsCurrent
  <2>5. CASE ~open
    <3>1. UNCHANGED events
      BY <1>1, <2>5 DEF Push
    <3> QED BY <1>0, <2>1, <2>2, <2>3, <2>5, <3>1 DEF TypeOK, NewestIsCurrent
  <2> QED BY <2>4, <2>5
<1>2. ASSUME NEW kind \in Triggers, Fire(kind), UNCHANGED <<diff, run, status>>,
             head' \in Commits, labels' \subseteq Labels, open' \in BOOLEAN,
             vetted' \subseteq Commits
      PROVE  IInv'
  <2>1. Commits' = Commits
    BY <1>2 DEF Commits
  <2>2. /\ events' \in Seq(Payload) /\ events' # <<>>
        /\ events'[Len(events')] = [head |-> head', labels |-> labels']
        /\ \A i \in 1..Len(events') : events'[i].head \in Commits'
    BY <1>0, <1>2, <2>1, FireIsCurrent DEF TypeOK
  <2> QED BY <1>0, <1>2, <2>1, <2>2 DEF TypeOK, NewestIsCurrent
<1>3. ASSUME NEW h \in Commits, Restore(h) PROVE IInv'
  BY <1>2, <1>3 DEF Restore, TypeOK, Triggers
<1>4. ASSUME NEW l \in Labels, AddLabel(l) PROVE IInv'
  BY <1>2, <1>4 DEF AddLabel, TypeOK, Triggers
<1>5. ASSUME NEW l \in Labels, RemoveLabel(l) PROVE IInv'
  BY <1>2, <1>5 DEF RemoveLabel, TypeOK, Triggers
<1>6. CASE Close
  BY <1>0, <1>6 DEF Close, TypeOK, NewestIsCurrent, Commits
<1>7. CASE Reopen
  BY <1>2, <1>7 DEF Reopen, TypeOK, Triggers
<1> QED BY <1>1, <1>3, <1>4, <1>5, <1>6, <1>7 DEF People

\* Every step keeps the invariant.
LEMMA NextIInv == IInv /\ [Next]_vars => IInv'
<1> SUFFICES ASSUME IInv, [Next]_vars PROVE IInv'
  OBVIOUS
<1>1. CASE UNCHANGED vars
  BY <1>1 DEF vars, pr, IInv, TypeOK, NewestIsCurrent, Commits, Policy
<1> QED BY <1>1, JobIInv, PeopleIInv DEF Next

\* The inductive invariant holds in every reachable state.
THEOREM Invariant == Spec => []IInv
  BY InitIInv, NextIInv, PTL DEF Spec

\* Every commit an event, a job or a status speaks of is one that was pushed.
THEOREM TypeCorrect == Spec => []TypeOK
  BY Invariant, PTL DEF IInv

\* Whatever order people push, restore, label, unlabel, close and reopen in, and
\* wherever that falls between an event, its job and the job's API call, the
\* settled check says what the policy says of the pull request as it is.
THEOREM SettledCheckAgrees == Spec => []SettledAgrees
<1>1. IInv => SettledAgrees
  BY DEF IInv, NewestIsCurrent, SettledAgrees, Settled, Policy
<1> QED BY <1>1, Invariant, PTL

-----------------------------------------------------------------------------
(* The audit ratchet.                                                      *)

\* A tree in which only what is declared depends on anything.
Tidy(t) == t \in Tree /\ t.bad \subseteq t.decl

RatchetIInv ==
  /\ RatchetTypeOK
  /\ Tidy(main) /\ Tidy(wt)
  /\ main.base \subseteq accepted /\ main.ceil = granted
  /\ BacklogAccepted
  /\ TaintAccepted
  /\ CeilingHolds

\* A transcript that check_audit.py passes reports every record of the audit.
LEMMA WholeTranscript ==
  ASSUME NEW t \in Tree, NEW l \in Libs,
         NEW out \in SUBSET Commanded(t, l), CheckAudit(t, l, out)
  PROVE  out = Commanded(t, l)
<1>1. IsFiniteSet(Commanded(t, l))
  <2>1. IsFiniteSet(Names)
    BY NamesAssumption
  <2>2. Commanded(t, l) \subseteq Names
    BY DEF Commanded, Of
  <2> QED
    BY <2>1, <2>2, FS_Subset
<1>2. Cardinality(out) = Cardinality(Commanded(t, l))
  BY DEF CheckAudit
<1> QED
  BY <1>1, <1>2, FS_Subset

\* In a green tree every uncovered declaration that the sweep sees is in the tree's
\* baseline, unless that is empty.
LEMMA GreenNamesBacklog ==
  ASSUME NEW t \in Tree, Green(t), t.base # {}
  PROVE  Swept(t) \ t.rec \subseteq t.base
<1>1. SUFFICES ASSUME NEW n \in Swept(t) \ t.rec
              PROVE  n \in t.base
  OBVIOUS
<1>2. n \in Names
  BY <1>1 DEF Tree, Swept
<1>3. CheckComplete(t, Swept(t))
  BY DEF Green
<1>4. Lib[n] # Unclassified
  BY <1>1, <1>2, <1>3 DEF CheckComplete, Of
<1>5. Lib[n] \in Libs
  BY <1>2, <1>4, NamesAssumption
<1>6. n \in Missing(t, Swept(t), Lib[n])
  BY <1>1, <1>2 DEF Missing, Of
<1> QED
  BY <1>3, <1>5, <1>6 DEF CheckComplete

\* And none of them that a record names depends on a forbidden axiom.
LEMMA GreenRecordsClean ==
  ASSUME NEW t, Tidy(t), Green(t)
  PROVE  (t.bad \ Hidden) \cap t.rec = {}
<1>1. SUFFICES ASSUME NEW n \in t.bad \ Hidden, n \in t.rec
              PROVE  FALSE
  OBVIOUS
<1>2. t \in Tree /\ n \in t.decl /\ n \in Names
  BY <1>1 DEF Tidy, Tree
<1>3. CheckComplete(t, Swept(t)) /\ \A l \in Libs : AuditLane(t, l)
  BY DEF Green
<1>4. Lib[n] # Unclassified
  BY <1>1, <1>2, <1>3 DEF CheckComplete, Of, Swept
<1>5. Lib[n] \in Libs
  BY <1>2, <1>4, NamesAssumption
<1>6. PICK out \in SUBSET Commanded(t, Lib[n]) : CheckAudit(t, Lib[n], out)
  BY <1>3, <1>5 DEF AuditLane
<1>7. n \in Commanded(t, Lib[n])
  BY <1>1, <1>2 DEF Commanded, Of
<1>8. n \in out
  BY <1>2, <1>5, <1>6, <1>7, WholeTranscript
<1> QED
  BY <1>1, <1>6, <1>8 DEF CheckAudit

\* Every edit leaves a tree: main and what was accepted do not move.
LEMMA EditsKeepTrees ==
  ASSUME RatchetIInv, Edits
  PROVE  /\ Tidy(wt') /\ edits' \in Nat
         /\ UNCHANGED <<main, enum, accepted, granted>>
<1> USE DEF RatchetIInv, RatchetTypeOK
<1>1. edits' \in Nat
  BY DEF Edits
<1>2. ASSUME NEW n \in Names, Declare(n) \/ Reprove(n) \/ Remove(n)
      PROVE  Tidy(wt') /\ UNCHANGED <<main, enum, accepted, granted>>
  <2>1. CASE Declare(n)
    <3>1. PICK b \in SUBSET {n} :
            Edit([wt EXCEPT !.decl = @ \cup {n}, !.bad = @ \cup b])
      BY <2>1 DEF Declare
    <3> QED
      BY <3>1 DEF Edit, Tidy, Tree
  <2>2. CASE Reprove(n)
    BY <2>2 DEF Reprove, Edit, Tidy, Tree
  <2>3. CASE Remove(n)
    BY <2>3 DEF Remove, Edit, Tidy, Tree
  <2> QED
    BY <1>2, <2>1, <2>2, <2>3
<1>3. ASSUME NEW n \in Names, Record(n) \/ Unrecord(n)
      PROVE  Tidy(wt') /\ UNCHANGED <<main, enum, accepted, granted>>
  BY <1>3 DEF Record, Unrecord, Edit, Tidy, Tree
<1>4. ASSUME NEW l \in Libs, NEW c \in 0..Limit, SetCeiling(l, c)
      PROVE  Tidy(wt') /\ UNCHANGED <<main, enum, accepted, granted>>
  BY <1>4 DEF SetCeiling, Edit, Tidy, Tree
<1>5. ASSUME DropBaseline
      PROVE  Tidy(wt') /\ UNCHANGED <<main, enum, accepted, granted>>
  BY <1>5 DEF DropBaseline, Edit, Tidy, Tree
<1>6. ASSUME Relax
      PROVE  Tidy(wt') /\ UNCHANGED <<main, enum, accepted, granted>>
  <2>1. Backlog(wt, enum) \in SUBSET Names
    BY DEF Backlog, Missing, Of
  <2> QED
    BY <1>6, <2>1 DEF Relax, Edit, Tidy, Tree
<1> QED
  BY <1>1, <1>2, <1>3, <1>4, <1>5, <1>6 DEF Edits

\* A landing keeps the invariant.
LEMMA LandingKeeps ==
  ASSUME RatchetIInv, Land
  PROVE  RatchetIInv'
<1> USE DEF RatchetIInv
<1>1. /\ main' = wt /\ wt' = wt /\ enum' = enum /\ edits' = edits
      /\ Green(wt) /\ Tidy(wt)
  BY DEF Land
<1>2. accepted \subseteq accepted' /\ accepted' \subseteq Names
  BY DEF Land, RatchetTypeOK, Tree
<1>3. wt.base \subseteq accepted' /\ granted' = wt.ceil
  <2>1. CASE Surface(wt)
    BY <2>1 DEF Land
  <2>2. CASE ~Surface(wt)
    <3>1. wt.base = main.base /\ wt.ceil = main.ceil
      BY <2>2 DEF Surface
    <3> QED
      BY <1>2, <2>2, <3>1 DEF Land
  <2> QED
    BY <2>1, <2>2
<1>4. RatchetTypeOK' /\ Tidy(main') /\ Tidy(wt')
  BY <1>1, <1>2, <1>3 DEF RatchetTypeOK, Tidy, Tree
<1>5. wt.base # {} => Swept(wt) \ wt.rec \subseteq wt.base
  BY <1>1, GreenNamesBacklog DEF Tidy
<1>6. (wt.bad \ Hidden) \cap wt.rec = {} /\ wt.bad \subseteq wt.decl
  BY <1>1, GreenRecordsClean DEF Tidy
<1>7. BacklogAccepted'
  BY <1>1, <1>3, <1>5 DEF BacklogAccepted, Swept
<1>8. TaintAccepted'
  BY <1>1, <1>3, <1>5, <1>6 DEF TaintAccepted, Swept
<1>9. CeilingHolds'
  <2>1. \A l \in Libs : Cardinality(Missing(wt, Swept(wt), l)) <= wt.ceil[l]
    BY <1>1 DEF Green, CheckComplete
  <2> QED
    BY <1>1, <1>3, <2>1 DEF CeilingHolds, Missing, Swept
<1> QED
  BY <1>1, <1>3, <1>4, <1>7, <1>8, <1>9

\* The invariant holds where the ratchet starts and every step keeps it.
THEOREM RatchetInvariant == RatchetSpec => []RatchetIInv
<1>1. RatchetInit => RatchetIInv
  <2> SUFFICES ASSUME RatchetInit PROVE RatchetIInv
    OBVIOUS
  <2>1. PICK r \in SUBSET Names, m \in SUBSET Names, b \in SUBSET Names :
          main = [decl |-> r \cup m, bad |-> b, rec |-> r, based |-> TRUE, base |-> m,
                  ceil |-> [l \in Libs |-> Cardinality(m \cap Of(l))]]
    BY DEF RatchetInit
  <2>2. \A l \in Libs : Cardinality(m \cap Of(l)) \in Nat
    <3>1. \A l \in Libs : IsFiniteSet(m \cap Of(l))
      BY NamesAssumption, FS_Subset DEF Of
    <3> QED
      BY <3>1, FS_CardinalityType
  <2>3. main \in Tree
    BY <2>1, <2>2 DEF Tree
  <2>4. main.bad \subseteq main.base /\ main.base \subseteq main.decl
        /\ main.decl \ main.rec \subseteq main.base
    BY <2>1 DEF RatchetInit
  <2>5. CeilingHolds
    <3> SUFFICES ASSUME NEW l \in Libs
                 PROVE  Cardinality(Missing(main, Swept(main), l)) <= main.ceil[l]
      BY DEF RatchetInit, CeilingHolds
    <3>1. Missing(main, Swept(main), l) = m \cap Of(l)
      BY <2>1 DEF RatchetInit, Missing, Swept
    <3> QED
      BY <2>1, <2>2, <3>1
  <2>6. granted \in [Libs -> Nat]
    BY <2>3 DEF RatchetInit, Tree
  <2> QED
    BY <2>3, <2>4, <2>5, <2>6
       DEF RatchetInit, RatchetIInv, RatchetTypeOK, Tidy, Tree, Swept,
           BacklogAccepted, TaintAccepted
<1>2. RatchetIInv /\ [RatchetNext]_ratchetVars => RatchetIInv'
  <2> SUFFICES ASSUME RatchetIInv, [RatchetNext]_ratchetVars PROVE RatchetIInv'
    OBVIOUS
  <2> USE DEF RatchetIInv
  <2> USE DEF BacklogAccepted, TaintAccepted, CeilingHolds
  <2>1. CASE Edits
    <3>1. Tidy(wt') /\ edits' \in Nat /\ UNCHANGED <<main, enum, accepted, granted>>
      BY <2>1, EditsKeepTrees
    <3> QED
      BY <3>1 DEF RatchetTypeOK, Tidy
  <2>2. CASE Sweep
    BY <2>2 DEF Sweep, Swept, RatchetTypeOK, Tidy, Tree
  <2>3. CASE Land
    BY <2>3, LandingKeeps
  <2>4. CASE Abandon
    BY <2>4 DEF Abandon, RatchetTypeOK, Tidy
  <2>5. CASE UNCHANGED ratchetVars
    BY <2>5 DEF ratchetVars, RatchetTypeOK, Tidy
  <2> QED
    BY <2>1, <2>2, <2>3, <2>4, <2>5 DEF RatchetNext
<1> QED
  BY <1>1, <1>2, PTL DEF RatchetSpec

\* Every variable keeps its type.
THEOREM RatchetTypeCorrect == RatchetSpec => []RatchetTypeOK
BY RatchetInvariant, PTL DEF RatchetIInv

\* While the baseline names anything, what the sweep sees and no record covers is in
\* a baseline whose landing the trust guard announced, for any library and any
\* sequence of edits, sweeps, relaxations and landings.
THEOREM BacklogIsAccepted == RatchetSpec => []BacklogAccepted
BY RatchetInvariant, PTL DEF RatchetIInv

\* And so is everything the sweep sees on main that depends on a forbidden axiom.
THEOREM TaintIsAccepted == RatchetSpec => []TaintAccepted
BY RatchetInvariant, PTL DEF RatchetIInv

\* No number of unannounced landings takes a library's backlog past the ceiling that
\* was last announced, though each is judged by its own copy of it.
THEOREM CeilingsHold == RatchetSpec => []CeilingHolds
BY RatchetInvariant, PTL DEF RatchetIInv
=============================================================================
