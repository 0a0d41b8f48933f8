----------------------------- MODULE TrustGuard -----------------------------
(***************************************************************************)
(* .github/workflows/trust-guard.yml: the check a pull request cannot      *)
(* rewrite for its own run.  A pull request that touches the trust surface *)
(* fails it until the `trust-reviewed` label is on.                        *)
(*                                                                         *)
(* The job reads the label set from the payload of the event that started  *)
(* it and the changed files live from the API, so the two can belong to    *)
(* different moments; only the events the workflow lists start a job; and  *)
(* a job is cancelled when the next event of the same pull request starts  *)
(* one.  One pull request is modelled, since the concurrency group is one  *)
(* pull request's.  GitHub delivers its events in order.                   *)
(***************************************************************************)
EXTENDS Integers, Sequences

CONSTANTS
  Paths,      \* the paths a pull request may change
  Guarded,    \* those that match one of `patterns`
  Records,    \* those that match one of `exclusions`: the audit records
  Labels,     \* the labels people put on a pull request
  MaxActs     \* bound: what people do to the pull request in a behaviour

Reviewed == "trust-reviewed"

ASSUME PathsAssumption ==
  /\ Guarded \subseteq Paths /\ Records \subseteq Paths
  /\ Reviewed \in Labels
  /\ MaxActs \in Nat

VARIABLES
  head,      \* the commit the branch points at
  diff,      \* diff[h + 1]: the files the pull request changes when its head is h
  labels,    \* the labels that are on now
  open,      \* the pull request is open
  events,    \* fired, not yet delivered: the payload of each
  run,       \* the job of this pull request's concurrency group
  status,    \* status[h + 1]: the check `trust-surface` on commit h
  vetted,    \* (history) the commits somebody put trust-reviewed on
  acts       \* (bound) what people have done so far

pr    == <<head, diff, labels, open, vetted>>
vars  == <<pr, events, run, status, acts>>

Payload    == [head : Nat, labels : SUBSET Labels]
Idle       == [phase |-> "idle", head |-> 0, labels |-> {}, files |-> {}]
Conclusion == {"success", "failure", "error", "cancelled"}
Commits    == 0..(Len(diff) - 1)

TypeOK ==
  /\ diff \in Seq(SUBSET Paths) /\ head \in Commits
  /\ labels \subseteq Labels
  /\ open \in BOOLEAN
  /\ events \in Seq(Payload)
  /\ \A i \in 1..Len(events) : events[i].head \in Commits
  /\ run \in [phase : {"idle", "started", "fetched"}, head : Commits,
              labels : SUBSET Labels, files : SUBSET Paths]
  /\ status \in Seq(Conclusion \cup {"none", "pending"}) /\ Len(status) = Len(diff)
  /\ vetted \subseteq Commits
  /\ acts \in Nat

-----------------------------------------------------------------------------
(* The workflow.                                                           *)

\* The event types that start the job.
MutNoUnlabeled == {"opened", "synchronize", "reopened", "labeled"}
MutNoSync      == {"opened", "reopened", "labeled", "unlabeled"}
Triggers == {"opened", "synchronize", "reopened", "labeled", "unlabeled"}

\* The exclusions come first: a record slice lies under scripts/ and is not surface.
Touched(files) == (files \ Records) \cap Guarded

\* An empty file list is not a pass.
Passes(files, ls) == files # {} /\ (Touched(files) = {} \/ Reviewed \in ls)

\* An event the workflow listens to carries the head and the labels of its moment.
Fire(kind) ==
  events' = IF kind \in Triggers
            THEN Append(events, [head |-> head', labels |-> labels']) ELSE events

\* The next event starts a job and cancels the one in progress.
Deliver ==
  /\ events # <<>>
  /\ LET e == Head(events)
         cancelled == IF run.phase = "idle" THEN status
                      ELSE [status EXCEPT ![run.head + 1] = "cancelled"]
     IN  /\ run' = [phase |-> "started", head |-> e.head, labels |-> e.labels, files |-> {}]
         /\ status' = [cancelled EXCEPT ![e.head + 1] = "pending"]
  /\ events' = Tail(events)
  /\ UNCHANGED <<pr, acts>>

\* The job asks the API which files the pull request changes: now, not then.
Fetch ==
  /\ run.phase = "started"
  /\ run' = [run EXCEPT !.phase = "fetched", !.files = diff[head + 1]]
  /\ UNCHANGED <<pr, events, status, acts>>

\* The API call fails, or the job meets its ten-minute limit.
Fail ==
  /\ run.phase = "started"
  /\ status' = [status EXCEPT ![run.head + 1] = "error"]
  /\ run' = Idle
  /\ UNCHANGED <<pr, events, acts>>

\* The job concludes on the commit of its event.
MutNotCleared ==
  /\ run.phase = "fetched"
  /\ run' = [run EXCEPT !.phase = "judged"]
  /\ UNCHANGED <<pr, events, status, acts>>
Judge ==
  /\ run.phase = "fetched"
  /\ status' = [status EXCEPT ![run.head + 1] =
       IF Passes(run.files, run.labels) THEN "success" ELSE "failure"]
  /\ run' = Idle
  /\ UNCHANGED <<pr, events, acts>>

Job == Deliver \/ Fetch \/ Fail \/ Judge

-----------------------------------------------------------------------------
(* What people do to the pull request.                                     *)

\* A push; GitHub fires no synchronize for a pull request that is closed.
Push(files) ==
  /\ head' = Len(diff) /\ diff' = Append(diff, files) /\ status' = Append(status, "none")
  /\ UNCHANGED <<labels, open, vetted, run>>
  /\ IF open THEN Fire("synchronize") ELSE UNCHANGED events

\* A force-push back to an earlier commit.
Restore(h) ==
  /\ open /\ h # head /\ head' = h
  /\ UNCHANGED <<diff, labels, open, vetted, run, status>>
  /\ Fire("synchronize")

AddLabel(l) ==
  /\ l \notin labels /\ labels' = labels \cup {l}
  /\ vetted' = IF l = Reviewed THEN vetted \cup {head} ELSE vetted
  /\ UNCHANGED <<head, diff, open, run, status>>
  /\ Fire("labeled")

RemoveLabel(l) ==
  /\ l \in labels /\ labels' = labels \ {l}
  /\ UNCHANGED <<head, diff, open, vetted, run, status>>
  /\ Fire("unlabeled")

Close  == open /\ open' = FALSE /\ UNCHANGED <<head, diff, labels, vetted, events, run, status>>
Reopen ==
  /\ ~open /\ open' = TRUE
  /\ UNCHANGED <<head, diff, labels, vetted, run, status>>
  /\ Fire("reopened")

People ==
  /\ acts < MaxActs /\ acts' = acts + 1
  /\ \/ \E files \in SUBSET Paths : Push(files)
     \/ \E h \in Commits : Restore(h)
     \/ \E l \in Labels : AddLabel(l) \/ RemoveLabel(l)
     \/ Close \/ Reopen

Init ==
  /\ head = 0 /\ diff \in {<<files>> : files \in SUBSET Paths}
  /\ labels = {} /\ open = TRUE /\ vetted = {}
  /\ events = <<[head |-> 0, labels |-> {}]>>     \* opened
  /\ run = Idle /\ status = <<"none">>
  /\ acts = 0

Next == Job \/ People

\* GitHub delivers what it has queued and a started job ends within its limit.
Spec == Init /\ [][Next]_vars /\ WF_vars(Job)

-----------------------------------------------------------------------------
(* Properties.                                                             *)

Settled == open /\ events = <<>> /\ run.phase = "idle"

\* Once nothing is in flight, the check on the head says what the policy says of
\* the files and the labels as they are now: a job that ran on an older payload,
\* or read the files of a newer head, never has the last word.
SettledAgrees ==
  Settled /\ status[head + 1] # "error" =>
    status[head + 1] = IF Passes(diff[head + 1], labels) THEN "success" ELSE "failure"

\* A commit is never left waiting for a check that does not come: whenever the
\* pull request is open, its head eventually carries a conclusion.
HeadIsJudged ==
  [](open => <>(~open \/ status[head + 1] \in {"success", "failure", "error"}))

\* "ok: labelled trust-reviewed -- a human accepted these changes": a settled pass
\* on trust-surface changes is one somebody labelled at this head. False, and in no
\* run: README, section 4.
PassIsVetted ==
  Settled /\ status[head + 1] = "success" /\ Touched(diff[head + 1]) # {}
    => head \in vetted
=============================================================================
