# TLA+ for the gates of derived-alg-geo

The library of this repository is mathematics, and Lean checks it. What Lean does not
check is the machinery around it: the scripts, workflows and ratchets that decide what
may land, what counts as audited, what a build directory is trusted to say, and what an
unattended loop works on next. These modules model that machinery, TLC checks them on
small instances, and TLAPS proves their safety properties for every instance. Paths below
are relative to the repository.

## 1. Inventory

| component | code | state | operations | what makes it hard |
|---|---|---|---|---|
| landing queue | `scripts/pr_queue.py` | none of its own; verdict comments on GitHub | snapshot, classify, sort, stop | everything moves between the snapshot and the verdict; crashes |
| trust guard | `.github/workflows/trust-guard.yml` | the check on each commit | fire, start, cancel, fetch, judge | labels and files are read at different moments; cancellation |
| audit ratchet | `check_audit.py`, `check_audit_complete.py`, `EnumDecls.lean`, `audit_missing_baseline.txt` | ceilings, baseline and records, all in the tree | audit, sweep, compare, `--relax` | the measure lies in the tree that is measured; truncated transcripts |
| build cache | `cache-warm.yml`, `ci.yml` | `.lake/build` directories and their saves | restore, prune, build, save | lake never deletes; runs queue, replace and cancel each other |
| subject layering | `scripts/check_layering.py` | none | scan imports, find a cycle, judge | a depth-first search with two early returns; files outside the graph |
| roadmap check | `scripts/check_roadmap.py` | none | two fetches, seven rules | the tracker moves between the fetches; rules that rely on each other |
| gate runner | `scripts/gates.sh` | a scratch directory, the failures so far | run every gate, keep or remove the directory | two runs on one host; a tree edited during a run; a verdict on the disk for what is in git; a git that fails without a word |
| nolints ratchet | `check_nolints.py`, `nolints.json` | the list, in the tree | count, compare with `origin/main` | `origin/main` moves between the comparison and the landing |
| CI workflow | `.github/workflows/ci.yml` | job results, concurrency groups | build, audit, attest, aggregate | two events for one head; cancelled and lost jobs become one check; a queue that waits for it |
| documentation site | `.github/workflows/docs.yml` | the published site | skip or build, deploy | an age against a schedule; commits that land after they are made; builds that overlap |
| comment lexers | `check_explicit_numerical_data.py`, `check_mathlib_style.py` | none | take out comments and strings, match | nesting, escapes, quotes in comments, files that break off; two lexers for one language |
| source gates | `check_source_independence.py`, `check_foundation_import_boundary.py`, `check_coherent_families.py` | none | walk, match | what is walked is the disk, not git; nested checkouts |
| registry checks | `check_coverage_map.py`, `check_pin.py` | none | compare | one fact recorded in four files |
| emission | `exe/Emit.lean`, `exe/Restate.lean`, `check_emission_coverage.py` | none | walk the environment, compare with git | a module nobody imports is seen by nobody |
| workflow validity | `scripts/check_workflows.sh` | none | call actionlint | |
| Lean library | `DerivedAlgGeo/` | | | checked by Lean |

How they meet. A pull request is edited; `gates.sh` judges it before the push and CI
after it, in a build directory restored from the build cache. The trust guard is red on a
pull request that changes a gate or a measure until a human labels it. It is no required
check (`ci` is the only one, `trust-guard.yml:4`), so it holds nothing up; what the audit
ratchet, whose ceilings lie in the tree it judges, has of it is that no measure moves
unannounced. The landing queue names the pull request an unattended loop gates and reviews
next; a human queues it; the merge queue runs CI on the tree that lands; the push to main
starts the warm run that writes the cache the next job restores, and the night's run
documents what has landed.

What makes each correct:

- landing queue: a pull request shown as done was gated at this head; builds are bounded by
  what disturbs the loop; a stack is worked from the base; the loop comes to rest.
- trust guard: the check that remains is about the labels and files that remain.
- audit ratchet: whatever the sweep sees land without an audit record, or on a forbidden
  axiom, is in a baseline that the trust guard announced.
- build cache: a finished build directory is exactly its tree; the newest main is warm.
- layering: the cycle search is exact; a pass rules out every upward chain of imports.
- roadmap: what a pass says holds across rules, and of what moved during the check.
- gate runner and the gates it runs: exit 0 over a clean tree is a branch that may be
  pushed, gate by gate; exit 1 has its reason in the run's own tree.
- merge queue, CI and the nolints ratchet: main moves only to trees that every gate judged
  as a whole; no exception gets on the list that was not on it at first; nothing waits for ever.
- documentation site: no run on main takes it back; on a smooth night, a day and a build behind
  at most.
- lexers: what is taken out is exactly the comments and strings, in place; the two agree.

## 2. The modules

Each component has a specification `M` and an instance `MCM` with its `.cfg` files. The
proofs about it are in `MProofs`, but those of TrustGuard and AuditRatchet, which depend on
each other, are in `TrustProofs`, and those of BuildCache and Docs, two workflows, in
`WorkflowProofs`. Gates rests on two modules of judgments without state, Sources and
Registry; MergeQueue implements the abstract Landing. The operators named `Mut...`
before a definition are what a plausible bug would make of it; nothing refers to them. They
show that the properties below are about the code: with the mutant in place TLC finds the
property violated.

**LandingQueue.** `Rollup`, `Classify`, `AlreadyLanded`, `IsBootstrap` and `Before` are the
script's functions on one snapshot, `Heads` says which row is first of those it sorts. The
printed list has every open pull request, with a bootstrap one on top even when it is DONE
(`pr_queue.py:162`). The loop takes the first row that is work (`IsTop`): the script counts DONE
and SKIP as no work (line 185) and lists the DONE apart, as "waiting on a merge" (lines 189-191).
That a DONE row may be the top one all the same contradicts line 22; see section 4. `Wake` and `Stop` are
its two exit codes. The
loop that calls it (`Checkout`, `Rework`, `Gate`, `PostVerdict`, `Abandon`, `Crash`), GitHub
(`Report`, `ComputeMergeable`) and people (`Push`, `Merge`, `Discuss`, ...) are not in the
repository and are modelled from what the script reads and says of them. A commit is a
number, a branch is a set of slices of work, so that landing a base shrinks what the tip
above it adds.

**TrustGuard.** One pull request and its concurrency group. `Fire` puts the payload (head
and labels of that moment) in the queue, `Deliver` starts a job and cancels the one in
progress, `Fetch` reads the file list as it is now, `Judge` concludes on the payload's
commit, `Fail` is an API error or the time limit.

**AuditRatchet.** A tree is its declarations, those on a forbidden axiom, the records, the
baseline and the ceilings. `CheckAudit` and `CheckComplete` are the two scripts, `AuditLane`
adds what Lean does with a record of nothing and with a run that dies, `Relax` is `--relax`
on the last `Sweep`, which may be older than the tree. The sweep does not see what EnumDecls.lean
filters (`Hidden`: names that look generated, kinds it does not print, modules it does not
import); `Swept` is what is left. `Land` asks for the required gates and nothing else, and lands
one pull request at a time, which is what the merge queue provides. Where it changes what the
trust guard looks at (`Surface`), the guard is green because a human put the label on, or a
maintainer merged over its red check; either way the change was announced, and the histories
`accepted` and `granted` collect the backlog and the ceilings that were.

**BuildCache.** `Queue`, `WarmStart`, ..., `WarmEnd` are cache-warm.yml, `JobStart`, ...,
`JobBuilt` the build job of ci.yml on its hosted and Mac lanes. An artifact is the source
version and the toolchain pin it was built with. A job may be cancelled at any step by
`JobStart` of the next, and leaves the Mac's directory as it is. `Dispatch` starts a warm run by
hand, on main or on a branch. What a run saves on a branch is restored there and above, never by
main; so `cache` is main's, and beside main `Restored` may also bring any save that a tree with
the pin could have left.

**Layering.** `Scan` builds the graph, `Root`, `Descend`, `Pass`, `Close`, `Return` and
`Exhausted` are the branches of `find_cycle` and its inner `visit`, with Python's call stack
as `stack` and `left`; `Judge` is the rest of `main`. `sorted` is left out: any order is
allowed, so what holds does not depend on it.

**Roadmap.** `RM01` to `RM07` are the rules, on a roadmap and a reading of the tracker.
`LoadItems`, `FetchIssues`, `FetchOpenMilestones` and `Judge` are the phases of `main`,
`CannotLook` its four returns through `not_run`. `Move` is what people do to the tracker at
any moment, and the history `held` keeps what has been so since the first fetch.

**Lexer.** One file through both lexers, in the order of `gates.sh`; a step is one turn of a
loop. `StyleOpen`, `StyleClose`, `StyleKeep` and `StyleNextLine` are `code_only`, a line at a
time after `strip_string_literals`; `OpenBlock` to `Finish` are the branches of
`code_without_comments_or_strings`. A character is itself where a lexer looks at it and
`Other` elsewhere. The reference is **Grammar**: the part of Lean's lexical grammar that decides
what is comment and what is string, by descent, without depth or flags: nested block comments,
line comments, strings with escapes, raw strings with any number of hashes (`RawOpens`, `RawEnd`)
and character literals of a quote (`Literal`). `BlockEnds` says where a comment ends, `Cuts` where
segments begin, `Prose` which characters are comment or string. Neither lexer knows a raw string
or a quote in a character literal; `Ordinary` are the files without, `Tame` those whose strings,
besides, close on their lines and whose block comments quote nothing. `Words` is what a gate can
find a word in, and `Joined` puts the lines of `code_only` behind each other again. Left out of the
grammar are interpolated strings, names between French quotes, and a comment opened and closed by
three characters (`/-/`).

**Landing** and **MergeQueue.** Landing is the promise: main moves to larger trees that the
gates accept as a whole, with no list entry that was not there at first. MergeQueue shows how it
is kept. `Fire` starts the run of an event and cancels the others of its `Group`; `Start` checks
out, and sees `origin/main` as it is at that moment; `Conclude` is the job `build` with
`NolintsHold` (check_nolints.py) in it; `Aggregate` is the job `ci`, over success, failure
and what `Fault` and cancellation leave. `Push`, `Enqueue`, `Build`, `Land` and `Eject` are
GitHub's merge queue, from what ci.yml says and needs of it: a branch per queued pull request,
built on the one before. A pull request's branch is the commit of main it left, the heads it
stands on and its own, each with the list at that commit (`branch`, `Stems`); a push may put any
change of `Diffs` on top, whatever main's list has become. `Merge` merges the list as git does,
three-way from the last commit the two sides share (`Base`). The refinement maps `main` to `main`;
everything else is hidden.

**Sources**, **Registry** and **Gates.** A checkout has three trees, in head, index and work.
Sources says what the gates over source text make of one: what the sweep's root reaches and
the emitter writes (`Emission`), what git has (`Tracked`), what a walk of the disk finds
(`Walked`), what may not be on it (`SourceIndependent`, `LakeIndependent`), and which lines the
style gate judges (`Touched`, of head) and finds fault with (`Findings`, of work). Registry is
check_pin.py (`PinHolds`), check_coverage_map.py (`MapHolds`, each map by the vocabulary and the
version it declares itself) and check_coherent_families.py (`FamiliesHold`). Gates runs them in
the order of gates.sh, each on the tree as it is when its turn comes: `Write` and `Judge` are the
two halves of a gate with a transcript, `Style` the style gate, `Check` any other, `Starve` a gate
that fails because its log cannot be made or git does not answer the coverage check, `Finish` and
`Interrupt` the two ends of the scratch directory; where `Begin` gets none the run is refused.
`Edit`, `Add` and `Commit` are what people do meanwhile. A run remembers whether anyone changed
its tree (`steady`) and whether git and the host did what they were asked (`served`). Gates with
modules of their own, and Lean's, appear by which lines they catch. `Faulty` collects the reasons
a tree may have for a gate to fail. Of `exe/` the gate of executables looks at `exe/*.lean`
(`gates.sh:139`), in the directory itself.

What the style gate asks git, git may fail to answer, and the scripts go on: of the changed files
the list is then shorter, or empty, and an empty one is a pass (`gates.sh:149-160`); of the changed
lines, every line is judged (`check_mathlib_style.py:315-316`). `Questions` are the three,
`ChangedFiles` and `Touched` what comes of each. A diff keeps as many lines in their order as can
be kept (`Diffs`, which tells more than one way where there is more than one), and what it does not
keep is touched; so a line that is moved, or repeated, is touched. git's heuristics for long
files with much-repeated lines may keep fewer; more lines are touched then, so what a pass says
is true all the more, but what `FailIsDeserved` says is of the plain diff. A file that
base has not may be compared with one it is renamed from, or be new: which of the two, of texts
that are not the same, is left open, since git decides it by a likeness of 20 %.

**Docs.** `Schedule`, `SiteDispatch` and `BranchDispatch` put a run in the group, of main or, by
hand, of any branch (`docs.yml:15` names none); `Proceed` and `Skip` are the job `check`, `Build` and
`Deploy` the other two, `Fault` a job that fails or runs out of time. Of a branch only the last
commit of main that it has is told. Commits are made (`Make`, the date git shows) before they land
(`Land`, in `landed`). `smooth` remembers whether an event or a check came late, a job failed, a
run was of a branch, or a commit was in the queue at 04:17.

## 3. The runs

| run | asks | instance |
|---|---|---|
| `landing_queue` | `DoneSound`, `BuildsBounded`, `WorkBounded`, `VerdictStands`, `StackOrder`, `Quiesces` | three pull requests: a tip with the lower number, its base, and one that clashes with them and changes the loop's machinery; one check; two commits with equal prefixes; one disturbance |
| `trust_guard` | `SettledAgrees`, `HeadIsJudged` | a guarded path, an audit record, the label; three acts of people |
| `audit_ratchet` | `BacklogAccepted`, `TaintAccepted`, `CeilingHolds` | two names of a split library, one of a one-file library, one nowhere, and one that the sweep does not see; three edits |
| `build_cache` | `BuiltIsExact`, `SettledIsWarm`, `WarmFinishes` | two modules, two versions, two pins, three trees; warm runs by hand on main and on branches; no bound on the number of steps |
| `layering` | `SearchIsExact`, `CycleIsReal`, `NothingClimbs`, `Terminates` | all 4096 graphs on four subjects; all trees of two subjects and a root file, with and without its directory |
| `roadmap` | `OneHome`, `PlanMeetsProgress`, `StayedIsSeen` | 37 roadmaps, five starting trackers, one move at any moment |
| `lexer` | `Aligned`, `NoProseLeft`, `ErasesByGrammar`, `GatesAgree`, `Terminates` | all files of up to five of the tokens `/-`, `-/`, `--`, quote, backslash, end of line, other; and of up to three with raw strings, hashes and character literals besides |
| `merge_queue` | `OnlyJudgedLands` (Landing's `Spec`), `NothingNew`, `QueueMoves`, `HeadIsJudged` | two pull requests, one of an agent, each on main or on the other; three heads, green alone and not all together; slices that retire the entry main has, put it back or swap it for one main has not; one run lost |
| `nolints` | finds `ListNeverGrows` violated | the same |
| `gates` | `PassIsDeserved`, `FailIsDeserved` | two trees, one of them with a sorry in it; a run in each, of both modes in the one that is edited; a git that answers any of the questions or none; nine drafts: a bad line, the old line moved, or repeated, a rename, a module nobody imports, a sorry in an executable, a nested checkout, a dependency moved in two of four files, a claim promoted without its owner; one edit, any additions and commits |
| `gates_dirty` | finds `PassIsPushable` violated | one run, two edits, of the nine drafts and seven more: the old text again, a missing docstring, a sorry below `exe/`, a dependency moved everywhere, a claim promoted with its owner, a new version of the paper, a retired name in the lakefile |
| `docs` | `NeverOlder`, `AtMostADayBehind` | days of four ticks, two commits, two runs by hand on main or on a branch, one failure |

`TypeOK` (`SiteTypeOK` in Docs) is checked by the runs of LandingQueue, TrustGuard,
BuildCache, Lexer, Gates and Docs. That of AuditRatchet (`RatchetTypeOK`), Layering, Roadmap
and MergeQueue is proved, and not checked again.

Bounds. `MaxDisturb`, `MaxActs`, `MaxEdits` and `MaxMoves` bound what people (and crashes)
do in a behaviour; what the code does is not bounded. The smallest interesting stories fit:
a push between snapshot and checkout, a crash before the verdict, a label put on and taken
off while a job runs, a sweep, an edit and a `--relax` on the stale sweep, an issue reopened
between two fetches, a comment in a comment with code behind it, an escaped quote; two pull
requests in the queue, the first ejected or pushed to while the second is built on it, and an
entry retired by a branch while one on top of it that brings it back is judged; a draft that is
edited, added and committed in any order and at any gate of a run, which git answers or not. `MaxHead` and `MaxFaults`, and the
bounds of Docs, are of that kind. Where section 5 lists a proof the property holds for every
value of these bounds.
`CHECK_DEADLOCK FALSE` appears where the system may stop: no more acts and nothing in
flight (TrustGuard, MergeQueue, AuditRatchet), and the scripts, which end (Layering, Roadmap,
Lexer, Gates).

Fairness. `WF(LoopStep)`: the loop is woken on a timer and its iterations take steps by
themselves; nobody owes it a merge or a CI result. `WF(Job)`: GitHub delivers the events it
has queued, and a job ends at its ten-minute limit at the latest. `WF(WarmStep)`: a queued
run starts when the group is free, and a run ends, by itself or at its limit of 90 minutes.
`WF(Next)` of Layering and Lexer: a script that is called runs. `WF(Fire)` and `WF(Job)` of
each run in MergeQueue: GitHub delivers an event, and a job that has started ends, by itself or
at its limit; `WF(Land \/ Build(1) \/ Eject(1))`: GitHub works on the head of its queue. People
owe nothing: `Push` and `Enqueue` have no fairness. AuditRatchet, Roadmap, Gates and Docs state
none and have no liveness property: time in Docs passes or does not, and what is claimed is
bounded by a day and the longest build.

## 4. What does not hold

Two runs find a sentence of the repository violated.

- **The pre-push gate reads the disk** (`gates_dirty`, `PassIsPushable`).
  `check_mathlib_style.py` takes its text from the working tree (line 369) and its line numbers
  from `origin/main...HEAD` (line 312). A bad line that is committed, and mended or only moved
  in the working tree, passes; the push sends it; and ci.yml has no style gate. `PassIsDeserved`
  says that with nothing uncommitted the verdict is right.
- **The list of exceptions can grow** (`nolints`, `ListNeverGrows`). check_nolints.py compares a
  list with `origin/main` as its job finds it (line 97), not with the list it will land on. One
  branch retires an entry, another stands on it and puts the entry back; the queue builds both,
  and the second's run, which finds main with the entry still, passes; the first lands, the second
  puts the entry back on main. "The list may shrink, never grow" (`check_nolints.py:10-11`) is of
  what main had at some time: `NothingNew` says that nothing gets on the list that was never on it.

Fourteen more properties are stated in their modules and are false; no run asks for them. To see
the counterexample, name one as a PROPERTY (or INVARIANT) of its module's `.cfg` (of Gates:
`MCGatesDirty.cfg`).

- **A gated bootstrap pull request stays on top** (`DoneSortsLast` of LandingQueue). The docstring
  says that DONE "sorts last so the loop moves on" (`pr_queue.py:22`; line 24 has BOOTSTRAP ahead of
  every state). The sort key puts bootstrap before the state (line 162), so a DONE bootstrap pull
  request heads the list under which "Land top-down" is printed. A loop that took the top row for
  its next work would gate it again at every wakeup; `BuildsBounded` is of one that passes over the
  rows that are no work.
- **A verdict hides a conflict** (`BlockedCanMove` of LandingQueue). `classify` answers DONE
  before it looks at mergeability (`pr_queue.py:107`). Two gated pull requests that change one
  file: a human merges the first, the second conflicts, and the loop stops with "No iteration
  can make progress until some of these merge", when a rebase is what would.
- **A label outlives what it was put on** (`PassIsVetted` of TrustGuard). After
  `trust-reviewed`, a further push to the trust surface passes with "a human accepted these
  changes" (`trust-guard.yml:155-157`).
- **A record can be deleted again** (`RecordDeletionCaught` of AuditRatchet). Auditing a backlog
  declaration leaves its baseline line and a unit of slack under the ceiling; deleting its record
  later, from a slice, fails neither check and is not announced, though `trust-guard.yml:103-106`
  says it fails both.
- **The sweep does not see every declaration** (`EveryDeclarationCounted` of AuditRatchet). It is to
  "print every public declaration" (`EnumDecls.lean:1`); a name that contains `match_` or `.eq_`
  (lines 26-43), an axiom or an opaque (line 89), and what none of the imported modules reaches
  (lines 18-22) is not printed, and lands without record or baseline.
- **A manual run can leave main cold** (`BranchLeavesWarm` of BuildCache). The group is not keyed on
  the ref "because this only ever runs for `main`" (`cache-warm.yml:31`), but `workflow_dispatch`
  has no branch filter: a run of a branch takes the place of the one main waits for, and nothing
  starts that again. `SettledIsWarm` is of a last run that was main's.
- **Prefixed imports are not edges** (`EveryImportJudged` of Layering). `public import` and
  `import all` are not matched as imports of their target (`check_layering.py:20`); no file uses
  them now.
- **Raw strings and quoted quotes** (`ErasesAlways` of Grammar). Neither lexer knows `r"..."`,
  where a backslash escapes nothing, nor the character literal of a quote, which opens no string;
  behind one, the numerical-data gate takes code for string and string for code
  (`check_explicit_numerical_data.py:50-75`), up to the end of the file. `ErasesByGrammar` and
  `GatesAgree` are of files without (`Ordinary`).
- **A string gap loses its line** (`NewlinesKept` of Lexer). A backslash in a string takes the
  next character with it, and that may be an end of line
  (`check_explicit_numerical_data.py:53`), so a finding below is reported on too small a line. The
  library has such strings (`.../Mass/Subadditivity/Triangle/Consequences.lean:190`). `Aligned`
  says that this is the only way a line is lost.
- **A branch on the site** (`NeverBack` of Docs). The workflow may be run on any branch
  (`docs.yml:15`), and what it deploys is then that branch's site, older than main's.
  `NeverOlder` is of the runs on main.
- **Published, says the notice** (`NoticeIsTrue` of Docs). The age that docs.yml tests is of the
  head's committer date, and a commit of the merge queue is made before it lands. A commit that
  was in the queue at 04:17 is a day old at the next 04:17, when that schedule skips it with "the
  published docs are current" (`docs.yml:45-51`); so does the night after one whose build failed.
  Nothing builds it then until another commit lands or somebody asks. `AtMostADayBehind` says what
  is true of the sentence in `docs.yml:6`: a day and the time of a build, where none of this happens.
- **A gate that was not looked at** (`PassIsJudged` of Gates). Where git cannot diff against
  `origin/main`, the list of changed files is empty, and `[ -z "$files" ] && return 0` passes
  (`gates.sh:159-160`): exit 0, with the branch's lines unread.
- **A sorry below exe/** (`NoSorryBelowExe` of Gates). The coverage check leaves out `exe/` at any
  depth (`check_emission_coverage.py:50`) because its files are elaborated one by one; the loop that
  does takes `exe/*.lean` (`gates.sh:139`). There is no directory in `exe/` now.
- **Lines that were only moved** (`FailIsWritten` of Gates). The style gate is to "judge the lines
  this branch wrote, not the pre-existing debt" (`gates.sh:161`). A line that broke a rule before,
  and is moved or repeated, is in a hunk of the diff (`check_mathlib_style.py:321-326`) and fails.
  `FailIsDeserved` counts such a line as a reason.

Met while reading, and not modelled as properties:

- `if not relax and baseline` (`check_audit_complete.py:203`) is false of an empty file, which is
  why `BacklogAccepted` and `TaintAccepted` are stated for a baseline that names something.
- `check_roadmap.py` takes issue states from its first fetch and milestone states from its
  second, which is why `StayedIsSeen` speaks of what stayed put.
- `gates.sh:6-11` says every gate but `workflows` runs in ci.yml; `mathlib-style` does not. The
  coverage gate reads one map locally and every `registry/coverage-*.json` in CI.
- `check_emission_coverage.py:43-46` leaves `scripts/` out because CI elaborates it and fails on
  `sorryAx`; no step elaborates `scripts/StabilityConditionCensus.lean`. `PassIsDeserved` is
  therefore of the library and of `exe/*.lean`.
- Removing a docstring adds no line, so `--diff-only` does not judge the declaration below it;
  `PassIsDeserved` is of lines the branch wrote.
- The outputs of ci.yml's step "What changed" are read by no step: every gate always runs.
- `lakefile.toml`'s own `rev` is compared with nothing; `check_pin.py` reads the manifest.

## 5. What is proved

All theorems are about `Spec` (`RatchetSpec` of AuditRatchet, `SiteSpec` of Docs), for every
value of the constants under the named assumptions of each module. They rest on no others.

| module | theorems | argument |
|---|---|---|
| `LandingQueueProofs` | `TypeCorrect`, `DoneIsSound`, `DoneIsExact`, `BuildsAreBounded`, `VerdictsStand`, `BaseBeforeTip`, `WorkIsBounded` | every marked comment quotes only gated commits, what is about to be posted is gated, the loop's builds and its pushes are counted against the disturbances, each in an invariant of its own: a build that no disturbance has paid for is of a head that has its verdict, or of the one at work |
| `TrustProofs` | TrustGuard: `TypeCorrect`, `SettledCheckAgrees` | the last event in the queue, or else the job, carries the present head and labels, and a job that has fetched with nothing queued behind it has the present files |
| | AuditRatchet: `RatchetTypeCorrect`, `BacklogIsAccepted`, `TaintIsAccepted`, `CeilingsHold` | the count check makes a passing transcript whole; the identity check puts what the sweep misses in the tree's own baseline, and the count check keeps it below the tree's own ceilings; both are main's, or announced by the change that brings them |
| `WorkflowProofs` | BuildCache: `TypeCorrect`, `BuildsAreExact`, `SettledMainIsWarm` | from the prune on a job's directory holds nothing its tree lacks; of main's runs only one of main as it is is ever held back, so a run of main with nothing behind it is on main as it is |
| | Docs: `SiteTypeCorrect`, `SiteNeverTakenBack`, `SiteDayBehind` | a run on main has a commit no older than any before it in the group, and only the first works; each commit that the site lacks landed after the last schedule, or some run of the group will build it, with that much of its time limits left |
| `LayeringProofs` | `TypeCorrect`, `SearchExact`, `CyclesAreReal`, `NothingCanClimb`, `IndexNeverRaises`, `GetsAhead` | the stack is a simple path of the active nodes; the finished nodes are closed under dependency and every set of them has one that depends on no other of the set; an owner without a rank may import no subject, so ranks never rise along imports |
| `RoadmapProofs` | `TypeCorrect`, `EachHasOneHome`, `PlanMeetsIssues`, `StayingIsSeen` | a green run has all rules on what it read; what is held since the first fetch was so at both |
| `LexerProofs` | `TypeCorrect`, `PlacesAgree`, `NoProse`, `GrammarHolds`, `SameWords`, `NeverStuck`, `GetsAhead` | each character is good where it stands in the result, whatever its neighbours; one that is kept says what its neighbour in the source is not; the lexer's depth is the number of unfinished calls of the descent, each ending where the one inside it returns, and a string goes on as long as the backslashes behind its last quote say; of a tame file the style gate, too, is where the grammar is, and its lines so far hold the words of the code so far |
| `MergeQueueProofs` | `TypeCorrect`, `NothingNewLands`, `QueueImplementsLanding` | a run that is green has judged its own tree; the tree of the queue's k-th branch is the one before it (main, for the first) with one pull request merged, and a run that looked at main and passed is of a list that has no more than main had then, which was no more than at first |
| `GatesProofs` | `GatesTypeCorrect`, `PassesDeserved`, `FailuresDeserved` | of a tree that stays as it is a gate always says the same (`Says`), as long as what its scratch directory has is the tree's own; so a run that nobody disturbed, and that git and the host served, has noted a failure only with a reason in its tree (`Faulty`), or every gate behind it said yes; the gates but that of style say it whether they were served or not; a line that base has not is in no common subsequence, and one that every diff may leave out is displaced; the coverage check finds its artifact because the emitter is behind it; and what the gates said of the disk holds of git where the two agree |

None of the properties is inductive as it stands: `IInv` of each module (`RatchetIInv`,
`GroupInv` with `Served`, and `GatesIInv` in the merged ones) is its strengthening, and each
module proves `Init => IInv`, the step, and the consequence. Acyclicity is stated as "every
nonempty set has a node with no edge into the set", which needs neither paths nor finiteness.

What the assumptions of Gates, Registry and Sources say: the three trees of a checkout map paths
to lines; git has nothing of a nested checkout (`Hidden`); the four pinned files and the map are
not in one; lake is configured by two files. What `Reach` computes is nowhere used: the theorems
hold of any emission whose `modules` are what the sweep reaches.

`GrammarHolds` is about the files that are `Ordinary`, and of these `OrdinaryIsBare` says that the
grammar cuts them where one without raw strings and literals does (`BareEnd`, `BareCuts`), about
which the rest of the proof is. These are recursive functions, of which the prover knows only the
definition, a CHOOSE. The library's induction theorems take a predicate, which its provers cannot instantiate;
`Least` and `Induct` say the same of sets of numbers, from the well-foundedness of `<`, and with
them `EndsThere` and `CutsThere` build a solution of each equation from the end of the file
backwards; `Scan` does it once for those that go forwards, `Matches` and `Flat`.

`SameWords` compares two texts that need not have a character in the same place, since `code_only`
drops what the other lexer blanks. Both are compared with a third (`Kept`): the characters of the
file that the grammar leaves, up to a place. Where the style gate is in the grammar (`AtStyle`)
has one more case than for the other lexer: inside a match of `strip_string_literals`. `KeepQuote`
is the step on which it turns: at a quote in code of a tame file the match on the line and the
string of the grammar end at the same quote, because the string closes on the line (`ClosesShift`
carries escapes over from line to file). Without `Tame` it is false: of `"x`, a string that never
closes, TLC shows that the style gate keeps the word and the other one blanks it. What `SameWords` needs of the other
lexer beyond `GrammarHolds` is that it keeps every end of line, which `EscapePlain` gets from
`Tame`.

Proved, then, is every safety invariant and every action property of the passing runs. Only
model-checked are the liveness properties (`Quiesces`, TrustGuard's and MergeQueue's
`HeadIsJudged`, `WarmFinishes`, `Terminates`, `QueueMoves`): the prover does not treat liveness
under fairness.

Of `Terminates` in Layering and Lexer the part that needs no fairness is proved for every graph
and every file. `GetsAhead` says that each step descends: one more node visited, or less left to
look at, or a shorter stack; further in the file, or further on the same line. These are bounded
by `TypeOK`, the search's for finitely many owners, so there is no infinite run of such steps.
The other half is that a step is always possible. `NeverStuck` writes out the guards of the
lexers' branches, since the prover does not treat ENABLED, and shows that one of them holds. In
Layering the guards split on whether a dependency is visited and active, which leaves only
`stack.index`, and `IndexNeverRaises` is about that. From the two halves to `Terminates` is the
step that weak fairness makes and that stays with TLC.

## 6. What is not modelled

- Of Lean's lexical grammar: interpolated strings, names between French quotes, and the comment `/-/`.
- Formatting: the tables, `--json` and messages; the parsing of transcripts, records, YAML
  and API answers is modelled by what it yields.
- Limits of API calls (200 pull requests, 1000 issues, 100 milestones) and GitHub's eviction
  of caches.
- Who may write a comment, put on a label or push; nothing here is about ill will.
- CI on a push to main and on request, which judges what has landed; a re-run of an old run;
  the attestation steps, which seal what others wrote with a tool of another repository.
- In gates.sh: whether build output is up to date (lake's business), and the default target as
  distinct from the sweep's root. In check_mathlib_style.py: the regular expressions, the
  warnings, and the hook's mode, which judges one file without a diff.
- The foundation import boundary (one fixed pattern over one directory), workflow validity (a call
  of actionlint), the emitter's walk of a Lean environment, and the library itself, which Lean
  checks.

## 7. Plan

1. Done: all modules, checked and proved.
2. Landing with AuditRatchet's promise in it: what lands without a record was accepted, through the
   queue, with several pull requests in flight.
