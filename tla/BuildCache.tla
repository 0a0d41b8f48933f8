----------------------------- MODULE BuildCache -----------------------------
(***************************************************************************)
(* The .lake/build cache: .github/workflows/cache-warm.yml writes it on    *)
(* every merge, the hosted lane of .github/workflows/ci.yml restores it,   *)
(* and both lanes of CI then judge what the directory says exists.         *)
(*                                                                         *)
(* Two hazards meet here.  lake rebuilds what is out of date and never     *)
(* deletes what is gone, so a directory inherited from another tree (a     *)
(* cache of main, the Mac's own from its last job, or one a cancelled job  *)
(* left half-way) holds artifacts of modules this tree does not have.  And *)
(* the writer must finish, and finish last for the newest main, although   *)
(* merges arrive faster than it builds.                                    *)
(*                                                                         *)
(* lake, the runners and GitHub's cache and concurrency groups are         *)
(* external: modelled from what the workflows say and rely on.  What is    *)
(* saved on a branch stays there: main never restores it, and a branch, or *)
(* a pull request stacked on one, may.                                     *)
(***************************************************************************)
CONSTANTS
  Modules,   \* the Lean modules under DerivedAlgGeo/
  Versions,  \* what the source of a module can be
  Pins,      \* the values of hashFiles('lean-toolchain', 'lake-manifest.json')
  Trees,     \* the trees people push: [pin, src]
  None       \* no source, or no artifact

Source   == [Modules -> Versions \cup {None}]
Artifact == (Pins \X Versions) \cup {None}
Output   == [Modules -> Artifact]    \* a .lake/build

ASSUME TreesAssumption ==
  /\ None \notin Versions /\ None \notin Pins \X Versions
  /\ Trees \subseteq [pin : Pins, src : Source]

VARIABLES
  main,     \* the tree main points at
  pending,  \* the warm run GitHub holds back in the group: none, or one
  warm,     \* the warm run: its phase, its ref, and the tree it is on while it runs
  cache,    \* cache[k]: what main restores by the prefix of pin k, its newest save
  job,      \* the CI build job
  dir       \* dir[d]: the .lake/build of a hosted CI runner, of the Mac, of the warm run

vars == <<main, pending, warm, cache, job, dir>>

Refs  == {"main", "branch"}
Dirs  == {"hosted", "mac", "warm"}
Bare  == [m \in Modules |-> None]
Ended == {"idle", "saved", "failed"}

TypeOK ==
  /\ main \in Trees
  /\ pending \subseteq [ref : Refs, tree : Trees]
  /\ warm \in [phase : Ended, ref : Refs, tree : {None}]
              \cup [phase : {"started", "building"}, ref : Refs, tree : Trees]
  /\ cache \in [Pins -> Output]
  /\ job \in [phase : {"idle", "started", "restored", "pruned", "built"},
              lane : {"hosted", "mac"}, tree : Trees]
  /\ dir \in [Dirs -> Output]

\* The artifact lake wants for module m of tree t: its trace covers the toolchain.
MutNoPin(t, m) == t.src[m]
Wanted(t, m) == IF t.src[m] = None THEN None ELSE <<t.pin, t.src[m]>>

\* Every module of t has an artifact that is up to date.
Covers(out, t) == \A m \in Modules : t.src[m] # None => out[m] = Wanted(t, m)

\* What a restore by the prefix of pin k may find on a ref: main's newest save, or, beside
\* main, one of the branch: a tree of that pin, and leftovers of others.
OfPin(k) == {t \in Trees : t.pin = k}
Restored(ref, k) ==
  {cache[k]} \cup
  {out \in [Modules -> ({k} \X Versions) \cup {None}] :
     /\ ref # "main" /\ \E t \in OfPin(k) : Covers(out, t)
     /\ \A m \in Modules : \E t \in OfPin(k) : out[m] = Wanted(t, m)}

\* lake builds one module that is out of date; nothing else of the directory moves.
Lake(d, t, m) ==
  /\ t.src[m] # None /\ dir[d][m] # Wanted(t, m)
  /\ dir' = [dir EXCEPT ![d][m] = Wanted(t, m)]

-----------------------------------------------------------------------------
(* Cache warm.                                                             *)

\* A push to main, or somebody dispatching the workflow on main or on a branch, queues a
\* run of what the ref is then.  The group, one for all refs, holds one run back: the
\* newest, in the place of an older one.
MutKeepPending(ref, t) == pending' = IF pending = {} THEN {[ref |-> ref, tree |-> t]} ELSE pending
Queue(ref, t) == pending' = {[ref |-> ref, tree |-> t]}

\* The push of a merge.  The run in progress is left alone.
MutCancel(t) ==
  /\ t # main /\ main' = t /\ Queue("main", t)
  /\ warm' = IF warm.phase \in Ended THEN warm ELSE [warm EXCEPT !.phase = "idle", !.tree = None]
  /\ UNCHANGED <<cache, job, dir>>
Push(t) ==
  /\ t # main /\ main' = t /\ Queue("main", t)
  /\ UNCHANGED <<warm, cache, job, dir>>

Dispatch ==
  /\ Queue("main", main) \/ \E t \in Trees : Queue("branch", t)
  /\ UNCHANGED <<main, warm, cache, job, dir>>

WarmStart ==
  /\ warm.phase \in Ended
  /\ \E p \in pending : warm' = [phase |-> "started", ref |-> p.ref, tree |-> p.tree]
  /\ pending' = {}
  /\ UNCHANGED <<main, cache, job, dir>>

\* Restore previous build output.
WarmRestore ==
  /\ warm.phase = "started"
  /\ warm' = [warm EXCEPT !.phase = "building"]
  /\ \E out \in Restored(warm.ref, warm.tree.pin) : dir' = [dir EXCEPT !["warm"] = out]
  /\ UNCHANGED <<main, pending, cache, job>>

WarmBuild(m) ==
  /\ warm.phase = "building"
  /\ Lake("warm", warm.tree, m)
  /\ UNCHANGED <<main, pending, warm, cache, job>>

\* The build steps are over, whether or not they built all they claim.  A partial
\* tree is refused: --no-build fails on any target that is not up to date.
WarmEnd ==
  /\ warm.phase = "building"
  /\ IF Covers(dir["warm"], warm.tree)
     THEN /\ warm' = [warm EXCEPT !.phase = "saved", !.tree = None]
          /\ cache' = IF warm.ref = "main"
                      THEN [cache EXCEPT ![warm.tree.pin] = dir["warm"]] ELSE cache
     ELSE /\ warm' = [warm EXCEPT !.phase = "failed", !.tree = None]
          /\ UNCHANGED cache
  /\ dir' = [dir EXCEPT !["warm"] = Bare]    \* the runner is thrown away
  /\ UNCHANGED <<main, pending, job>>

WarmStep == WarmStart \/ WarmRestore \/ (\E m \in Modules : WarmBuild(m)) \/ WarmEnd

-----------------------------------------------------------------------------
(* The build job of CI.                                                    *)

\* A job starts on some tree, on a fresh hosted runner or in the directory the Mac
\* keeps.  A newer push to its ref cancels the one in progress, wherever it is.
JobStart(t, lane) ==
  /\ job' = [phase |-> "started", lane |-> lane, tree |-> t]
  /\ dir' = [dir EXCEPT !["hosted"] = Bare]
  /\ UNCHANGED <<main, pending, warm, cache>>

\* Restore build output: if runner.os == 'Linux'.
JobRestore ==
  /\ job.phase = "started"
  /\ job' = [job EXCEPT !.phase = "restored"]
  /\ IF job.lane = "hosted"
     THEN \E out \in Restored("branch", job.tree.pin) : dir' = [dir EXCEPT !["hosted"] = out]
     ELSE UNCHANGED dir
  /\ UNCHANGED <<main, pending, warm, cache>>

\* Prune orphaned build artifacts, on both lanes.
MutPruneHosted ==
  /\ job.phase = "restored"
  /\ job' = [job EXCEPT !.phase = "pruned"]
  /\ dir' = IF job.lane = "hosted"
            THEN [dir EXCEPT !["hosted"] =
                    [m \in Modules |-> IF job.tree.src[m] = None THEN None ELSE @[m]]]
            ELSE dir
  /\ UNCHANGED <<main, pending, warm, cache>>
JobPrune ==
  /\ job.phase = "restored"
  /\ job' = [job EXCEPT !.phase = "pruned"]
  /\ dir' = [dir EXCEPT ![job.lane] =
               [m \in Modules |-> IF job.tree.src[m] = None THEN None ELSE @[m]]]
  /\ UNCHANGED <<main, pending, warm, cache>>

JobBuild(m) ==
  /\ job.phase = "pruned"
  /\ Lake(job.lane, job.tree, m)
  /\ UNCHANGED <<main, pending, warm, cache, job>>

JobBuilt ==
  /\ job.phase = "pruned" /\ Covers(dir[job.lane], job.tree)
  /\ job' = [job EXCEPT !.phase = "built"]
  /\ UNCHANGED <<main, pending, warm, cache, dir>>

JobStep ==
  \/ \E t \in Trees, lane \in {"hosted", "mac"} : JobStart(t, lane)
  \/ JobRestore \/ JobPrune \/ (\E m \in Modules : JobBuild(m)) \/ JobBuilt

-----------------------------------------------------------------------------

Init ==
  /\ main \in Trees
  /\ pending = {} /\ warm = [phase |-> "idle", ref |-> "main", tree |-> None]
  /\ cache = [k \in Pins |-> Bare]    \* a restore that misses brings nothing
  /\ job = [phase |-> "idle", lane |-> "hosted", tree |-> main]
  /\ dir = [d \in Dirs |-> Bare]

Next == (\E t \in Trees : Push(t)) \/ Dispatch \/ WarmStep \/ JobStep

\* A queued warm run starts and a started one ends, by itself or at its time limit.
Spec == Init /\ [][Next]_vars /\ WF_vars(WarmStep)

-----------------------------------------------------------------------------
(* Properties.                                                             *)

\* When the build is done, the directory that `mfc check-ilean-coverage` takes for
\* the list of what exists is exactly the tree: nothing stale, and no artifact left
\* by a cache of main, by an earlier job on the Mac or by one that was cancelled.
BuiltIsExact ==
  job.phase = "built" =>
    dir[job.lane] = [m \in Modules |-> Wanted(job.tree, m)]

\* However merges and manual runs came in, when the last warm run was main's and has saved,
\* and none is held back, a restore for main's pins finds every module of main up to date.
Settled       == pending = {} /\ warm.phase = "saved"
SettledIsWarm == Settled /\ warm.ref = "main" => Covers(cache[main.pin], main)

\* False of the workflow, whose group is not "keyed on `github.ref` because this only ever
\* runs for `main`": a manual run on a branch takes the place of the one main waits for.
BranchLeavesWarm == Settled => Covers(cache[main.pin], main)

\* "its whole value is finishing": a warm run that has started ends by itself,
\* however fast main moves.
WarmFinishes == (warm.phase = "building") ~> (warm.phase \in {"saved", "failed"})
=============================================================================
