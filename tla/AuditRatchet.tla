---------------------------- MODULE AuditRatchet ----------------------------
(***************************************************************************)
(* The axiom audits and their ratchet: scripts/check_audit.py (what an     *)
(* audit run printed against what its file commands), EnumDecls.lean and   *)
(* scripts/check_audit_complete.py (what the library declares against what *)
(* the audit files list), over a tree that people edit and land.           *)
(*                                                                         *)
(* Ceilings and baseline live in the tree they judge.  The trust guard is  *)
(* red on a pull request that rewrites them, unless a human has labelled   *)
(* it, but it is no required check: a maintainer may merge over it.  What  *)
(* it provides is that no gate moves unannounced.  Pull requests land one  *)
(* at a time through the merge queue, which runs the required gates on the *)
(* tree that lands (.github/workflows/ci.yml).                             *)
(***************************************************************************)
EXTENDS Integers, FiniteSets

CONSTANTS
  Names,    \* declaration names
  Libs,     \* the keys of AUDITS
  Lib,      \* Lib[n]: what libraryOf says of the module that declares n
  Split,    \* the libraries whose records lie in <stem>/*.lean slices
  Hidden,   \* the declarations the sweep passes over: by what their names
            \* contain, by kind (an axiom, an opaque), or in no imported module
  MaxEdits  \* bound: the edits people make in a behaviour

Unclassified == "Unclassified"
Limit == Cardinality(Names)    \* no ceiling above it says anything

ASSUME NamesAssumption ==
  /\ IsFiniteSet(Names)
  /\ Unclassified \notin Libs /\ Lib \in [Names -> Libs \cup {Unclassified}]
  /\ Split \subseteq Libs /\ Hidden \subseteq Names
  /\ MaxEdits \in Nat

VARIABLES
  main,      \* the tree that has landed
  wt,        \* the tree a pull request would land
  enum,      \* the sweep last run on wt: the declarations it found
  accepted,  \* (history) the backlog names whose landing the trust guard announced
  granted,   \* (history) the ceilings whose landing it announced
  edits      \* (bound) the edits so far

ratchetVars == <<main, wt, enum, accepted, granted, edits>>

\* decl: the public declarations; bad: those that depend on an axiom outside the
\* allowlist; rec: those a #print axioms record names; based and base: the
\* baseline file, is it there and what it lists; ceil: CEILINGS.
Tree == [decl : SUBSET Names, bad : SUBSET Names, rec : SUBSET Names,
         based : BOOLEAN, base : SUBSET Names, ceil : [Libs -> Nat]]

RatchetTypeOK ==
  /\ main \in Tree /\ wt \in Tree
  /\ enum \subseteq Names
  /\ accepted \subseteq Names /\ granted \in [Libs -> Nat]
  /\ edits \in Nat

Of(l)            == {n \in Names : Lib[n] = l}
Swept(t)         == t.decl \ Hidden
Commanded(t, l)  == t.rec \cap Of(l)
Missing(t, d, l) == (d \cap Of(l)) \ t.rec
Backlog(t, d)    == UNION {Missing(t, d, l) : l \in Libs}

-----------------------------------------------------------------------------
(* The gates.                                                              *)

\* check_audit.py on a transcript of l's audit: not empty, as many reports as the
\* file issues commands, every reported declaration inside the allowlist.
MutNoCount(t, l, out) == out # {} /\ out \cap t.bad = {}
CheckAudit(t, l, out) ==
  /\ out # {}
  /\ Cardinality(out) = Cardinality(Commanded(t, l))
  /\ out \cap t.bad = {}

\* An audit lane: a record that names nothing is an elaboration error, and a run
\* that dies under memory pressure leaves some of the reports.
AuditLane(t, l) ==
  /\ Commanded(t, l) \subseteq t.decl
  /\ \E out \in SUBSET Commanded(t, l) : CheckAudit(t, l, out)

\* check_audit_complete.py on the sweep d: no module outside the buckets, every
\* library reached, no ceiling exceeded, nothing missing that the baseline lacks.
\* An empty baseline is not consulted.
MutNoIdentity(t, d) ==
  /\ d # {} /\ t.based
  /\ d \cap Of(Unclassified) = {}
  /\ \A l \in Libs :
       /\ d \cap Of(l) # {}
       /\ Cardinality(Missing(t, d, l)) <= t.ceil[l]
CheckComplete(t, d) ==
  /\ d # {} /\ t.based
  /\ d \cap Of(Unclassified) = {}
  /\ \A l \in Libs :
       /\ d \cap Of(l) # {}
       /\ Cardinality(Missing(t, d, l)) <= t.ceil[l]
       /\ t.base # {} => Missing(t, d, l) \subseteq t.base

\* What of a change the trust guard stops at, labelled or not: the baseline, the
\* ceilings, and the records of an audit that is one file with its umbrella.
MutBaselineOnly(t) == t.based # main.based \/ t.base # main.base
Surface(t) ==
  \/ t.based # main.based \/ t.base # main.base
  \/ t.ceil # main.ceil
  \/ \E l \in Libs \ Split : Commanded(t, l) # Commanded(main, l)

Green(t) == (\A l \in Libs : AuditLane(t, l)) /\ CheckComplete(t, Swept(t))

-----------------------------------------------------------------------------
(* What people do to the working copy.                                     *)

Edit(t) == wt' = t /\ UNCHANGED <<main, enum, accepted, granted>>

\* A new public declaration; it may rest on an axiom outside the allowlist.
Declare(n) ==
  /\ n \notin wt.decl
  /\ \E b \in SUBSET {n} : Edit([wt EXCEPT !.decl = @ \cup {n}, !.bad = @ \cup b])

\* Its proof is rewritten, for better or worse.
Reprove(n) ==
  /\ n \in wt.decl
  /\ Edit([wt EXCEPT !.bad = IF n \in @ THEN @ \ {n} ELSE @ \cup {n}])

\* A declaration goes, and its record stays until somebody removes that too.
Remove(n) == n \in wt.decl /\ Edit([wt EXCEPT !.decl = @ \ {n}, !.bad = @ \ {n}])

Record(n)   == n \notin wt.rec /\ Edit([wt EXCEPT !.rec = @ \cup {n}])
Unrecord(n) == n \in wt.rec /\ Edit([wt EXCEPT !.rec = @ \ {n}])

SetCeiling(l, c) == c # wt.ceil[l] /\ Edit([wt EXCEPT !.ceil[l] = c])
DropBaseline     == wt.based /\ Edit([wt EXCEPT !.based = FALSE, !.base = {}])

\* The two commands of a relaxation: the sweep, then --relax on what it wrote.
\* It writes the baseline whatever the checks said, and prints the ceilings.
Sweep ==
  /\ enum # Swept(wt) /\ enum' = Swept(wt)
  /\ UNCHANGED <<main, wt, accepted, granted, edits>>
Relax ==
  /\ enum # {}
  /\ Edit([wt EXCEPT !.based = TRUE, !.base = Backlog(wt, enum)])

\* The queue lands the pull request; the next one starts from what it landed.  Only
\* the gates of ci.yml are required.  Where the trust guard stops at the change, it
\* is because a human put the label on, or merged over the red check, that it lands.
Land ==
  /\ wt # main
  /\ Green(wt)
  /\ main' = wt
  /\ accepted' = IF Surface(wt) THEN accepted \cup wt.base ELSE accepted
  /\ granted' = IF Surface(wt) THEN wt.ceil ELSE granted
  /\ UNCHANGED <<wt, enum, edits>>

\* A pull request is given up.
Abandon ==
  /\ wt # main
  /\ wt' = main
  /\ UNCHANGED <<main, enum, accepted, granted, edits>>

Edits ==
  /\ edits < MaxEdits /\ edits' = edits + 1
  /\ \/ \E n \in Names :
          Declare(n) \/ Reprove(n) \/ Remove(n) \/ Record(n) \/ Unrecord(n)
     \/ \E l \in Libs, c \in 0..Limit : SetCeiling(l, c)
     \/ DropBaseline \/ Relax

\* The ratchet starts where it was measured: the baseline is the backlog, and each
\* ceiling its size.
RatchetInit ==
  /\ main \in {[decl |-> r \cup m, bad |-> b, rec |-> r, based |-> TRUE, base |-> m,
                ceil |-> [l \in Libs |-> Cardinality(m \cap Of(l))]] :
                 r \in SUBSET Names, m \in SUBSET Names, b \in SUBSET Names}
  /\ main.bad \subseteq main.base
  /\ main.rec \cap main.base = {} /\ main.base \cap Hidden = {}
  /\ main.decl \cap Of(Unclassified) = {}
  /\ \A l \in Libs : Commanded(main, l) # {}
  /\ wt = main /\ enum = {}
  /\ accepted = main.base /\ granted = main.ceil
  /\ edits = 0

RatchetNext == Edits \/ Sweep \/ Land \/ Abandon

RatchetSpec == RatchetInit /\ [][RatchetNext]_ratchetVars

-----------------------------------------------------------------------------
(* Properties.                                                             *)

\* "So that no gate turns itself off quietly": as long as the baseline names
\* anything, every declaration the sweep sees on main and no audit record covers is
\* in a baseline whose landing the trust guard announced.  Swaps, relaxations, stale
\* sweeps and truncated transcripts add none in silence.
BacklogAccepted ==
  main.base # {} => Swept(main) \ main.rec \subseteq accepted

\* And so is every such declaration on main that depends on a forbidden axiom.
TaintAccepted == main.base # {} => main.bad \ Hidden \subseteq accepted

\* However many unannounced pull requests land, each with ceilings of its own to be
\* judged by, no library's backlog is above the ceiling that was last announced.
CeilingHolds ==
  \A l \in Libs : Cardinality(Missing(main, Swept(main), l)) <= granted[l]

\* EnumDecls.lean: "Print every public declaration".  What the sweep does not print
\* needs no record and no baseline.  False, and in no run: README, section 4.
EveryDeclarationCounted ==
  main.base # {} => main.decl \ main.rec \subseteq accepted

\* trust-guard.yml: "delete a record while its declaration lives, and
\* check_audit_complete.py [...] fails on the ceiling AND on the
\* absent-from-baseline identity check". False, and in no run: README, section 4.
RecordDeletionCaught ==
  [][main' # main /\ ~Surface(main') =>
       \A n \in main.rec : n \in main'.decl => n \in main'.rec]_ratchetVars
=============================================================================
