------------------------------ MODULE MCRoadmap ------------------------------
(* Two epics with issues 1 and 2, a deliverable with issue 3, a task with   *)
(* issue 4 on milestone 1, and issue 5, which no entry knows; roadmaps that *)
(* list and parent them rightly and wrongly, or hold nothing.               *)
EXTENDS Roadmap

E(kind, issue, subs, parent, ms, status) ==
  [kind |-> kind, gh_issue |-> issue, gh_sub_issues |-> subs, parent |-> parent,
   gh_milestone |-> ms, blocked_by |-> {}, status |-> status]

Plan(s1, s2, p, st) ==
  [e1 |-> E("epic", 1, s1, None, None, "open"), e2 |-> E("epic", 2, s2, None, None, "unjudged"),
   d |-> E("deliverable", 3, {}, p, None, st), t |-> E("task", 4, {}, "m", None, "open"),
   m |-> E("milestone", None, {}, None, 1, "open")]

MCRoadmaps ==
  {Plan(s1, s2, p, st) : s1 \in {{}, {3}, {3, 4}}, s2 \in {{}, {3}},
                         p \in {"e1", "e2", "gone"}, st \in {"open", "done"}}
  \cup {[e \in {} |-> {}]}

I(open, parent, ms) == [open |-> open, parent |-> parent, milestone |-> ms, blocked_by |-> {}]
Board(num, o3, p3) ==
  [num |-> num, of |-> [n \in 1..5 |-> CASE n \in 1..2 -> I(TRUE, None, None)
                                         [] n = 3 -> I(o3, p3, None)
                                         [] n = 4 -> I(TRUE, None, 1)
                                         [] n = 5 -> I(FALSE, None, 1)]]

MCTrackers ==
  {Board(1..5, TRUE, p3) : p3 \in {None, 1, 2}}
  \cup {Board(1..5, FALSE, 1), Board({1, 2, 4, 5}, TRUE, None)}
=============================================================================
