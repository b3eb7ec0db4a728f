------------------------------- MODULE SpecTrees -------------------------------
(***************************************************************************)
(* Trees of stateful specifications: a sequence of specifications, each    *)
(* one followed by those of its subtree in the order in which              *)
(* `StatefulSupervisorRuntime::new` starts them.                           *)
(***************************************************************************)
EXTENDS ChildLists

\* The nested supervisors that specification n lists, whose ids are their names.
NestedIds(nodes, n) ==
  {nodes[n].children[i].id :
     i \in {j \in DOMAIN nodes[n].children : nodes[n].children[j].kind = "Supervisor"}}

\* What building a tree of specifications yields: each one but the first is
\* listed by exactly one that comes before it, a name stands for a specification,
\* and a subtree is contiguous.
WellFormed(nodes) ==
  /\ nodes # <<>>
  /\ \A m, n \in DOMAIN nodes : nodes[m].name = nodes[n].name => m = n
  /\ \A n \in DOMAIN nodes : DistinctIds(nodes[n].children)
  /\ \A n \in DOMAIN nodes : n > 1 => \E p \in 1..(n - 1) : nodes[n].name \in NestedIds(nodes, p)
  /\ \A p \in DOMAIN nodes : \A id \in NestedIds(nodes, p) :
       \E n \in DOMAIN nodes : p < n /\ nodes[n].name = id
  /\ \A p, q \in DOMAIN nodes : NestedIds(nodes, p) \cap NestedIds(nodes, q) # {} => p = q
  /\ \A p, q, k, m \in DOMAIN nodes :
       /\ nodes[m].name \in NestedIds(nodes, p) /\ nodes[k].name \in NestedIds(nodes, q)
       /\ p < k /\ k <= m
       => p <= q

================================================================================
