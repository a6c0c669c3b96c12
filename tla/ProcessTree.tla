------------------------------- MODULE ProcessTree -----------------------------
(***************************************************************************)
(* ProcessTreeBuilder::build_tree (argus-analyzer/src/process_tree.rs).    *)
(*                                                                         *)
(* A node of the forest is known by its path, the pids from its root down  *)
(* to it.  The recursion is written out by depth: build_tree(execs, d)     *)
(* lists the nodes that assemble builds at depth d, in the order in which  *)
(* render_ascii shows those of one parent.                                 *)
(***************************************************************************)
EXTENDS Naturals, Sequences, SequencesExt, Subsequences

\* A ProcessExec, as far as the tree depends on it.
ExecEvent == [pid : Nat, ppid : Nat, at : Nat]

all_pids(execs) == { execs[i].pid : i \in DOMAIN execs }

\* nodes: a later exec of a pid replaces the earlier one.
nodes_ppid(execs, pid) == Last(Filter(execs, { e \in ExecEvent : e.pid = pid })).ppid

Pids(execs) == [i \in DOMAIN execs |-> execs[i].pid]

\* ppid_map: one entry for every exec, the replaced ones too.
ppid_map(execs, pid) == Pids(Filter(execs, { e \in ExecEvent : e.ppid = pid }))

\* root_pids that expects the parent of a root to be 0.
RootsOfZero(execs) ==
  Filter(Pids(execs), { pid \in Nat : nodes_ppid(execs, pid) = 0 })

\* An entry for every exec of a process whose parent is not in the session.
root_pids(execs) ==
  Filter(Pids(execs), { pid \in all_pids(execs) : nodes_ppid(execs, pid) \notin all_pids(execs) })

\* A node by its path.
ProcessNode == Seq(Nat)

\* assemble: the nodes for the children of a node.
assemble(execs, path) ==
  LET children == ppid_map(execs, Last(path))
  IN  [i \in DOMAIN children |-> Append(path, children[i])]

Children(execs) ==
  [nodes \in Seq(ProcessNode) |-> [path \in ProcessNode |-> nodes \o assemble(execs, path)]]

\* The nodes below those of a level.
Below(execs) ==
  [nodes \in Seq(ProcessNode) |-> [depth \in Nat |-> Fold(Children(execs), << >>, nodes)]]

\* The nodes at a depth of the forest.
build_tree(execs, depth) ==
  LET roots == root_pids(execs)
  IN  Repeat(Below(execs), [i \in DOMAIN roots |-> <<roots[i]>>], depth)
================================================================================
