----------------------------- MODULE MCThreadPool -----------------------------
(* Model-checking instance of ThreadPool. *)
EXTENDS ThreadPool

CONSTANTS parent, child, parent2, child2

\* Two tasks that each submit a child and wait for it: with two workers both
\* can be busy with such a task.
MCJobs == {parent, child, parent2, child2}
MCRoots == {parent, parent2}
MCChild == [j \in MCJobs |-> CASE j = parent -> child
                              [] j = parent2 -> child2
                              [] OTHER -> NoJob]
=============================================================================
