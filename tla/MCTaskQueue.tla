----------------------------- MODULE MCTaskQueue -----------------------------
(* Instances of TaskQueue for TLC.                                         *)
EXTENDS TaskQueue, TLC

CONSTANTS c1, c2, none, other

MCShell == {c1, c2, none}
MCEmpty == {none}
MCOther == {other}

\* One task, a workflow of two whose second task may be refused, and a
\* task without a command.
MCPlans == {<<c1>>, <<c1, c2>>, <<none>>}

\* Three kinds of request only: one shell task, one without a command, one
\* task of another type.
MCSinglePlans == {<<c2>>, <<none>>, <<other>>}

\* The settings of API and workers may differ: c2 is allowed by some only.
\* The first is EARENDIL_ALLOW_ANY_COMMAND, which lets the empty command in.
MCPolicies == {{c1, c2, none}, {c1}}

Symmetry == Permutations(Requests) \cup Permutations(Workers)
=============================================================================
