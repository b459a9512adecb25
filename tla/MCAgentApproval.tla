-------------------------- MODULE MCAgentApproval --------------------------
(* Small instances of AgentApproval. *)
EXTENDS AgentApproval, TLC

\* Threads, calls, arguments, rows and handlers are interchangeable: no action
\* and no property of the safety runs names one of them.
Symmetry ==
  Permutations(Call) \cup Permutations(Payload) \cup Permutations(Approval)
    \cup Permutations(Request) \cup Permutations(Thread)

=============================================================================
