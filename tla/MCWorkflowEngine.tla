--------------------------- MODULE MCWorkflowEngine ---------------------------
(* A small instance of the engine: the four-eyes chain of the engine's own  *)
(* tests (tests/workflow_helpers.py build_chain) with a segregated gate of  *)
(* three slots and an amount split.                                         *)
EXTENDS WorkflowEngine

D == INSTANCE ReimbursementDefinitions

CONSTANTS maker, ann, bob, oicd   \* users

(* build_chain(amount_split=True, enforce_segregation=True,                 *)
(*             step_count=3, join_type="quorum", quorum_count=2)            *)
Banded(edge, order, min, max) == [edge EXCEPT !.order = order, !.min = min, !.max = max]

FourEyesChain ==
  [initial |-> "draft",
   states |->
     [draft        |-> D!Plain("initial"),
      for_approval |-> [D!Gate("p", TRUE) EXCEPT !.join = "quorum",
                                                 !.stepCount = 3, !.quorum = 2],
      for_director |-> D!Gate("p", FALSE),
      returned     |-> D!Plain("normal"),
      approved     |-> D!Plain("terminal"),
      rejected     |-> D!Plain("terminal"),
      cancelled    |-> D!Plain("terminal")],
   transitions |->
     {D!Edge("draft", "submit", "for_approval", NoPerm, FALSE),
      D!Edge("draft", "cancel", "cancelled", NoPerm, FALSE),
      Banded(D!Edge("for_approval", "approve", "approved", NoPerm, FALSE), 0, NoAmount, 10),
      Banded(D!Edge("for_approval", "approve", "for_director", NoPerm, FALSE), 1, 11, NoAmount),
      D!Edge("for_director", "approve", "approved", NoPerm, FALSE),
      D!Edge("for_approval", "return", "returned", NoPerm, TRUE),
      D!Edge("for_approval", "reject", "rejected", NoPerm, TRUE),
      D!Edge("returned", "resubmit", "for_approval", NoPerm, FALSE),
      D!Edge("returned", "cancel", "cancelled", NoPerm, FALSE)}]

FourEyesDefinitions == [foureyes |-> FourEyesChain]

FourEyesRank ==
  [foureyes |-> [draft |-> 0, for_approval |-> 1, for_director |-> 2, returned |-> 2,
                 approved |-> 3, rejected |-> 3, cancelled |-> 3]]

FourEyesPerms  == {"p"}
FourEyesGrants == {<<maker, "p">>, <<ann, "p">>, <<bob, "p">>}
TwoAmounts     == {10, 11}     \* the two sides of the amount split
OicForAnn      == {<<ann, oicd>>}
=============================================================================
