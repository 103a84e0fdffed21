-------------------------- MODULE MCClosurePhases --------------------------
(* Five texts whose gaps form a chain and a fork, one of which a wrong plan *)
(* cannot be satisfied by, and a revised plan that it can.                  *)
EXTENDS ClosurePhases

Plain == [gaps |-> {}, unresolved |-> {}, errors |-> 0, failing |-> 0,
          behaviour |-> 1, rule |-> 3]

MCTexts == {"draft", "other", "half", "closed", "broken"}
MCFacts == [t \in MCTexts |->
    CASE t = "draft"  -> [Plain EXCEPT !.gaps = {"f1", "f2"}, !.unresolved = {"p1"}, !.failing = 1]
      [] t = "other"  -> [Plain EXCEPT !.gaps = {"f3"}, !.unresolved = {"p1", "p2"}]
      [] t = "half"   -> [Plain EXCEPT !.gaps = {"f1"}, !.rule = 2, !.failing = 1]
      [] t = "closed" -> [Plain EXCEPT !.rule = 1]
      [] t = "broken" -> [Plain EXCEPT !.errors = 1, !.rule = 4, !.unresolved = {"p2"}]]

MCPlans == {"none", "frozen", "revised"}
MCPlanFacts == [p \in MCPlans |-> [t \in MCTexts |->
    CASE p = "frozen" /\ t = "draft"  -> [applied |-> t, conforms |-> FALSE, unmet |-> {"o1", "o2"}]
      [] p = "frozen" /\ t = "other"  -> [applied |-> "draft", conforms |-> TRUE, unmet |-> {"o1"}]
      [] p = "frozen" /\ t = "half"   -> [applied |-> t, conforms |-> TRUE, unmet |-> {"o1"}]
      [] p = "revised" /\ t = "draft" -> [applied |-> "half", conforms |-> TRUE, unmet |-> {"o1"}]
      [] p = "revised" /\ t = "half"  -> [applied |-> t, conforms |-> TRUE, unmet |-> {"o1"}]
      [] OTHER -> [applied |-> t, conforms |-> TRUE, unmet |-> {}]]]

MCRequirements == {"f1", "f2", "f3"}
MCObligations == {"o1", "o2"}
MCParameters == {"p1", "p2"}
MCScores == {1, 3}
=============================================================================
