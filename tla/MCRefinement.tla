---------------------------- MODULE MCRefinement ----------------------------
(* Six texts that tell the gates apart: a draft that does not parse, one    *)
(* with a stuck machine, one with failing scenarios, one that meets the     *)
(* quality threshold but carries findings, one clean, and one the plan      *)
(* does not cover.                                                          *)
EXTENDS Refinement

NoFindings == [p \in {"anchor", "namespace", "response"} |-> 0]

Plain(t) == [rule |-> 3, errors |-> 0, failing |-> 0, behaviour |-> 1, quality |-> 2,
             connects |-> 2, unmet |-> {}, residue |-> 0, fatal |-> FALSE,
             findings |-> NoFindings, cleaned |-> t, applied |-> t, stripped |-> t]

MCTexts == {"broken", "stuck", "failing", "rough", "clean", "extra"}

MCFacts == [t \in MCTexts |->
    CASE t = "broken"  -> [Plain(t) EXCEPT !.errors = 1, !.fatal = TRUE,
                                           !.unmet = {"o1"}]
      [] t = "stuck"   -> [Plain(t) EXCEPT !.behaviour = 0, !.quality = 1, !.unmet = {"o1", "o2"},
                                           !.residue = 1, !.applied = "failing"]
      [] t = "failing" -> [Plain(t) EXCEPT !.rule = 2, !.failing = 1, !.quality = 0,
                                           !.unmet = {"o2"}, !.residue = 1, !.fatal = TRUE]
      [] t = "rough"   -> [Plain(t) EXCEPT !.findings = [NoFindings EXCEPT !["anchor"] = 2,
                                                         !["response"] = 1],
                                           !.fatal = TRUE]
      [] t = "clean"   -> [Plain(t) EXCEPT !.rule = 4]
      [] t = "extra"   -> [Plain(t) EXCEPT !.residue = 2, !.stripped = "rough", !.connects = 3,
                                           !.findings = [NoFindings EXCEPT !["namespace"] = 1],
                                           !.fatal = TRUE, !.cleaned = "extra"]]
MCModels == 1..3
MCObligations == {"o1", "o2"}
MCLLMScores == {9}
=============================================================================
