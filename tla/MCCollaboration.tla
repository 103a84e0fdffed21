-------------------------- MODULE MCCollaboration --------------------------
(* Three texts that quote the requirement, two with the same block, and one that *)
(* lacks it.  A prompt or a reply of three tokens leaves no room for the other.  *)
EXTENDS Collaboration

MCTexts == {"empty", "m1", "m2", "other"}
MCIdentities == [t \in MCTexts |->
  CASE t = "empty" -> NoReqs
    [] t = "other" -> [req |-> "block2"]
    [] OTHER       -> [req |-> "block1"]]
MCDocOf == [block1 |-> "source", block2 |-> "source"]
MCRequirements == [req |-> "source"]
MCTokenCounts == {1, 3}
MCSessionBudget == [turns |-> 2, tokens |-> 4]
=============================================================================
