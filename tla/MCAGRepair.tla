----------------------------- MODULE MCAGRepair -----------------------------
(* Two chains; the first two codes can be repaired, the third cannot.  A prompt *)
(* or a reply of three tokens leaves no room for the other.                     *)
EXTENDS AGRepair

MCRoute == <<"surgical", "surgical", "upstream">>
MCTexts == {t \in [Chains -> SUBSET Codes] : 3 \notin t[2]}
MCInitialText == <<{1, 2, 3}, {1, 2}>>
MCIdentities == [t \in MCTexts |-> NoReqs]
MCDocOf == NoReqs
MCTokenCounts == {1, 3}
MCSessionBudget == [turns |-> 2, tokens |-> 3]
=============================================================================
