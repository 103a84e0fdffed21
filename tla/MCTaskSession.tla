--------------------------- MODULE MCTaskSession ---------------------------
(* Two revisions, the later one restoring the text of the earlier; one turn,    *)
(* and a message that uses a token budget up exactly, so that the next expires  *)
(* the session.  Closing takes two different statuses, and OPEN, which close    *)
(* refuses.                                                                     *)
EXTENDS TaskSessionCalls

MCBases == {[rev |-> 0, digest |-> "a"], [rev |-> 2, digest |-> "a"]}
MCBudgets == {[turns |-> 1, tokens |-> 3]}
MCTokenCounts == {3}
MCEndings == {"OPEN", "COMPLETED", "REJECTED"}
Interchangeable == Permutations(TaskIds) \cup Permutations(Roles)
=============================================================================
