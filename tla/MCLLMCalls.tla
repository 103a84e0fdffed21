----------------------------- MODULE MCLLMCalls -----------------------------
EXTENDS LLMCalls

\* The lengths of RETRY_DELAYS; five for the base class, shortened to one here.
MCLadder == [p \in {"gemini", "github", "vertex"} |-> IF p = "vertex" THEN 2 ELSE 1]
=============================================================================
