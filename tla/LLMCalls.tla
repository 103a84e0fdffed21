------------------------------ MODULE LLMCalls ------------------------------
(***************************************************************************)
(* The provider calls of src/llm/interface.py: complete() with its retry   *)
(* ladder and its ledger, the providers' _complete_impl (the GitHub one    *)
(* refreshes its token once per attempt, the Vertex one forks a worker     *)
(* process and polls its pipe against a wall-clock deadline), temperature  *)
(* escalation, the multi-turn Conversation of the A/G decisions, and the   *)
(* observer that archives every completed call into a task session.        *)
(*                                                                         *)
(* The caller and the worker processes interleave: a worker answers, dies  *)
(* or hangs at any time, also after its deadline, and once it has answered *)
(* it exits at any time, also beside the worker of a later request.        *)
(***************************************************************************)
EXTENDS Naturals, Sequences, FiniteSets

CONSTANTS
    Ladder,          \* the retries of each provider: the length of RETRY_DELAYS
    Temperatures,    \* how many temperatures an escalation may try
    DecisionTurns,   \* max_decision_attempts of a conversation
    SessionTurns,    \* the turns the task session has room for
    MaxJobs,         \* how many conversations and escalations are started
    MaxExiting       \* how many workers have answered and not exited yet

ASSUME LadderAssumption == Ladder \in [{"gemini", "github", "vertex"} -> Nat]
ASSUME BoundsAssumption ==
    /\ Temperatures \in Nat \ {0} /\ DecisionTurns \in Nat \ {0}
    /\ SessionTurns \in Nat /\ MaxJobs \in Nat /\ MaxExiting \in Nat

VARIABLES
    provider,    \* which subclass of LLMInterface the run uses
    job,         \* what the caller is doing: its kind and the calls it may still make
    call,        \* the complete() in progress
    live,        \* the requests whose worker process is still at its request
    exiting,     \* the requests whose worker process has sent its result and still runs
    pipe,        \* what the pipe of the current request holds
    ledger,      \* TokenLedger
    turns,       \* Conversation._turns, with the system prompt in front
    session,     \* the task session that the observer writes to
    observerErrors,   \* _call_observer_errors
    \* Ghosts: requests made, token refreshes, those of this call that
    \* missed their deadline.
    requests, refreshes, overdue

vars == <<provider, job, call, live, exiting, pipe, ledger, turns, session,
          observerErrors, requests, refreshes, overdue>>

Providers == DOMAIN Ladder
\* The exceptions of a provider, by what _is_retryable and is_auth_error see in them.
Errors == {"transient", "timeout", "cancelled", "eof", "auth", "permanent"}
Phases == {"idle", "attempt", "waiting", "stopping", "answered", "failed"}

Idle == [phase |-> "idle", retries |-> 0, refreshed |-> FALSE,
         error |-> "none"]
NoJob == [kind |-> "none", left |-> 0, started |-> 0]

Message(role, n) == [role |-> role, of |-> n]

Init ==
    /\ provider \in Providers
    /\ job = NoJob
    /\ call = Idle
    /\ live = {} /\ exiting = {}
    /\ pipe = "empty"
    /\ ledger = [calls |-> 0, retries |-> 0, failures |-> 0]
    /\ turns = <<>>
    /\ session = [log |-> <<>>, open |-> TRUE]
    /\ observerErrors = 0
    /\ requests = 0 /\ refreshes = 0 /\ overdue = {}

-----------------------------------------------------------------------------
(* The caller.                                                             *)

\* complete() is entered with the whole retry ladder before it.
Enter ==
    /\ call' = [Idle EXCEPT !.phase = "attempt"]
    /\ overdue' = {}

\* The number of this call, which names its messages.
Ordinal == ledger.calls + ledger.failures + 1

\* _decide starts a Conversation; its opening turn carries the system prompt.
StartConversation ==
    /\ call.phase = "idle" /\ job.kind = "none" /\ job.started < MaxJobs
    /\ job' = [kind |-> "conversation", left |-> DecisionTurns - 1,
               started |-> job.started + 1]
    /\ turns' = <<Message("system", job'.started), Message("user", Ordinal)>>
    /\ Enter
    /\ UNCHANGED <<provider, live, exiting, pipe, ledger, session, observerErrors,
                   requests, refreshes>>

\* complete_with_escalation, first temperature: one user message, no conversation.
StartEscalation ==
    /\ call.phase = "idle" /\ job.kind = "none" /\ job.started < MaxJobs
    /\ job' = [kind |-> "escalation", left |-> Temperatures - 1,
               started |-> job.started + 1]
    /\ turns' = <<Message("user", Ordinal)>>
    /\ Enter
    /\ UNCHANGED <<provider, live, exiting, pipe, ledger, session, observerErrors,
                   requests, refreshes>>

\* The answer was not accepted and the caller may ask again: a conversation adds a
\* follow-up turn, an escalation sends the same messages at a higher temperature.
AskAgain ==
    /\ call.phase = "idle" /\ job.kind # "none" /\ job.left > 0
    /\ job' = [job EXCEPT !.left = @ - 1]
    /\ turns' = IF job.kind = "conversation"
                THEN Append(turns, Message("user", Ordinal)) ELSE turns
    /\ Enter
    /\ UNCHANGED <<provider, live, exiting, pipe, ledger, session, observerErrors,
                   requests, refreshes>>

\* The answer was accepted, or no attempt is left.
EndJob ==
    /\ call.phase = "idle" /\ job.kind # "none"
    /\ job' = [job EXCEPT !.kind = "none", !.left = 0]
    /\ turns' = <<>>
    /\ UNCHANGED <<provider, call, live, exiting, pipe, ledger, session, observerErrors,
                   requests, refreshes, overdue>>

-----------------------------------------------------------------------------
(* The providers' _complete_impl.                                          *)

\* A request is sent. The Vertex client forks a fresh worker with a fresh pipe.
Request ==
    /\ call.phase = "attempt"
    /\ requests' = requests + 1
    /\ live' = IF provider = "vertex" THEN live \union {requests'} ELSE live
    /\ pipe' = "empty"
    /\ call' = [call EXCEPT !.phase = "waiting"]
    /\ UNCHANGED <<provider, job, exiting, ledger, turns, session, observerErrors,
                   refreshes, overdue>>

\* The SDK of a provider without a worker returns or raises; its own timeout is an error.
SdkReturns ==
    /\ provider # "vertex" /\ call.phase = "waiting"
    /\ \/ call' = [call EXCEPT !.phase = "answered"]
       \/ \E e \in Errors \ {"eof", "auth"} :
             call' = [call EXCEPT !.phase = "failed", !.error = e]
    /\ UNCHANGED <<provider, job, live, exiting, pipe, ledger, turns, session,
                   observerErrors, requests, refreshes, overdue>>

\* GitHub: an authentication error refreshes the token and asks again, once per attempt;
\* the refresh may itself raise.
AuthError ==
    /\ provider = "github" /\ call.phase = "waiting"
    /\ \/ /\ ~call.refreshed
          /\ call' = [call EXCEPT !.phase = "attempt", !.refreshed = TRUE]
          /\ refreshes' = refreshes + 1
       \/ /\ ~call.refreshed
          /\ call' = [call EXCEPT !.phase = "failed", !.error = "permanent"]
          /\ UNCHANGED refreshes
       \/ /\ call.refreshed
          /\ call' = [call EXCEPT !.phase = "failed", !.error = "auth"]
          /\ UNCHANGED refreshes
    /\ UNCHANGED <<provider, job, live, exiting, pipe, ledger, turns, session,
                   observerErrors, requests, overdue>>

\* A worker sends its result or its error; after the deadline nobody reads it.
WorkerSends ==
    /\ Cardinality(exiting) < MaxExiting
    /\ \E r \in live, what \in {"ok"} \union (Errors \ {"eof"}) :
       /\ live' = live \ {r} /\ exiting' = exiting \union {r}
       /\ pipe' = IF r = requests /\ call.phase = "waiting" THEN what ELSE pipe
    /\ UNCHANGED <<provider, job, call, ledger, turns, session, observerErrors,
                   requests, refreshes, overdue>>

\* A worker that has sent its result ends, sooner or later.
WorkerExits ==
    /\ \E r \in exiting : exiting' = exiting \ {r}
    /\ UNCHANGED <<provider, job, call, live, pipe, ledger, turns, session,
                   observerErrors, requests, refreshes, overdue>>

\* A worker dies without a word: its end of the pipe closes.
WorkerDies ==
    /\ \E r \in live :
       /\ live' = live \ {r}
       /\ pipe' = IF r = requests /\ call.phase = "waiting" THEN "eof" ELSE pipe
    /\ UNCHANGED <<provider, job, call, exiting, ledger, turns, session,
                   observerErrors, requests, refreshes, overdue>>

\* receive.poll() returns with something in the pipe. After a result join(5.0) waits for
\* the worker's exit, and is not asked whether it came: the worker may exit before the
\* next step of the caller, or later.
Receive ==
    /\ provider = "vertex" /\ call.phase = "waiting" /\ pipe # "empty"
    /\ call' = IF pipe = "ok" THEN [call EXCEPT !.phase = "answered"]
               ELSE [call EXCEPT !.phase = "failed", !.error = pipe]
    /\ pipe' = "empty"
    /\ UNCHANGED <<provider, job, live, exiting, ledger, turns, session,
                   observerErrors, requests, refreshes, overdue>>

\* Mutant: receive.poll() waits without a timeout.
MutPollForever == FALSE
\* receive.poll(timeout) returns with nothing: the worker is sent SIGTERM.
DeadlinePasses ==
    /\ provider = "vertex" /\ call.phase = "waiting" /\ pipe = "empty"
    /\ overdue' = overdue \union {requests}
    /\ call' = [call EXCEPT !.phase = "stopping"]
    /\ UNCHANGED <<provider, job, live, exiting, pipe, ledger, turns, session,
                   observerErrors, requests, refreshes>>

\* What runs of these workers after terminate, join(5), kill and join(5): SIGKILL ends
\* the worker whatever it does.
Surviving(workers) == workers \ {requests}

\* The worker is stopped and TimeoutError is raised.
StopWorker ==
    /\ call.phase = "stopping"
    /\ live' = Surviving(live) /\ exiting' = Surviving(exiting)
    /\ call' = [call EXCEPT !.phase = "failed", !.error = "timeout"]
    /\ UNCHANGED <<provider, job, pipe, ledger, turns, session, observerErrors,
                   requests, refreshes, overdue>>

-----------------------------------------------------------------------------
(* complete(): retry, ledger and observers.                                *)

\* Mutant: Vertex uses the base class's _is_retryable as well.
MutBaseRetryable(e) == e \in {"transient", "timeout"}
\* _is_retryable: Vertex never replays a request that met a deadline, but does replay one
\* the provider cancelled (499) or whose worker died.
IsRetryable(e) ==
    IF provider = "vertex" THEN e \in {"transient", "cancelled", "eof"}
    ELSE e \in {"transient", "timeout"}

\* Mutant: record_failure also counts the retry that was not made.
MutCountLast(finished) ==
    [ledger EXCEPT ![finished] = @ + 1,
                   !.retries = @ + call.retries
                                 + (IF finished = "failures" THEN 1 ELSE 0)]
\* TokenLedger.record and record_failure: one of them, once per complete().
Charge(finished) ==
    [ledger EXCEPT ![finished] = @ + 1, !.retries = @ + call.retries]

\* Mutant: the offset is read after the new user turn was appended.
MutOffsetAfter == IF job.kind = "conversation" /\ Len(turns) > 2 THEN Len(turns) ELSE 0
\* Conversation.send: what earlier calls have archived; 0 on the opening turn and for
\* every call without a conversation.
Offset == IF job.kind = "conversation" /\ Len(turns) > 2 THEN Len(turns) - 1 ELSE 0

\* _archive_provider_call: the messages from the offset on and the reply, one append
\* each. The append that does not fit expires the session and raises, and so does every
\* one after it; _notify_call_observers keeps the error and goes on.
Archive(new) ==
    LET room == IF session.open THEN SessionTurns - Len(session.log) ELSE 0
        fits == SubSeq(new, 1, IF Len(new) < room THEN Len(new) ELSE room)
    IN  /\ session' = [log  |-> session.log \o fits,
                       open |-> session.open /\ Len(new) <= room]
        /\ observerErrors' = observerErrors + (IF session'.open THEN 0 ELSE 1)

\* The response is charged, archived and returned; a conversation keeps it as a turn.
Complete ==
    /\ call.phase = "answered"
    /\ ledger' = Charge("calls")
    /\ LET reply == Message("assistant", Ordinal) IN
       /\ Archive(SubSeq(turns, Offset + 1, Len(turns)) \o <<reply>>)
       /\ turns' = IF job.kind = "conversation" THEN Append(turns, reply) ELSE turns
    /\ call' = Idle
    /\ UNCHANGED <<provider, job, live, exiting, pipe, requests, refreshes, overdue>>

\* Another attempt is made: the error is retryable and a delay is left.
MayRetry == IsRetryable(call.error) /\ call.retries < Ladder[provider]

\* note_attempt, the sleep, and the next attempt with a fresh _complete_impl.
Retry ==
    /\ call.phase = "failed" /\ MayRetry
    /\ call' = [call EXCEPT !.phase = "attempt", !.retries = @ + 1,
                            !.refreshed = FALSE, !.error = "none"]
    /\ UNCHANGED <<provider, job, live, exiting, pipe, ledger, turns, session,
                   observerErrors, requests, refreshes, overdue>>

\* The exception leaves complete(), and the caller with it: a conversation or an
\* escalation ends there, with its last user turn unanswered.
GiveUp ==
    /\ call.phase = "failed" /\ ~MayRetry
    /\ ledger' = Charge("failures")
    /\ call' = Idle
    /\ job' = [job EXCEPT !.kind = "none", !.left = 0]
    /\ turns' = <<>>
    /\ UNCHANGED <<provider, live, exiting, pipe, session, observerErrors, requests,
                   refreshes, overdue>>

-----------------------------------------------------------------------------
Worker == WorkerSends \/ WorkerExits \/ WorkerDies
Caller ==
    \/ Request \/ SdkReturns \/ AuthError \/ Receive \/ DeadlinePasses
    \/ StopWorker \/ Complete \/ Retry \/ GiveUp
Job == StartConversation \/ StartEscalation \/ AskAgain \/ EndJob

Next == Worker \/ Caller \/ Job

\* complete() goes on whenever it can: the SDK's timeout and poll's deadline bound every
\* wait. Nothing is assumed of the workers, which may hang, nor of the caller.
Spec == Init /\ [][Next]_vars /\ WF_vars(Caller)

-----------------------------------------------------------------------------
(* Properties.                                                             *)

Count(log, role) == Cardinality({i \in DOMAIN log : log[i].role = role})

\* At most one Vertex request is worked at, and only while the caller waits for it or
\* stops it. What still runs beside the next request has answered in time: the worker of
\* a request that missed its deadline is gone before the caller goes on
\* (interface.py:978-992).
OneRequestAtATime ==
    /\ live \subseteq {requests}
    /\ call.phase \in {"idle", "attempt", "answered", "failed"} => live = {}
    /\ call.phase # "stopping" => overdue \intersect exiting = {}

\* "A client deadline is not a capacity failure, so it is rejected without replaying the
\* request" (interface.py:848-849): an overdue request is the last one of its call,
\* whatever was retried before it.
DeadlineEndsCall ==
    overdue \subseteq {requests}

\* A request that misses its deadline is over: its worker is gone before anything else is
\* sent, and nothing replays it.
OverdueIsOver == OneRequestAtATime /\ DeadlineEndsCall

\* The ledger accounts for every request exactly: each is the last of a finished call, a
\* counted retry or a replay after a token refresh (interface.py:112-141, 277-342).
LedgerBalances ==
    call.phase = "idle" =>
       requests = ledger.calls + ledger.failures + ledger.retries + refreshes

\* The session ends with the first k turns of the conversation and holds no turn of it
\* before them.
EndsWithTurns(k) ==
    LET log == session.log
    IN  /\ k <= Len(log)
        /\ \A i \in 1 .. k : log[Len(log) - k + i] = turns[i]
        /\ \A i \in 1 .. Len(log) - k : \A j \in DOMAIN turns : log[i] # turns[j]

\* A conversation is archived as it was sent: its turns in order, each exactly once, as
\* long as no observer error was recorded; then the rest is missing, and nothing else
\* (test_ag_decision.py, test_turn_archived_once). Every finished call has its reply there.
TranscriptFaithful ==
    /\ observerErrors = 0 => Count(session.log, "assistant") = ledger.calls
    /\ job.kind = "conversation" =>
          \E k \in 0 .. Len(turns) :
             /\ EndsWithTurns(k)
             /\ call.phase = "idle" /\ observerErrors = 0 => k = Len(turns)

\* Every complete() returns or raises, although a worker may hang for ever
\* (interface.py:978-992).
CallsReturn == (call.phase # "idle") ~> (call.phase = "idle")

\* "Transient errors (429/RESOURCE_EXHAUSTED/5xx/timeouts) are retried by the
\* LLMInterface.complete() wrapper" (VertexLLM._complete_impl, interface.py:929-930): no
\* call gives up on a timeout while its ladder has a retry left.  The code gives up at the
\* first one, as the comment on RETRY_DELAYS wants (interface.py:848-849).
TimeoutsRetried ==
    [][provider = "vertex" /\ call.error = "timeout" /\ call.retries < Ladder["vertex"]
         => ledger'.failures = ledger.failures]_vars
=============================================================================
