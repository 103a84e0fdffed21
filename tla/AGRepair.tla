------------------------------ MODULE AGRepair ------------------------------
(***************************************************************************)
(* The assume/guarantee repair fixpoint: _build_multichain_ag_trace and    *)
(* _build_ag_trace of agents/ag_assurance_source.py, each round of which   *)
(* is _run_ag_analysis_round, and each attempt of which is                 *)
(* attempt_dependency_closed_ag_repair of prototyping/ag_repair.py.  It    *)
(* composes the board (Blackboard) and the task sessions (TaskSession).    *)
(*                                                                         *)
(* A round analyses every chain of the current model and gives every       *)
(* failure it may repair a task.  The candidates are attempted chain by    *)
(* chain; the first accepted repair commits a revision, retires the rest   *)
(* and starts a new round.  A rejected candidate is retried once.  The     *)
(* run ends when a round accepts nothing, has nothing to attempt or has    *)
(* spent the attempts of the whole run.                                    *)
(*                                                                         *)
(* The loop is one thread; a step of it is one chain analysed, one failure *)
(* dispatched, one candidate queued, attempted or closed.                  *)
(*                                                                         *)
(* A model text gives, for each chain, the set of diagnostic codes its     *)
(* analysis reports: text[chain].  The LLM and the merge produce any text  *)
(* that passes the preservation gate, or one in which the chain cannot be  *)
(* found again.  Of the records only those of the board itself and the     *)
(* repair decisions are kept.                                              *)
(***************************************************************************)
EXTENDS Blackboard, TaskSession

CONSTANTS
  NChains,          \* A/G chains of the model, in the order they are extracted
  NCodes,           \* diagnostic codes, in the order they are reported
  Route,            \* Route[code]: where the router sends a failure
  MaximumAttempts,  \* maximum_ag_repair_attempts
  SessionBudget,    \* max_turns and max_tokens of a repair session
  TokenCounts       \* estimated tokens of a prompt or of a reply

Chains == 1 .. NChains
Codes == 1 .. NCodes

ASSUME RepairAssumption ==
  /\ NChains \in Nat \ {0} /\ MaximumAttempts \in Nat \ {0}
  /\ NCodes \in Nat /\ TokenCounts \subseteq Nat
  /\ Route \in [Codes -> {"surgical", "upstream", "clarification"}]
  /\ Texts \subseteq [Chains -> SUBSET Codes] /\ InitialText \in Texts
  /\ SessionBudget \in [turns : Nat, tokens : Nat]

VARIABLES
  registry,
  decisions,  \* the repair.decision records: [task, status, base, committed]
  phase,      \* where the loop is: analyse, order, attempt, repairing, deferring,
              \* superseding, done; or cut short by an exception in an attempt:
              \* unprepared, unjudged, aborted
  groups,     \* candidates of the chains analysed in this round, one group each
  reports,    \* the last report of each chain: [rev, found]
  seen,       \* the last code of the running report that was dispatched
  queue,      \* candidates of this round, in the order they are attempted
  next,       \* candidate_index: how many of them have been taken up
  attempts    \* repair_attempts, over the whole run

vars == <<board, registry, decisions, phase, groups, reports, seen, queue, next, attempts>>

Decide(ds, task, status, base, committed) ==
  Append(ds, [task |-> task, status |-> status, base |-> base,
              committed |-> committed])

RepairInit ==
  /\ board = NewBoard(InitialText) /\ registry = EmptyRegistry
  /\ decisions = <<>> /\ phase = "analyse"
  /\ groups = <<>> /\ reports = <<>> /\ seen = 0
  /\ queue = <<>> /\ next = 0 /\ attempts = 0

-----------------------------------------------------------------------------
(* A round: analyse the chains one after the other                         *)

\* The failures of the chain analysed last that are still to be dispatched.
Undispatched ==
  IF groups = <<>> THEN {}
  ELSE {code \in reports[Len(groups)].found : code > seen}

AnalyseChain ==
  LET chain == Len(groups) + 1
  IN  /\ phase = "analyse" /\ Undispatched = {} /\ chain \in Chains
      /\ groups' = Append(groups, <<>>) /\ seen' = 0
      /\ reports' = Append(reports, [rev |-> CurrentRevision(board),
                                     found |-> CurrentText(board)[chain]])
      /\ UNCHANGED <<board, registry, decisions, phase, queue, next, attempts>>

\* A failure that may be repaired gets a PENDING task and becomes a candidate.
Routed(code) ==
  /\ board' = CreatedTask(board)
  /\ groups' = [groups EXCEPT ![Len(groups)] =
                  Append(@, [task |-> Len(board.tasks) + 1, chain |-> Len(groups),
                             code |-> code, retryOf |-> 0])]
  /\ UNCHANGED decisions

\* A failure without an attempt to spend on it, or of an upstream cause, gets a
\* task that is BLOCKED at once, with its decision.
BlockedAtOnce ==
  LET task == Len(board.tasks) + 1
  IN  /\ board' = MovedTask(CreatedTask(board), task, "BLOCKED")
      /\ decisions' = Decide(decisions, task, "BLOCKED", CurrentRevision(board), 0)
      /\ UNCHANGED groups

\* The failures of a report are dispatched in the order they are reported.
Dispatch ==
  /\ phase = "analyse"
  /\ \E code \in Undispatched :
       /\ \A other \in Undispatched : code <= other
       /\ seen' = code
       /\ IF Route[code] = "surgical" /\ attempts < MaximumAttempts THEN Routed(code)
          ELSE IF Route[code] \in {"surgical", "upstream"} THEN BlockedAtOnce
          ELSE UNCHANGED <<board, groups, decisions>>
  /\ UNCHANGED <<registry, phase, reports, queue, next, attempts>>

EndAnalysis ==
  /\ phase = "analyse" /\ Undispatched = {} /\ Len(groups) = NChains
  /\ queue' = <<>> /\ next' = 0
  /\ phase' = IF \A c \in Chains : groups[c] = <<>> THEN "done" ELSE "order"
  /\ UNCHANGED <<board, registry, decisions, groups, reports, seen, attempts>>

\* The places of candidates in the groups that are not in the queue yet.
Unqueued == {p \in Chains \X (1 .. NCodes) :
               p[2] \in DOMAIN groups[p[1]] /\ groups[p[1]][p[2]] \notin Range(queue)}

\* The first obligation of every failing chain before a second of any chain.
RoundRobin ==
  /\ phase = "order"
  /\ \E p \in Unqueued :
       /\ \A q \in Unqueued : p[2] < q[2] \/ (p[2] = q[2] /\ p[1] <= q[1])
       /\ queue' = Append(queue, groups[p[1]][p[2]])
  /\ UNCHANGED <<board, registry, decisions, phase, groups, reports, seen, next, attempts>>

EndOrder ==
  /\ phase = "order" /\ Unqueued = {} /\ phase' = "attempt"
  /\ UNCHANGED <<board, registry, decisions, groups, reports, seen, queue, next, attempts>>

-----------------------------------------------------------------------------
(* What becomes of a candidate that is not attempted, or was rejected      *)

\* _close_unattempted_ag_repair_candidate, for the next candidate still waiting.
CloseRest(status) ==
  LET task == queue[next + 1].task
  IN  /\ next < Len(queue) /\ next' = next + 1
      /\ IF board.tasks[task].status = "PENDING"
         THEN /\ board' = MovedTask(board, task, "BLOCKED")
              /\ decisions' = Decide(decisions, task, status, board.tasks[task].rev, 0)
         ELSE UNCHANGED <<board, decisions>>
      /\ UNCHANGED <<registry, phase, groups, reports, seen, queue, attempts>>

\* The retry stays adjacent to the candidate, so that it sees the same base.
InsertRetry(q, n, retry) == InsertAt(q, n + 1, retry)

\* After an attempt that was not accepted the loop goes on: a first rejection is
\* retried once, under a task of its own, if an attempt is left.
AfterRejection(b, candidate, taken) ==
  /\ attempts' = attempts + 1 /\ next' = taken /\ phase' = "attempt"
  /\ IF candidate.retryOf = 0 /\ attempts' < MaximumAttempts
     THEN LET created == CreatedTask(b)
          IN  /\ board' = created
              /\ queue' = InsertRetry(queue, taken,
                            [candidate EXCEPT !.task = Len(created.tasks),
                                              !.retryOf = candidate.task])
     ELSE board' = b /\ queue' = queue
  /\ UNCHANGED <<groups, reports, seen>>

-----------------------------------------------------------------------------
(* The attempt loop                                                        *)

Candidate == queue[next]

AttemptsLeft == attempts < MaximumAttempts

\* Mutant: the loop runs once more than there are candidates.
MutAllTaken == next > Len(queue)

AllTaken == next = Len(queue)

\* The queue is used up and nothing was accepted: the loop ends.
QueueDrained ==
  /\ phase = "attempt" /\ AllTaken
  /\ phase' = "done"
  /\ UNCHANGED <<board, registry, decisions, groups, reports, seen, queue, next, attempts>>

\* No attempt is left for the candidates still waiting: they are DEFERRED.
BudgetSpent ==
  /\ phase = "attempt" /\ next < Len(queue) /\ ~AttemptsLeft
  /\ phase' = "deferring"
  /\ UNCHANGED <<board, registry, decisions, groups, reports, seen, queue, next, attempts>>

Defer == phase = "deferring" /\ CloseRest("DEFERRED")

AllDeferred ==
  /\ phase = "deferring" /\ next = Len(queue)
  /\ phase' = "done"
  /\ UNCHANGED <<board, registry, decisions, groups, reports, seen, queue, next, attempts>>

\* The next candidate is taken up: the slice around its failure is built, the task
\* becomes ACTIVE and a session is opened on the task's base.
StartAttempt ==
  LET task == queue[next + 1].task
  IN  /\ phase = "attempt" /\ next < Len(queue) /\ AttemptsLeft
      /\ ~OpenRefused(registry, task, "RepairAgent")
      /\ board' = MovedTask(board, task, "ACTIVE")
      /\ registry' = Opened(registry, task, "RepairAgent", TaskBase(board, task),
                            SessionBudget, 0)
      /\ next' = next + 1 /\ phase' = "repairing"
      /\ UNCHANGED <<decisions, groups, reports, seen, queue, attempts>>

\* The slice exists, but the context builder raises for the task that is ACTIVE by
\* then: the envelope is over its token budget, or a record may not be in it.  There
\* is no session yet, and nothing catches it.
ContextFails ==
  /\ phase = "attempt" /\ next < Len(queue) /\ AttemptsLeft
  /\ board' = MovedTask(board, queue[next + 1].task, "ACTIVE")
  /\ next' = next + 1 /\ phase' = "unprepared"
  /\ UNCHANGED <<registry, decisions, groups, reports, seen, queue, attempts>>

\* No dependency-closed slice can be built for the failure: the task is BLOCKED
\* without a session, but the attempt counts and may be retried.
ContextUnresolved ==
  LET candidate == queue[next + 1]
  IN  /\ phase = "attempt" /\ next < Len(queue) /\ AttemptsLeft
      /\ decisions' = Decide(decisions, candidate.task, "BLOCKED",
                             CurrentRevision(board), 0)
      /\ AfterRejection(MovedTask(board, candidate.task, "BLOCKED"), candidate, next + 1)
      /\ UNCHANGED registry

Current == Len(registry.sessions)

\* The session after the system prompt and the user prompt, and after the reply.
Prompted(prompt) ==
  Appended(Appended(registry.sessions[Current], "user", 0), "user", prompt)
Replied(prompt, reply) == Appended(Prompted(prompt), "assistant", reply)

RejectedBoard == MovedTask(board, Candidate.task, "REJECTED")

\* Mutant: the rejection of an attempt publishes no decision.
MutRejectionDecided == UNCHANGED decisions

RejectionDecided ==
  decisions' = Decide(decisions, Candidate.task, "REJECTED",
                      board.tasks[Candidate.task].rev, 0)

RejectedWith(session) ==
  /\ RejectionDecided
  /\ registry' = WithSession(registry, Current, Closed(session, "REJECTED"))
  /\ AfterRejection(RejectedBoard, Candidate, next)

\* The chat raises before there is a reply.
ChatFails ==
  /\ phase = "repairing"
  /\ \E prompt \in TokenCounts :
       /\ ~CloseRefused(Prompted(prompt), "REJECTED")
       /\ RejectedWith(Prompted(prompt))

\* The merge refuses the reply, or the repair gate refuses the merged model.
RepairRejected ==
  /\ phase = "repairing"
  /\ \E prompt, reply \in TokenCounts :
       /\ Replied(prompt, reply).status = "OPEN"
       /\ RejectedWith(Replied(prompt, reply))

\* The chain is not to be found again in the merged model, or not as one: the gate
\* raises, and nothing catches it.
GateRaises ==
  /\ phase = "repairing" /\ phase' = "unjudged"
  /\ \E prompt, reply \in TokenCounts :
       /\ Replied(prompt, reply).status = "OPEN"
       /\ registry' = WithSession(registry, Current, Replied(prompt, reply))
  /\ UNCHANGED <<board, decisions, groups, reports, seen, queue, next, attempts>>

\* A prompt or a reply does not fit the token budget.  The append expires the
\* session and raises; the handler rejects the task, and then its close of the
\* EXPIRED session raises out of the loop.
SessionExpires ==
  /\ phase = "repairing"
  /\ \E prompt, reply \in TokenCounts :
       LET session == IF Prompted(prompt).status = "EXPIRED" THEN Prompted(prompt)
                      ELSE Replied(prompt, reply)
       IN  /\ session.status = "EXPIRED" /\ CloseRefused(session, "REJECTED")
           /\ registry' = WithSession(registry, Current, session)
  /\ RejectionDecided
  /\ board' = RejectedBoard
  /\ phase' = "aborted"
  /\ UNCHANGED <<groups, reports, seen, queue, next, attempts>>

\* The repair gate on the routed chain: the target is gone and no code is new.
\* Whether behaviour and pattern conformance are preserved is left open.
Gate(before, after, code) == code \notin after /\ after \subseteq before

MergedTexts == {text \in Texts \ {CurrentText(board)} :
                  Identities[text] = Identities[CurrentText(board)]}

\* The repair passes all gates: it is committed, the session is closed, sessions
\* left behind by the commit become STALE; the remaining candidates are superseded.
AcceptedRepair(session, base, text) ==
  LET task == Candidate.task
      committed == Commit(board, text, base.rev, base.digest, task)
  IN  /\ registry' = StaleAfterCommit(
           WithSession(registry, Current, Closed(session, "COMPLETED")),
           CurrentBase(committed), 0)
      /\ board' = MovedTask(committed, task, "COMPLETED")
      /\ decisions' = Decide(decisions, task, "ACCEPTED", base.rev,
                             CurrentRevision(committed))
      /\ attempts' = attempts + 1 /\ phase' = "superseding"

\* assert_current or commit_model raises: nothing catches it.
CommitRaises(session, base, text) ==
  /\ registry' = WithSession(registry, Current, session)
  /\ board' = IF session.status = "OPEN"
              THEN Commit(board, text, base.rev, base.digest, Candidate.task)
              ELSE board
  /\ phase' = "aborted"
  /\ UNCHANGED <<decisions, attempts>>

RepairAccepted ==
  /\ phase = "repairing"
  /\ \E prompt, reply \in TokenCounts, text \in MergedTexts :
       LET base == TaskBase(board, Candidate.task)
           replied == Replied(prompt, reply)
           session == AssertedCurrent(replied, CurrentBase(board))
       IN  /\ replied.status = "OPEN"
           /\ Gate(CurrentText(board)[Candidate.chain], text[Candidate.chain],
                   Candidate.code)
           /\ IF /\ session.status = "OPEN"
                 /\ ~StaleBase(board, base.rev, base.digest)
                 /\ SourcesAgree(board, text) /\ ProtectionHolds(board, text)
              THEN AcceptedRepair(session, base, text)
              ELSE CommitRaises(session, base, text)
  /\ UNCHANGED <<groups, reports, seen, queue, next>>

Supersede == phase = "superseding" /\ CloseRest("SUPERSEDED")

\* Mutant: after an accepted repair the round goes on with its old candidates.
MutNewRound == phase' = "attempt" /\ UNCHANGED <<groups, reports, seen>>

NewRound == phase' = "analyse" /\ groups' = <<>> /\ reports' = <<>> /\ seen' = 0

\* A new round starts on the new revision.
AllSuperseded ==
  /\ phase = "superseding" /\ next = Len(queue)
  /\ NewRound
  /\ UNCHANGED <<board, registry, decisions, queue, next, attempts>>

RepairNext ==
  \/ AnalyseChain \/ Dispatch \/ EndAnalysis \/ RoundRobin \/ EndOrder
  \/ QueueDrained \/ BudgetSpent \/ Defer \/ AllDeferred \/ StartAttempt
  \/ ContextFails \/ ContextUnresolved \/ ChatFails \/ RepairRejected
  \/ GateRaises \/ SessionExpires \/ RepairAccepted \/ Supersede \/ AllSuperseded

\* The loop is one thread of straight-line calls; the one call it waits for, the
\* chat, returns or raises.
RepairSpec == RepairInit /\ [][RepairNext]_vars /\ WF_vars(RepairNext)

-----------------------------------------------------------------------------
(* Properties                                                              *)

Settled == {"COMPLETED", "REJECTED", "BLOCKED"}
DecidedAs == [BLOCKED   |-> {"BLOCKED", "DEFERRED", "SUPERSEDED"},
              REJECTED  |-> {"REJECTED"},
              COMPLETED |-> {"ACCEPTED"}]

CutShort == {"unprepared", "unjudged", "aborted"}

\* No task outlives the loop and no session stays open: when it is done, every task
\* it ever created is settled, by exactly one decision that says the same.
SettledWhenDone ==
  phase = "done" =>
    /\ \A t \in DOMAIN board.tasks :
         LET about == {d \in DOMAIN decisions : decisions[d].task = t}
         IN  /\ board.tasks[t].status \in Settled
             /\ Cardinality(about) = 1
             /\ \A d \in about : decisions[d].status \in DecidedAs[board.tasks[t].status]
    /\ \A s \in DOMAIN registry.sessions : registry.sessions[s].status # "OPEN"

\* A loop that was cut short leaves no more in progress than the attempt in hand: an
\* ACTIVE task is that of the candidate, without a session or with an OPEN one, or
\* the session expired and the task is settled.
OneLeftInProgress ==
  phase \in CutShort =>
    LET held == {s \in DOMAIN registry.sessions :
                   registry.sessions[s].status \in {"OPEN", "EXPIRED"}}
    IN  /\ \A t \in DOMAIN board.tasks :
             board.tasks[t].status = "ACTIVE" <=> t = Candidate.task /\ phase # "aborted"
        /\ \A s \in held : registry.sessions[s].task = Candidate.task
        /\ held = IF phase = "unprepared" THEN {} ELSE {Current}

\* Work still to do is never against a superseded model: a task that is PENDING or
\* ACTIVE has the current revision and digest as its base, retries included, but for
\* those waiting to be superseded.
WaitingTasksCurrent ==
  \A t \in DOMAIN board.tasks :
    \/ board.tasks[t].status = "ACTIVE"
    \/ board.tasks[t].status = "PENDING" /\ phase # "superseding"
    => TaskBase(board, t) = CurrentBase(board)

\* The attempts of the run are counted once and for all rounds: every attempt shows
\* as a decision, no decision of an attempt is missing, and what was DEFERRED or
\* SUPERSEDED never had a session.
AttemptsAccounted ==
  /\ phase \notin {"repairing", "unjudged", "aborted"} =>
       Len(registry.sessions) <= attempts
  /\ \A s \in DOMAIN registry.sessions, d \in DOMAIN decisions :
       registry.sessions[s].task = decisions[d].task =>
         decisions[d].status \in {"ACCEPTED", "REJECTED"}
  /\ phase \notin {"repairing", "unjudged"} =>
       Cardinality({d \in DOMAIN decisions :
                      decisions[d].status \in {"ACCEPTED", "REJECTED"}})
         = Len(registry.sessions)

\* Whatever the model replies, all work ends in exactly one disposition, but for one
\* attempt that an exception may leave in progress, and every attempt of the run's
\* budget is one of them.
WorkAccounted == SettledWhenDone /\ OneLeftInProgress /\ AttemptsAccounted

\* The artifacts describe the terminal revision: when the loop ends, the last
\* report of every chain is about the committed model.
ReportsDescribeTerminalModel ==
  phase = "done" =>
    /\ Len(reports) = NChains
    /\ \A c \in Chains : /\ reports[c].rev = CurrentRevision(board)
                         /\ reports[c].found = CurrentText(board)[c]

\* A revision is the work of the accepted task whose base is the revision before
\* it: no accepted repair is lost and none overwrites another.
AcceptedRepairsChain ==
  \A r \in 1 .. CurrentRevision(board) :
    LET accepted == {d \in DOMAIN decisions : /\ decisions[d].status = "ACCEPTED"
                                             /\ decisions[d].committed = r}
    IN  /\ Cardinality(accepted) = 1
        /\ \A d \in accepted : /\ decisions[d].task = ModelAt(board, r).task
                               /\ board.tasks[decisions[d].task].rev = r - 1
                               /\ board.tasks[decisions[d].task].digest = ModelAt(board, r - 1).text

\* Gate and routing together: the chain a repair was routed for never gets worse
\* by it, in any revision of the run.
RepairedChainImproves ==
  \A r \in 1 .. CurrentRevision(board) :
    \E c \in Chains :
      /\ ModelAt(board, r).text[c] \subseteq ModelAt(board, r - 1).text[c]
      /\ ModelAt(board, r).text[c] # ModelAt(board, r - 1).text[c]

\* Every repair works on the model of its time: no commit is refused, waiting work
\* is on the current revision, accepted repairs follow one another without a gap,
\* each improves its chain, and the reports at the end are about the last one.
RepairsFollowModel ==
  /\ board.rejected = 0
  /\ WaitingTasksCurrent
  /\ AcceptedRepairsChain
  /\ RepairedChainImproves
  /\ ReportsDescribeTerminalModel

\* The loop ends.
Terminates == <>(phase \in {"done"} \cup CutShort)

\* "A rejected candidate does not abort the run or leave other chains' tasks
\* PENDING" (docstring of _build_multichain_ag_trace).
RejectionLeavesNoneWaiting ==
  phase = "aborted" =>
    \A t \in DOMAIN board.tasks : board.tasks[t].status \in Settled
=============================================================================
