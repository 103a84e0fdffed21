--------------------------- MODULE Collaboration ---------------------------
(***************************************************************************)
(* The board-mediated handoffs of one generate and one explore call:       *)
(* agents/collaboration.py, the planning handoff of ag_assurance_source.py *)
(* and the phases of agents/generation_pipeline.py that call them.  It     *)
(* composes the board (Blackboard) and the task sessions (TaskSession).    *)
(*                                                                         *)
(* The pipeline carries a model text of its own (context.final_sysml) from *)
(* phase to phase beside the committed one.  Provider calls are archived   *)
(* into the open session by an observer whose errors the LLM interface     *)
(* collects.  The A/G repair loop is AGRepair; here its rounds accept a    *)
(* repair, end it or raise.  Refinement and exploration may hand back any  *)
(* text.                                                                   *)
(*                                                                         *)
(* Of the publications only those some later step looks for are kept; the  *)
(* drafts, the handoff transitions (the status is in the handoff) and the  *)
(* controller's activation records are not.                                *)
(***************************************************************************)
EXTENDS Blackboard, TaskSession

CONSTANTS
  Requirements,   \* the authoritative requirements: their source text, by name
  SessionBudget,  \* task_session_max_turns and task_session_max_tokens
  TokenCounts,    \* tokens of a prompt or of a reply
  MaxCalls,       \* bound: provider calls of one handoff
  MaxRepairs      \* maximum_ag_repair_attempts, of which all may be accepted

ASSUME CollaborationAssumption ==
  /\ InitialText \in Texts /\ TokenCounts \subseteq Nat
  /\ SessionBudget \in [turns : Nat, tokens : Nat]
  /\ MaxCalls \in Nat /\ MaxRepairs \in Nat

VARIABLES
  registry,
  arm,       \* the experiment arm: "R1" context only, "R2" semantic assurance
  phase,     \* the phase reached; "aborted" when an exception left the pipeline
  planning,  \* the A/G planning handoff
  design,    \* the design handoff
  carried,   \* the text the pipeline carries
  planned,   \* revision the returned verification plan was made for, or -1
  goal,      \* the phase that assurance leads to, while it runs
  repairs    \* repairs it has accepted so far

vars == <<board, registry, arm, phase, planning, design, carried, planned, goal, repairs>>
assurance == <<goal, repairs>>

NoHandoff == [task |-> 0, session |-> 0, status |-> "NONE", calls |-> 0,
              errors |-> FALSE]

CollaborationInit ==
  /\ board = NewBoard(InitialText) /\ registry = EmptyRegistry
  /\ arm \in {"R1", "R2"} /\ phase = "start"
  /\ planning = NoHandoff /\ design = NoHandoff
  /\ carried = InitialText /\ planned = -1
  /\ goal = "assured" /\ repairs = 0

-----------------------------------------------------------------------------
(* Publications and handoffs                                               *)

PublishSource(b) ==
  Published(b, [type |-> "SOURCE", topic |-> "requirements.authoritative",
                reqs |-> Requirements, bound |-> TRUE], CurrentRevision(b))

PublishFact(b, topic) == Published(b, BoardNote("RESULT", topic), CurrentRevision(b))

HasFact(b, topic) ==
  \E k \in DOMAIN b.records : /\ b.records[k].topic = topic
                              /\ b.records[k].rev = CurrentRevision(b)

\* Mutant: a fact of an earlier revision counts as published.
MutEnsureReady(b) ==
  IF \E k \in DOMAIN b.records : b.records[k].topic = "model.terminal.ready" THEN b
  ELSE PublishFact(b, "model.terminal.ready")

\* _ensure_terminal_ready: the fact is published once per revision.
EnsureReady(b) ==
  IF HasFact(b, "model.terminal.ready") THEN b
  ELSE PublishFact(b, "model.terminal.ready")

\* A task is created and made ACTIVE.
Started(b) == MovedTask(CreatedTask(b), Len(b.tasks) + 1, "ACTIVE")

\* The context of a task that was started is built, and the task gets a session on
\* its base.
HandedOver(b, reg, role) ==
  LET task == Len(b.tasks) + 1
      started == Started(b)
  IN  [board |-> started,
       registry |-> Opened(reg, task, role, TaskBase(started, task), SessionBudget, 0),
       handoff |-> [NoHandoff EXCEPT !.task = task, !.status = "ACTIVE",
                                     !.session = Len(reg.sessions) + 1]]

\* _archive_provider_call: the prompt, then the reply; an append that raises ends
\* it, and raises exactly when the session is not OPEN afterwards.
Archived(session, prompt, reply) ==
  Appended(Appended(session, "user", prompt), "assistant", reply)

\* A provider call under the observer of a handoff.
Observed(handoff, prompt, reply) ==
  LET session == Archived(registry.sessions[handoff.session], prompt, reply)
  IN  [registry |-> WithSession(registry, handoff.session, session),
       handoff |-> [handoff EXCEPT !.calls = @ + 1,
                                   !.errors = @ \/ session.status # "OPEN"]]

\* A commit on the current revision, announced to the sessions when it succeeds.
CommitAndAnnounce(b, reg, text, task) ==
  LET committed == Commit(b, text, CurrentRevision(b), CurrentText(b), task)
  IN  [board |-> committed,
       ok |-> CurrentRevision(committed) > CurrentRevision(b),
       registry |-> IF CurrentRevision(committed) > CurrentRevision(b)
                    THEN StaleAfterCommit(reg, CurrentBase(committed), 0) ELSE reg]

\* Mutant: the session of a rejected handoff is left open.
MutSettle(b, reg, handoff, status) ==
  [board |-> IF b.tasks[handoff.task].status = "ACTIVE"
             THEN MovedTask(b, handoff.task, status) ELSE b,
   registry |-> IF status = "COMPLETED"
                THEN WithSession(reg, handoff.session,
                       Closed(reg.sessions[handoff.session], status))
                ELSE reg,
   handoff |-> [handoff EXCEPT !.status = status]]

\* A handoff ends: an ACTIVE task moves, an OPEN session is closed.
Settle(b, reg, handoff, status) ==
  [board |-> IF b.tasks[handoff.task].status = "ACTIVE"
             THEN MovedTask(b, handoff.task, status) ELSE b,
   registry |-> IF reg.sessions[handoff.session].status = "OPEN"
                THEN WithSession(reg, handoff.session,
                       Closed(reg.sessions[handoff.session], status))
                ELSE reg,
   handoff |-> [handoff EXCEPT !.status = status]]

-----------------------------------------------------------------------------
(* Board and A/G planning                                                  *)

OpenBoard ==
  /\ phase = "start" /\ phase' = "opened"
  /\ board' = PublishSource(board)
  /\ UNCHANGED <<registry, arm, planning, design, carried, planned, assurance>>

\* No chain was selected: the R2 arm fails closed before it opens a task.
NoChainSelected ==
  /\ phase = "opened" /\ arm = "R2" /\ phase' = "aborted"
  /\ UNCHANGED <<board, registry, arm, planning, design, carried, planned, assurance>>

OpenPlanning ==
  LET opened == HandedOver(board, registry, "AGPlanningAgent")
  IN  /\ phase = "opened" /\ arm = "R2" /\ phase' = "planning"
      /\ board' = opened.board /\ registry' = opened.registry
      /\ planning' = opened.handoff
      /\ UNCHANGED <<arm, design, carried, planned, assurance>>

\* The context builder raises for the task just started, over the token budget of the
\* envelope or for a record it must not include: the call ends, nobody settles the
\* task, and no session was opened.
ContextFails(b) ==
  /\ phase' = "aborted" /\ board' = Started(b)
  /\ UNCHANGED <<registry, arm, planning, design, carried, planned, assurance>>

PlanningContextFails == phase = "opened" /\ arm = "R2" /\ ContextFails(board)

PlanningCall ==
  /\ phase = "planning" /\ planning.calls < MaxCalls
  /\ \E prompt, reply \in TokenCounts :
       LET seen == Observed(planning, prompt, reply)
       IN  registry' = seen.registry /\ planning' = seen.handoff
  /\ UNCHANGED <<board, arm, phase, design, carried, planned, assurance>>

\* _close_ag_planning_session: the outcome of the compilation alone decides; a
\* compilation that raised goes on raising afterwards.
ClosePlanning ==
  /\ phase = "planning"
  /\ \E success \in BOOLEAN :
       LET closed == Settle(PublishFact(board, "agent.ag_planning.result"), registry,
                            planning, IF success THEN "COMPLETED" ELSE "REJECTED")
       IN  /\ board' = closed.board /\ registry' = closed.registry
           /\ planning' = closed.handoff
           /\ phase' = IF success THEN "planned" ELSE "aborted"
  /\ UNCHANGED <<arm, design, carried, planned, assurance>>

-----------------------------------------------------------------------------
(* The design handoff                                                      *)

DesignNext == phase = IF arm = "R1" THEN "opened" ELSE "planned"

PrepareDesign ==
  LET opened == HandedOver(board, registry, "DesignAgent")
  IN  /\ DesignNext
      /\ phase' = "designing"
      /\ board' = opened.board /\ registry' = opened.registry
      /\ design' = opened.handoff
      /\ UNCHANGED <<arm, planning, carried, planned, assurance>>

DesignContextFails == DesignNext /\ ContextFails(board)

DesignCall ==
  /\ phase = "designing" /\ design.calls < MaxCalls
  /\ \E prompt, reply \in TokenCounts :
       LET seen == Observed(design, prompt, reply)
       IN  registry' = seen.registry /\ design' = seen.handoff
  /\ UNCHANGED <<board, arm, phase, planning, carried, planned, assurance>>

RejectedDesign(reg) ==
  LET rejected == Settle(PublishFact(board, "agent.design.rejected"), reg,
                         design, "REJECTED")
  IN  /\ board' = rejected.board /\ registry' = rejected.registry
      /\ design' = rejected.handoff
      /\ phase' = "aborted"
      /\ UNCHANGED <<arm, planning, carried, planned, assurance>>

\* The design agent raises.
DesignRaises == phase = "designing" /\ RejectedDesign(registry)

\* Mutant: neither the observer's errors nor the session are looked at.
MutTranscriptBroken == FALSE

TranscriptBroken ==
  design.errors \/ registry.sessions[design.session].status # "OPEN"

\* assert_current passes.  It always does: see WritersCurrent.
DesignIsCurrent ==
  AssertedCurrent(registry.sessions[design.session], CurrentBase(board))
    = registry.sessions[design.session]

\* A result whose transcript is incomplete is rejected.
FinalizeIncomplete ==
  /\ phase = "designing" /\ DesignIsCurrent /\ TranscriptBroken
  /\ RejectedDesign(registry)

\* The session as finalize finds it: one without an archived call gets the
\* envelope and the reasoning as its transcript.
Transcripts ==
  {IF design.calls > 0 THEN registry.sessions[design.session]
   ELSE Archived(registry.sessions[design.session], prompt, reply) :
     prompt, reply \in TokenCounts}

FinalizeExpires ==
  /\ phase = "designing" /\ DesignIsCurrent /\ ~TranscriptBroken /\ design.calls = 0
  /\ \E session \in Transcripts :
       /\ session.status # "OPEN"
       /\ RejectedDesign(WithSession(registry, design.session, session))

Author(success) == IF success THEN design.task ELSE 0

\* The result is published, the task and the session end with it, and only then
\* the model is committed: a refused commit leaves the handoff ACTIVE.
FinalizeDesign ==
  /\ phase = "designing" /\ DesignIsCurrent /\ ~TranscriptBroken
  /\ \E session \in Transcripts, success \in BOOLEAN, text \in Texts :
       LET status == IF success THEN "COMPLETED" ELSE "REJECTED"
           settled == Settle(PublishFact(board, "agent.design.result"),
                             WithSession(registry, design.session, session),
                             design, status)
           end == CommitAndAnnounce(settled.board, settled.registry, text,
                                    Author(success))
       IN  /\ design.calls = 0 => session.status = "OPEN"
           /\ board' = end.board /\ registry' = end.registry
           /\ IF end.ok
              THEN phase' = "designed" /\ design' = settled.handoff /\ carried' = text
              ELSE phase' = "aborted" /\ UNCHANGED <<design, carried>>
  /\ UNCHANGED <<arm, planning, planned, assurance>>

-----------------------------------------------------------------------------
(* From the designed to the returned model                                 *)

\* Refinement or exploration hands back a text; _commit_terminal_model commits it
\* when it differs, and the fact that the model is terminal is published.
TerminalCommit(from, to) ==
  /\ phase = from
  /\ \E text \in Texts :
       LET end == CommitAndAnnounce(board, registry, text, 0)
       IN  IF text = CurrentText(board)
           THEN /\ phase' = to /\ carried' = text
                /\ board' = EnsureReady(board) /\ UNCHANGED registry
           ELSE /\ carried' = text /\ registry' = end.registry
                /\ phase' = IF end.ok THEN to ELSE "aborted"
                /\ board' = IF end.ok THEN EnsureReady(end.board) ELSE end.board
  /\ UNCHANGED <<arm, planning, design, planned, assurance>>

GenerateCommit == TerminalCommit("designed", "committed")
ExploreCommit == TerminalCommit("generated", "explored")

\* _run_verification_handoff on some board: the requirements are published again,
\* and the plan needs no provider.
Verified(b, reg, prompt, reply) ==
  LET opened == HandedOver(PublishSource(b), reg, "VerificationAgent")
      handoff == opened.handoff
      session == Archived(opened.registry.sessions[handoff.session], prompt, reply)
      noted == WithSession(opened.registry, handoff.session, session)
      closed == Settle(PublishFact(opened.board, "agent.verification.result"),
                       noted, handoff, "COMPLETED")
  IN  IF session.status = "OPEN"
      THEN [board |-> closed.board, registry |-> closed.registry, ok |-> TRUE]
      ELSE [board |-> opened.board, registry |-> noted, ok |-> FALSE]

Verification ==
  /\ phase = "committed"
  /\ \E prompt, reply \in TokenCounts :
       LET end == Verified(board, registry, prompt, reply)
       IN  /\ board' = end.board /\ registry' = end.registry
           /\ phase' = IF end.ok THEN "verified" ELSE "aborted"
           /\ planned' = IF end.ok THEN CurrentRevision(board) ELSE planned
  /\ UNCHANGED <<arm, planning, design, carried, assurance>>

VerificationContextFails == phase = "committed" /\ ContextFails(PublishSource(board))

\* R2 assures the committed model, R1 goes on without.
Assurance ==
  /\ phase = "verified"
  /\ IF arm = "R1" THEN phase' = "assured" /\ UNCHANGED assurance
     ELSE phase' = "assuring" /\ goal' = "assured" /\ repairs' = 0
  /\ UNCHANGED <<board, registry, arm, planning, design, carried, planned>>

-----------------------------------------------------------------------------
(* The collaboration artifacts                                             *)

\* The text the pipeline carries is not the committed one: a ValueError.
ArtifactsMismatch ==
  /\ phase \in {"assured", "explored"} /\ carried # CurrentText(board)
  /\ phase' = "aborted"
  /\ UNCHANGED <<board, registry, arm, planning, design, carried, planned, assurance>>

\* What the controller runs first: verification, unless it was done for this revision.
VerificationSteps(b) ==
  IF HasFact(b, "agent.verification.result")
  THEN {[board |-> b, registry |-> registry, ok |-> TRUE]}
  ELSE {Verified(b, registry, prompt, reply) : prompt, reply \in TokenCounts}
         \cup {[board |-> Started(PublishSource(b)), registry |-> registry, ok |-> FALSE]}

\* Mutant: the text the pipeline carried so far is returned.
MutReturned(b) == carried

\* _terminal_model_sysml, the text of the model assurance ended with.
Returned(b) == CurrentText(b)

\* _build_collaboration_artifacts runs the sources the revision still lacks, in R2
\* assurance as the last.
BuildArtifacts(from, to) ==
  /\ phase = from /\ carried = CurrentText(board)
  /\ \E verified \in VerificationSteps(EnsureReady(board)) :
       /\ board' = verified.board /\ registry' = verified.registry
       /\ planned' = IF verified.ok /\ ~HasFact(board, "agent.verification.result")
                     THEN CurrentRevision(board) ELSE planned
       /\ \/ /\ ~verified.ok
             /\ phase' = "aborted" /\ UNCHANGED <<carried, assurance>>
          \/ /\ verified.ok /\ (arm = "R1" \/ HasFact(board, "analysis.ag_trace"))
             /\ phase' = to /\ carried' = Returned(verified.board) /\ UNCHANGED assurance
          \/ /\ verified.ok /\ arm = "R2" /\ ~HasFact(board, "analysis.ag_trace")
             /\ phase' = "assuring" /\ goal' = to /\ repairs' = 0 /\ UNCHANGED carried
  /\ UNCHANGED <<arm, planning, design>>

GenerateArtifacts == BuildArtifacts("assured", "generated")
ExploreArtifacts == BuildArtifacts("explored", "done")

-----------------------------------------------------------------------------
(* The rounds of A/G assurance                                             *)

\* _build_ag_trace: a round publishes its analysis, and a repair it accepts is
\* committed and makes another round.  A repair keeps the requirement blocks.
AcceptRepair ==
  /\ phase = "assuring" /\ repairs < MaxRepairs
  /\ \E text \in Texts \ {CurrentText(board)} :
       /\ Identities[text] = Identities[CurrentText(board)]
       /\ board' = Commit(PublishFact(board, "analysis.ag_trace"), text,
                          CurrentRevision(board), CurrentText(board), 0)
  /\ repairs' = repairs + 1
  /\ UNCHANGED <<registry, arm, phase, planning, design, carried, planned, goal>>

\* A round without an accepted repair is the last.  _phase_assurance keeps the text
\* the pipeline carries; the artifacts return the text of the last revision.
EndAssurance ==
  /\ phase = "assuring" /\ phase' = goal
  /\ board' = PublishFact(board, "analysis.ag_trace")
  /\ carried' = IF goal = "assured" THEN carried ELSE Returned(board')
  /\ UNCHANGED <<registry, arm, planning, design, planned, assurance>>

\* A round raises, maybe after earlier ones have committed.
AssuranceRaises ==
  /\ phase = "assuring" /\ phase' = "aborted"
  /\ UNCHANGED <<board, registry, arm, planning, design, carried, planned, assurance>>

CollaborationNext ==
  \/ OpenBoard \/ NoChainSelected
  \/ OpenPlanning \/ PlanningContextFails \/ PlanningCall \/ ClosePlanning
  \/ PrepareDesign \/ DesignContextFails \/ DesignCall \/ DesignRaises
  \/ FinalizeIncomplete \/ FinalizeExpires \/ FinalizeDesign
  \/ GenerateCommit \/ Verification \/ VerificationContextFails
  \/ Assurance \/ GenerateArtifacts
  \/ AcceptRepair \/ EndAssurance \/ AssuranceRaises
  \/ ExploreCommit \/ ExploreArtifacts \/ ArtifactsMismatch

CollaborationSpec == CollaborationInit /\ [][CollaborationNext]_vars

-----------------------------------------------------------------------------
(* Properties                                                              *)

\* A session that can still be written to is on the current model, so that
\* assert_current never refuses the design agent's result.
WritersCurrent ==
  \A s \in DOMAIN registry.sessions :
    registry.sessions[s].status = "OPEN" => registry.sessions[s].base = CurrentBase(board)

\* Between handoffs no session is OPEN and every task is settled. Only an aborted call
\* leaves one behind, the last: its session expired, or its context could not be
\* built and it never had one.
WorkSettled ==
  phase \notin {"planning", "designing"} =>
    /\ \A s \in DOMAIN registry.sessions : registry.sessions[s].status # "OPEN"
    /\ \A t \in DOMAIN board.tasks :
         board.tasks[t].status \notin {"COMPLETED", "REJECTED"} =>
           /\ phase = "aborted" /\ t = Len(board.tasks)
           /\ \A s \in DOMAIN registry.sessions :
                registry.sessions[s].task = t => registry.sessions[s].status = "EXPIRED"

\* Work of the design and the verification agent counts as COMPLETED only with a
\* complete transcript: the session ended COMPLETED too.
AcceptedWithTranscript ==
  \A s \in DOMAIN registry.sessions :
    (/\ registry.sessions[s].role \in {"DesignAgent", "VerificationAgent"}
     /\ board.tasks[registry.sessions[s].task].status = "COMPLETED") =>
       registry.sessions[s].status = "COMPLETED"

\* The history names its authors: a revision that names a task was committed by a
\* task that was COMPLETED, and a design handoff that ended COMPLETED is the author
\* of exactly one revision.
RevisionsHaveAuthors ==
  /\ \A i \in DOMAIN board.revisions :
       board.revisions[i].task # 0 =>
         board.tasks[board.revisions[i].task].status = "COMPLETED"
  /\ design.status = "COMPLETED" =>
       Cardinality({i \in DOMAIN board.revisions :
                      board.revisions[i].task = design.task}) = 1

\* Every handoff is accounted for: nothing is left in progress behind it unless the
\* call was aborted over it, and the revisions are those of completed work.
HandoffsAccounted == WorkSettled /\ RevisionsHaveAuthors

\* What a call returns is what the board has committed, repairs included.
ReturnedIsCommitted ==
  phase \in {"generated", "done"} => carried = CurrentText(board)

\* The facts downstream sources wait for are about the model they will see: the
\* terminal fact of the current revision when sources are about to run, the A/G
\* analysis and the verification plan of the returned revision of generate, and
\* the analysis of the returned revision of explore.
FactsDescribeModel ==
  /\ phase \in {"committed", "verified", "explored"} => HasFact(board, "model.terminal.ready")
  /\ phase = "generated" => /\ HasFact(board, "agent.verification.result")
                            /\ planned = CurrentRevision(board)
  /\ phase \in {"generated", "done"} /\ arm = "R2" => HasFact(board, "analysis.ag_trace")

\* "The task session records its own terminal state and the orchestrator rejects it
\* before commit" (_notify_call_observers): a planning result that was accepted has
\* a complete transcript.
PlanningAcceptedWithTranscript ==
  planning.status = "COMPLETED" =>
    registry.sessions[planning.session].status = "COMPLETED"

\* "A/G assurance can make a final bounded repair ... The returned text is the single
\* source of truth" (_synchronize_terminal_snapshot): the pipeline goes on with the
\* text assurance has committed.
RepairIsCarried == phase = "assured" => carried = CurrentText(board)
=============================================================================
