----------------------------- MODULE Blackboard -----------------------------
(***************************************************************************)
(* The shared board of prototyping/blackboard.py: the committed model      *)
(* revisions, the append-only record log, the tasks and the registry of    *)
(* requirement definitions that no later revision may change.              *)
(*                                                                         *)
(* The board is one value, and every method is an operator from a board to *)
(* the board it leaves behind, so that a caller which makes several calls  *)
(* in a row (AGRepair, Handoffs) composes them into one step.  The actions *)
(* of BlackboardCalls are the calls any caller of the class may make.      *)
(*                                                                         *)
(* A model text is an opaque value; two texts have the same SHA-256 digest *)
(* exactly when they are equal, so a text is its own digest.               *)
(***************************************************************************)
EXTENDS Integers, Sequences, FiniteSets

CONSTANTS
  Texts,        \* the model texts
  InitialText,  \* the text a workspace starts from
  Identities,   \* Identities[text]: the `requirement def` blocks a text holds, by name
  DocOf         \* DocOf[body]: the doc comment of a block body, white space normalised

VARIABLE board  \* the one board of a workspace, which every caller shares

NoReqs == [n \in {} |-> n]

TaskStatus == {"PENDING", "ACTIVE", "BLOCKED", "COMPLETED", "REJECTED"}

\* _TASK_TRANSITIONS: where a task may go from each status.
TaskTransitions ==
  [s \in TaskStatus |->
     CASE s = "PENDING" -> {"ACTIVE", "BLOCKED", "REJECTED"}
       [] s = "ACTIVE"  -> {"COMPLETED", "BLOCKED", "REJECTED"}
       [] OTHER         -> {}]

-----------------------------------------------------------------------------
(* A board and what its methods read                                       *)

\* Revision r is element r + 1: revisions are numbered from 0.
ModelAt(b, r) == b.revisions[r + 1]
CurrentRevision(b) == Len(b.revisions) - 1
CurrentText(b) == ModelAt(b, CurrentRevision(b)).text

\* The identity of a model, and the one a task was created on.
CurrentBase(b) == [rev |-> CurrentRevision(b), digest |-> CurrentText(b)]
TaskBase(b, t) == [rev |-> b.tasks[t].rev, digest |-> b.tasks[t].digest]

\* Mutant: a requirement the text does not mention is skipped.
MutSkipAbsentSource(b, text) ==
  \A k \in DOMAIN b.records :
    (/\ b.records[k].type = "SOURCE"
     /\ b.records[k].topic = "requirements.authoritative") =>
       \A n \in DOMAIN b.records[k].reqs \cap DOMAIN Identities[text] :
         DocOf[Identities[text][n]] = b.records[k].reqs[n]

\* _validate_authoritative_sources: the text carries every requirement of every
\* authoritative publication so far, with the published source text.
SourcesAgree(b, text) ==
  \A k \in DOMAIN b.records :
    (/\ b.records[k].type = "SOURCE"
     /\ b.records[k].topic = "requirements.authoritative") =>
       \A n \in DOMAIN b.records[k].reqs :
         /\ n \in DOMAIN Identities[text]
         /\ DocOf[Identities[text][n]] = b.records[k].reqs[n]

\* Mutant: a removed block is not noticed, only a changed one.
MutAllowRemoval(b, text) ==
  \A n \in DOMAIN b.protected \cap DOMAIN Identities[text] :
    Identities[text][n] = b.protected[n]

\* The first half of _check_and_extend_protection: no protected block is
\* changed or missing.
ProtectionHolds(b, text) ==
  \A n \in DOMAIN b.protected :
    /\ n \in DOMAIN Identities[text]
    /\ Identities[text][n] = b.protected[n]

\* The second half: setdefault keeps the first body a name was committed with.
Protect(protected, text) ==
  [n \in DOMAIN protected \cup DOMAIN Identities[text] |->
     IF n \in DOMAIN protected THEN protected[n] ELSE Identities[text][n]]

\* Mutant: only the digest is compared, so a model that came back passes.
MutDigestOnly(b, rev, digest) == digest # CurrentText(b)

\* The two comparisons at the head of commit_model.
StaleBase(b, rev, digest) ==
  rev # CurrentRevision(b) \/ digest # CurrentText(b)

-----------------------------------------------------------------------------
(* What each method leaves behind                                          *)

NewBoard(text) ==
  [revisions |-> <<[text |-> text, task |-> 0]>>, records |-> <<>>,
   tasks |-> <<>>, protected |-> Protect(NoReqs, text),
   rejected |-> 0, permitted |-> 0]

Log(b, note, rev, task, status) ==
  [b EXCEPT !.records = Append(@,
     [type |-> note.type, topic |-> note.topic, reqs |-> note.reqs,
      bound |-> note.bound, rev |-> rev, task |-> task, status |-> status])]

BoardNote(type, topic) ==
  [type |-> type, topic |-> topic, reqs |-> NoReqs, bound |-> TRUE]

\* publish at a revision that exists: the current one, or with allow_stale a
\* superseded one, which is counted.
Published(b, note, rev) ==
  Log(IF rev = CurrentRevision(b) THEN b ELSE [b EXCEPT !.permitted = @ + 1],
      note, rev, 0, "NONE")

\* Mutant: the base is taken one revision too low.
MutBaseOffByOne(b) ==
  Log([b EXCEPT !.tasks = Append(@, [status |-> "PENDING",
                                     rev |-> CurrentRevision(b) - 1,
                                     digest |-> CurrentText(b)])],
      BoardNote("CONTROL", "task.created"), CurrentRevision(b),
      Len(b.tasks) + 1, "PENDING")

CreatedTask(b) ==
  Log([b EXCEPT !.tasks = Append(@, [status |-> "PENDING",
                                     rev |-> CurrentRevision(b),
                                     digest |-> CurrentText(b)])],
      BoardNote("CONTROL", "task.created"), CurrentRevision(b),
      Len(b.tasks) + 1, "PENDING")

\* Mutant: the transition is logged before the status is assigned.
MutLogFirst(b, t, status) ==
  [Log(b, BoardNote("CONTROL", "task.transition"), CurrentRevision(b), t,
       b.tasks[t].status) EXCEPT !.tasks[t].status = status]

MovedTask(b, t, status) ==
  Log([b EXCEPT !.tasks[t].status = status],
      BoardNote("CONTROL", "task.transition"), CurrentRevision(b), t, status)

CommittedModel(b, text, task) ==
  Log([b EXCEPT !.revisions = Append(@, [text |-> text, task |-> task]),
                !.protected = Protect(@, text)],
      BoardNote("MODEL", "model.committed"), CurrentRevision(b) + 1, task, "NONE")

Refused(b) == [b EXCEPT !.rejected = @ + 1]

\* The outcome of commit_model: refused with the refusal counted, refused by an
\* exception that leaves the board alone, or committed.
Commit(b, text, rev, digest, task) ==
  IF StaleBase(b, rev, digest) THEN Refused(b)
  ELSE IF ~SourcesAgree(b, text) \/ ~ProtectionHolds(b, text) THEN b
  ELSE CommittedModel(b, text, task)
=============================================================================
