---------------------------- MODULE TaskSession ----------------------------
(***************************************************************************)
(* The task sessions of prototyping/task_session.py.  A session is the     *)
(* transcript of one agent at one task, bound to the model revision and    *)
(* digest it was opened on (its base) and to a turn and a token budget.    *)
(* The registry hands sessions out and retires those left behind by a      *)
(* commit.                                                                 *)
(*                                                                         *)
(* As in Blackboard, methods are operators on a value (a session or a      *)
(* registry), so that AGRepair and Handoffs can compose them; the actions  *)
(* of TaskSessionCalls are the calls any caller may make, in any order.    *)
(***************************************************************************)
EXTENDS Integers, Sequences, FiniteSets, SequencesExt

SessionStatus == {"OPEN", "COMPLETED", "REJECTED", "BLOCKED", "EXPIRED", "STALE"}
Terminal == SessionStatus \ {"OPEN"}
MessageRoles == {"user", "assistant"}  \* a system message counts as a user message

-----------------------------------------------------------------------------
(* One session                                                             *)

UsedTokens(s) == FoldSeq(LAMBDA m, sum : sum + m.tokens, 0, s.messages)
AssistantTurns(s) == Cardinality({k \in DOMAIN s.messages :
                                    s.messages[k].role = "assistant"})

NewSession(task, role, base, budget, from) ==
  [task |-> task, role |-> role, base |-> base, budget |-> budget,
   status |-> "OPEN", messages |-> <<>>, from |-> from]

TurnsLeft(s) == AssistantTurns(s) < s.budget.turns

TokensLeft(s, tokens) == UsedTokens(s) + tokens <= s.budget.tokens

\* append on an OPEN session raises when this is false; on any other session it
\* always raises.
Fits(s, tokens) == TurnsLeft(s) /\ TokensLeft(s, tokens)

\* Mutant: append no longer refuses a session that is not OPEN.
MutAppendAlways(s, role, tokens) ==
  IF ~Fits(s, tokens) THEN [s EXCEPT !.status = "EXPIRED"]
  ELSE [s EXCEPT !.messages = Append(@, [role |-> role, tokens |-> tokens])]

\* append: a message that does not fit expires the session and is not kept.
Appended(s, role, tokens) ==
  IF s.status # "OPEN" THEN s
  ELSE IF ~Fits(s, tokens) THEN [s EXCEPT !.status = "EXPIRED"]
  ELSE [s EXCEPT !.messages = Append(@, [role |-> role, tokens |-> tokens])]

\* assert_current: another base makes the session STALE, whatever its status was.
AssertedCurrent(s, base) ==
  IF base = s.base THEN s ELSE [s EXCEPT !.status = "STALE"]

CloseRefused(s, status) ==
  status = "OPEN" \/ (s.status \in Terminal /\ s.status # status)

\* close: the ids of the records the session produced are left out, nothing reads them.
Closed(s, status) == [s EXCEPT !.status = status]

-----------------------------------------------------------------------------
(* The registry                                                            *)

EmptyRegistry == [sessions |-> <<>>, roles |-> [t \in {} |-> t]]

HasOpenSession(reg, task) ==
  \E s \in DOMAIN reg.sessions : /\ reg.sessions[s].task = task
                                 /\ reg.sessions[s].status = "OPEN"

OtherRole(reg, task, role) ==
  task \in DOMAIN reg.roles /\ reg.roles[task] # role

\* Mutant: a task's role is forgotten once its session has ended.
MutOpenRefused(reg, task, role) == HasOpenSession(reg, task)

OpenRefused(reg, task, role) ==
  OtherRole(reg, task, role) \/ HasOpenSession(reg, task)

Assigned(roles, task, role) ==
  [t \in DOMAIN roles \cup {task} |-> IF t = task THEN role ELSE roles[t]]

Opened(reg, task, role, base, budget, from) ==
  [sessions |-> Append(reg.sessions, NewSession(task, role, base, budget, from)),
   roles |-> Assigned(reg.roles, task, role)]

WithSession(reg, s, session) == [reg EXCEPT !.sessions[s] = session]

\* Mutant: rebase trusts that a STALE session has no successor.
MutRebaseBeside(reg, s) ==
  \/ reg.sessions[s].status # "STALE"
  \/ OtherRole(reg, reg.sessions[s].task, reg.sessions[s].role)

RebaseRefused(reg, s) ==
  \/ reg.sessions[s].status # "STALE"
  \/ OpenRefused(reg, reg.sessions[s].task, reg.sessions[s].role)

Rebased(reg, s, base) ==
  LET old == reg.sessions[s]
  IN  Opened(reg, old.task, old.role, base, old.budget, s)

\* Mutant: only the digest is compared, so a revision that restores an earlier
\* text leaves sessions of the earlier revision open.
MutStaleByDigest(reg, base, except) ==
  [reg EXCEPT !.sessions = [s \in DOMAIN @ |->
     IF @[s].status = "OPEN" /\ s # except /\ @[s].base.digest # base.digest
     THEN [@[s] EXCEPT !.status = "STALE"] ELSE @[s]]]

\* stale_after_commit: every OPEN session of another base but the excepted one.
StaleAfterCommit(reg, base, except) ==
  [reg EXCEPT !.sessions = [s \in DOMAIN @ |->
     IF @[s].status = "OPEN" /\ s # except /\ @[s].base # base
     THEN [@[s] EXCEPT !.status = "STALE"] ELSE @[s]]]
=============================================================================
