-------------------------- MODULE AGRepairProofs --------------------------
(***************************************************************************)
(* Proofs about AGRepair, for any chains, codes, routes, texts and budgets.*)
(*                                                                         *)
(* The invariant LoopInv says where each task of the loop is. A task that  *)
(* waits is the task of exactly one candidate: of a group while the chains *)
(* are analysed, and of the queue beyond `next` afterwards (Waiting). The  *)
(* task in work is the candidate just taken up, and stays so when an       *)
(* exception cuts the loop short (Working). So the PENDING tasks are those *)
(* of Waiting, the ACTIVE one is that of Working, and each other task is   *)
(* settled and has its one decision (StatusOf, DecidedOK). Every attempt   *)
(* opened one session, and a session that was not closed is that of the    *)
(* attempt in hand (Opens), so that attempts are counted by sessions       *)
(* (Counted). Candidates are for failures the model still has (Useful),    *)
(* and waiting tasks are on the current revision unless the round is over  *)
(* (Based); the board therefore refuses no repair, and each revision is    *)
(* the work of one accepted decision made on the one before (ChainedOK).   *)
(*                                                                         *)
(* Lemmas about board, registry, groups and queue come first, each for one *)
(* kind of change; then one lemma for every action.                        *)
(***************************************************************************)
EXTENDS AGRepair, FiniteSetTheorems, TLAPS

Revision == [text : Texts, task : Nat]
Entry == [type : {"CONTROL", "MODEL"},
          topic : {"task.created", "task.transition", "model.committed"},
          reqs : {NoReqs}, bound : {TRUE}, rev : Nat, task : Nat,
          status : TaskStatus \cup {"NONE"}]
Task == [status : TaskStatus, rev : Nat, digest : Texts]

\* The blocks that the initial text protects; no repair adds one or takes one away.
Blocks == Protect(NoReqs, InitialText)
SameBlocks(text) == Identities[text] = Identities[InitialText]

BoardOK(b) ==
  /\ b \in [revisions : Seq(Revision), records : Seq(Entry), tasks : Seq(Task),
            protected : {Blocks}, rejected : {0}, permitted : {0}]
  /\ b.revisions # <<>>
  /\ \A r \in 1 .. Len(b.revisions) : SameBlocks(b.revisions[r].text)

-----------------------------------------------------------------------------
(* The board.                                                              *)

\* What appending does to a sequence.
LEMMA AppendItem ==
  ASSUME NEW S, NEW s \in Seq(S), NEW e \in S
  PROVE  /\ Append(s, e) \in Seq(S)
         /\ Len(Append(s, e)) = Len(s) + 1 /\ Len(s) \in Nat
         /\ DOMAIN s = 1 .. Len(s) /\ DOMAIN Append(s, e) = 1 .. Len(s) + 1
         /\ \A k \in 1 .. Len(s) : Append(s, e)[k] = s[k]
         /\ Append(s, e)[Len(s) + 1] = e
OBVIOUS

\* A board has a current revision, and its sequences their types.
LEMMA BoardTypes ==
  ASSUME NEW b, BoardOK(b)
  PROVE  /\ CurrentRevision(b) \in Nat /\ CurrentText(b) \in Texts
         /\ SameBlocks(CurrentText(b)) /\ b.rejected = 0 /\ b.protected = Blocks
         /\ b.revisions \in Seq(Revision) /\ DOMAIN b.revisions = 1 .. Len(b.revisions)
         /\ b.records \in Seq(Entry) /\ DOMAIN b.records = 1 .. Len(b.records)
         /\ b.tasks \in Seq(Task) /\ DOMAIN b.tasks = 1 .. Len(b.tasks)
         /\ Len(b.revisions) \in Nat /\ Len(b.records) \in Nat /\ Len(b.tasks) \in Nat
         /\ CurrentRevision(b) + 1 = Len(b.revisions)
         /\ \A t \in 1 .. Len(b.tasks) : b.tasks[t] \in Task
<1>1. /\ b.revisions \in Seq(Revision) /\ b.records \in Seq(Entry) /\ b.tasks \in Seq(Task)
      /\ b.revisions # <<>> /\ b.rejected = 0 /\ b.protected = Blocks
  BY DEF BoardOK
<1>2. Len(b.revisions) \in Nat \ {0}
  BY <1>1
<1>3. /\ CurrentRevision(b) \in Nat /\ CurrentRevision(b) + 1 \in 1 .. Len(b.revisions)
      /\ CurrentRevision(b) + 1 = Len(b.revisions)
  BY <1>2 DEF CurrentRevision
<1>4. b.revisions[CurrentRevision(b) + 1] \in Revision
  BY <1>1, <1>3
<1>5. CurrentText(b) \in Texts /\ SameBlocks(CurrentText(b))
  BY <1>3, <1>4 DEF CurrentText, ModelAt, Revision, BoardOK
<1>6. /\ DOMAIN b.tasks = 1 .. Len(b.tasks) /\ DOMAIN b.records = 1 .. Len(b.records)
      /\ DOMAIN b.revisions = 1 .. Len(b.revisions)
      /\ Len(b.records) \in Nat /\ Len(b.tasks) \in Nat
      /\ \A t \in 1 .. Len(b.tasks) : b.tasks[t] \in Task
  BY <1>1
<1>7. QED
  BY <1>1, <1>2, <1>3, <1>5, <1>6

\* The board with these tasks and these records.
With(b, tasks, records) == [b EXCEPT !.tasks = tasks, !.records = records]

\* A board stays one when tasks are replaced and a record is added.
LEMMA WithOK ==
  ASSUME NEW b, BoardOK(b), NEW tasks \in Seq(Task), NEW records \in Seq(Entry)
  PROVE  LET c == With(b, tasks, records)
         IN  BoardOK(c) /\ c.revisions = b.revisions /\ c.tasks = tasks
BY DEF BoardOK, With

\* The revisions decide the current base.
LEMMA SameBase ==
  ASSUME NEW b, NEW c, c.revisions = b.revisions
  PROVE  /\ CurrentRevision(c) = CurrentRevision(b) /\ CurrentText(c) = CurrentText(b)
         /\ CurrentBase(c) = CurrentBase(b)
BY DEF CurrentRevision, CurrentText, CurrentBase, ModelAt

\* From b to c one PENDING task was created.
Created(b, c) ==
  /\ BoardOK(c) /\ c.revisions = b.revisions
  /\ Len(c.tasks) = Len(b.tasks) + 1
  /\ c.tasks[Len(b.tasks) + 1] = [status |-> "PENDING", rev |-> CurrentRevision(b),
                                  digest |-> CurrentText(b)]
  /\ \A t \in 1 .. Len(b.tasks) : c.tasks[t] = b.tasks[t]

\* A created task is PENDING and on the current model.
LEMMA TaskCreated ==
  ASSUME NEW b, BoardOK(b)
  PROVE  Created(b, CreatedTask(b))
<1> DEFINE task == [status |-> "PENDING", rev |-> CurrentRevision(b),
                    digest |-> CurrentText(b)]
           tasks == Append(b.tasks, task)
           e == [type |-> "CONTROL", topic |-> "task.created", reqs |-> NoReqs,
                 bound |-> TRUE, rev |-> CurrentRevision(b), task |-> Len(b.tasks) + 1,
                 status |-> "PENDING"]
           records == Append(b.records, e)
           c == CreatedTask(b)
<1>1. task \in Task /\ e \in Entry
  BY BoardTypes DEF Task, Entry, TaskStatus
<1>2. c = With(b, tasks, records)
  BY DEF CreatedTask, Log, BoardNote, With, BoardOK
<1>3. b.tasks \in Seq(Task) /\ b.records \in Seq(Entry)
  BY BoardTypes
<1> HIDE DEF task, e, c
<1>4. /\ tasks \in Seq(Task) /\ records \in Seq(Entry)
      /\ Len(tasks) = Len(b.tasks) + 1 /\ tasks[Len(b.tasks) + 1] = task
      /\ \A t \in 1 .. Len(b.tasks) : tasks[t] = b.tasks[t]
  BY <1>1, <1>3, AppendItem
<1> HIDE DEF tasks, records
<1>5. BoardOK(c) /\ c.revisions = b.revisions /\ c.tasks = tasks
  BY <1>2, <1>4, WithOK
<1>6. QED
  BY <1>4, <1>5 DEF Created, c, task

\* From b to c task t went to a status.
Moved(b, c, t, status) ==
  /\ BoardOK(c) /\ c.revisions = b.revisions
  /\ Len(c.tasks) = Len(b.tasks)
  /\ c.tasks[t].status = status
  /\ c.tasks[t].rev = b.tasks[t].rev /\ c.tasks[t].digest = b.tasks[t].digest
  /\ \A u \in 1 .. Len(b.tasks) : u # t => c.tasks[u] = b.tasks[u]

\* A move changes one status and adds its record.
LEMMA TaskMoved ==
  ASSUME NEW b, BoardOK(b), NEW t \in 1 .. Len(b.tasks), NEW status \in TaskStatus
  PROVE  Moved(b, MovedTask(b, t, status), t, status)
<1> DEFINE task == [b.tasks[t] EXCEPT !.status = status]
           tasks == [b.tasks EXCEPT ![t] = task]
           e == [type |-> "CONTROL", topic |-> "task.transition", reqs |-> NoReqs,
                 bound |-> TRUE, rev |-> CurrentRevision(b), task |-> t,
                 status |-> status]
           records == Append(b.records, e)
           c == MovedTask(b, t, status)
<1>1. b.tasks \in Seq(Task) /\ b.records \in Seq(Entry) /\ b.tasks[t] \in Task /\ t \in Nat
  BY BoardTypes
<1>2. e \in Entry
  BY <1>1, BoardTypes DEF Entry
<1>3. /\ task \in Task /\ task.status = status /\ task.rev = b.tasks[t].rev
      /\ task.digest = b.tasks[t].digest
  BY <1>1 DEF Task
<1>4. c = With(b, tasks, records)
  BY DEF MovedTask, Log, BoardNote, With, BoardOK
<1> HIDE DEF task, e, c
<1>5. /\ tasks \in Seq(Task) /\ Len(tasks) = Len(b.tasks) /\ tasks[t] = task
      /\ \A u \in 1 .. Len(b.tasks) : u # t => tasks[u] = b.tasks[u]
  BY <1>1, <1>3
<1>6. records \in Seq(Entry)
  BY <1>1, <1>2, AppendItem
<1> HIDE DEF tasks, records
<1>7. BoardOK(c) /\ c.revisions = b.revisions /\ c.tasks = tasks
  BY <1>4, <1>5, <1>6, WithOK
<1>8. QED
  BY <1>3, <1>5, <1>7 DEF Moved, c

\* From b to c a text with the blocks of every other one was committed for a task.
Advances(b, c, text, task) ==
  /\ BoardOK(c) /\ c.tasks = b.tasks
  /\ CurrentRevision(c) = CurrentRevision(b) + 1 /\ CurrentText(c) = text
  /\ ModelAt(c, CurrentRevision(c)) = [text |-> text, task |-> task]
  /\ \A r \in 0 .. CurrentRevision(b) : ModelAt(c, r) = ModelAt(b, r)

\* Protecting the same blocks again changes nothing.
LEMMA BlocksStay ==
  ASSUME NEW text, SameBlocks(text)
  PROVE  Protect(Blocks, text) = Blocks
BY DEF SameBlocks, Blocks, Protect, NoReqs

\* What a commit of a text with the same blocks leaves behind.
LEMMA ModelCommitted ==
  ASSUME NEW b, BoardOK(b), NEW text \in Texts, SameBlocks(text), NEW task \in Nat
  PROVE  Advances(b, CommittedModel(b, text, task), text, task)
<1> DEFINE r == [text |-> text, task |-> task]
           e == [type |-> "MODEL", topic |-> "model.committed", reqs |-> NoReqs,
                 bound |-> TRUE, rev |-> CurrentRevision(b) + 1, task |-> task,
                 status |-> "NONE"]
           revisions == Append(b.revisions, r)
           records == Append(b.records, e)
           c == CommittedModel(b, text, task)
<1>1. r \in Revision /\ e \in Entry
  BY BoardTypes DEF Revision, Entry
<1>2. /\ b.revisions \in Seq(Revision) /\ b.records \in Seq(Entry)
      /\ CurrentRevision(b) \in Nat /\ CurrentRevision(b) + 1 = Len(b.revisions)
      /\ b.protected = Blocks
  BY BoardTypes
<1>3. c = [b EXCEPT !.revisions = revisions, !.protected = Protect(b.protected, text),
                    !.records = records]
  BY DEF CommittedModel, Log, BoardNote, BoardOK
<1> HIDE DEF r, e, c
<1>4. c = [b EXCEPT !.revisions = revisions, !.protected = Blocks, !.records = records]
  BY <1>2, <1>3, BlocksStay
<1>5. /\ revisions \in Seq(Revision) /\ records \in Seq(Entry)
      /\ Len(revisions) = Len(b.revisions) + 1 /\ revisions[Len(b.revisions) + 1] = r
      /\ \A k \in 1 .. Len(b.revisions) : revisions[k] = b.revisions[k]
  BY <1>1, <1>2, AppendItem
<1> HIDE DEF revisions, records
<1>6. c.revisions = revisions /\ c.tasks = b.tasks
  BY <1>4 DEF BoardOK
<1>7. \A k \in 1 .. Len(revisions) : SameBlocks(revisions[k].text)
  <2>1. r.text = text
    BY DEF r
  <2>2. \A k \in 1 .. Len(revisions) : k \in 1 .. Len(b.revisions) \/ k = Len(b.revisions) + 1
    BY <1>2, <1>5
  <2>3. QED
    BY <1>5, <2>1, <2>2 DEF BoardOK
<1>8. BoardOK(c)
  <2>1. revisions # <<>>
    BY <1>2, <1>5
  <2>2. QED
    BY <1>4, <1>5, <1>6, <1>7, <2>1 DEF BoardOK
<1>9. CurrentRevision(c) = CurrentRevision(b) + 1
  BY <1>2, <1>5, <1>6 DEF CurrentRevision
<1>10. ModelAt(c, CurrentRevision(c)) = r /\ r.text = text
  BY <1>2, <1>5, <1>6, <1>9 DEF ModelAt, r
<1>11. CurrentText(c) = text
  BY <1>10 DEF CurrentText
<1>12. \A k \in 0 .. CurrentRevision(b) : ModelAt(c, k) = ModelAt(b, k)
  <2>1. \A k \in 0 .. CurrentRevision(b) : k + 1 \in 1 .. Len(b.revisions)
    BY <1>2
  <2>2. QED
    BY <1>5, <1>6, <2>1 DEF ModelAt
<1>13. QED
  BY <1>6, <1>8, <1>9, <1>10, <1>11, <1>12 DEF Advances, c, r

\* A merged text is never refused: it is made on the current revision, has the blocks
\* of every other text, and no source is published on this board.
LEMMA NothingRefused ==
  ASSUME NEW b, BoardOK(b), NEW text, SameBlocks(text)
  PROVE  SourcesAgree(b, text) /\ ProtectionHolds(b, text)
<1>1. \A k \in DOMAIN b.records : b.records[k].type # "SOURCE"
  <2>1. b.records \in Seq(Entry)
    BY BoardTypes
  <2>2. \A k \in DOMAIN b.records : b.records[k] \in Entry
    BY <2>1
  <2>3. QED
    BY <2>2 DEF Entry
<1>2. SourcesAgree(b, text)
  BY <1>1 DEF SourcesAgree
<1>3. b.protected = Blocks
  BY BoardTypes
<1>4. ProtectionHolds(b, text)
  BY <1>3 DEF ProtectionHolds, Blocks, Protect, NoReqs, SameBlocks
<1>5. QED
  BY <1>2, <1>4

-----------------------------------------------------------------------------
(* The sessions.                                                           *)

Message == [role : MessageRoles, tokens : Nat]
Session == [task : Nat, role : {"RepairAgent"}, base : [rev : Nat, digest : Texts],
            budget : {SessionBudget}, status : SessionStatus,
            messages : Seq(Message), from : {0}]

RegistryWith(roles) == [sessions : Seq(Session), roles : {roles}]
RegistryOK(reg) == reg \in RegistryWith(reg.roles)

\* The sequences of a registry have their types.
LEMMA RegistryTypes ==
  ASSUME NEW reg, RegistryOK(reg)
  PROVE  /\ reg.sessions \in Seq(Session) /\ Len(reg.sessions) \in Nat
         /\ DOMAIN reg.sessions = 1 .. Len(reg.sessions)
         /\ \A s \in 1 .. Len(reg.sessions) : reg.sessions[s] \in Session
BY DEF RegistryOK, RegistryWith

\* A session is written to: it goes on, or it expires.
Written(old, new) ==
  /\ new \in Session /\ new.task = old.task /\ new.base = old.base
  /\ new.status = old.status \/ (old.status = "OPEN" /\ new.status = "EXPIRED")

\* Appending to a transcript is a write.
LEMMA AppendWrites ==
  ASSUME NEW s \in Session, NEW role \in MessageRoles, NEW tokens \in Nat
  PROVE  Written(s, Appended(s, role, tokens))
<1>1. [role |-> role, tokens |-> tokens] \in Message
  BY DEF Message
<1>2. Append(s.messages, [role |-> role, tokens |-> tokens]) \in Seq(Message)
  BY <1>1 DEF Session
<1>3. CASE s.status # "OPEN"
  BY <1>3 DEF Appended, Written
<1>4. CASE s.status = "OPEN" /\ ~Fits(s, tokens)
  BY <1>4 DEF Appended, Written, Session, SessionStatus
<1>5. CASE s.status = "OPEN" /\ Fits(s, tokens)
  BY <1>2, <1>5 DEF Appended, Written, Session
<1>6. QED
  BY <1>3, <1>4, <1>5

\* Two writes in a row are one.
LEMMA WrittenTwice ==
  ASSUME NEW s, NEW t, NEW u, Written(s, t), Written(t, u)
  PROVE  Written(s, u)
BY DEF Written

\* The transcript of an attempt is written to the one session it opened.
LEMMA AttemptWrites ==
  ASSUME registry.sessions[Current] \in Session,
         NEW prompt \in TokenCounts, NEW reply \in TokenCounts
  PROVE  /\ Written(registry.sessions[Current], Prompted(prompt))
         /\ Written(registry.sessions[Current], Replied(prompt, reply))
<1> DEFINE s == registry.sessions[Current]
           t == Appended(s, "user", 0)
           u == Appended(t, "user", prompt)
           v == Appended(u, "assistant", reply)
<1>1. /\ prompt \in Nat /\ reply \in Nat /\ 0 \in Nat
      /\ "user" \in MessageRoles /\ "assistant" \in MessageRoles
  BY RepairAssumption DEF MessageRoles
<1>2. Prompted(prompt) = u /\ Replied(prompt, reply) = v
  BY DEF Prompted, Replied
<1> HIDE DEF s
<1>3. Written(s, t) /\ t \in Session
  BY <1>1, AppendWrites DEF s, Written
<1> HIDE DEF t
<1>4. Written(t, u) /\ u \in Session
  BY <1>1, <1>3, AppendWrites DEF Written
<1> HIDE DEF u
<1>5. Written(u, v)
  BY <1>1, <1>4, AppendWrites
<1> HIDE DEF v
<1>6. Written(s, u) /\ Written(s, v)
  BY <1>3, <1>4, <1>5, WrittenTwice
<1>7. QED
  BY <1>6, <1>2 DEF s

\* A closed session is a session.
LEMMA ClosedType ==
  ASSUME NEW s \in Session, NEW status \in SessionStatus
  PROVE  LET c == Closed(s, status)
         IN  c \in Session /\ c.status = status /\ c.task = s.task /\ c.base = s.base
BY DEF Closed, Session

\* From reg to r session k was replaced.
Replaced(reg, r, k, new) ==
  /\ RegistryOK(r) /\ Len(r.sessions) = Len(reg.sessions)
  /\ r.sessions[k] = new
  /\ \A s \in 1 .. Len(reg.sessions) : s # k => r.sessions[s] = reg.sessions[s]

\* A registry stays one when one of its sessions is replaced.
LEMMA SessionReplaced ==
  ASSUME NEW reg, RegistryOK(reg), NEW k \in 1 .. Len(reg.sessions), NEW new \in Session
  PROVE  Replaced(reg, WithSession(reg, k, new), k, new)
<1> DEFINE r == WithSession(reg, k, new)
           sessions == [reg.sessions EXCEPT ![k] = new]
<1>1. r = [reg EXCEPT !.sessions = sessions]
  BY DEF WithSession, RegistryOK, RegistryWith
<1>2. reg.sessions \in Seq(Session)
  BY RegistryTypes
<1>3. /\ sessions \in Seq(Session) /\ Len(sessions) = Len(reg.sessions) /\ sessions[k] = new
      /\ \A s \in 1 .. Len(reg.sessions) : s # k => sessions[s] = reg.sessions[s]
  BY <1>2
<1> HIDE DEF sessions, r
<1>4. RegistryOK(r) /\ r.sessions = sessions
  BY <1>1, <1>3 DEF RegistryOK, RegistryWith
<1>5. QED
  BY <1>3, <1>4 DEF r, Replaced

\* From reg to r a session was opened for a task.
Begun(reg, r, task, base) ==
  LET n == Len(reg.sessions)
  IN  /\ RegistryOK(r) /\ Len(r.sessions) = n + 1
      /\ \A s \in 1 .. n : r.sessions[s] = reg.sessions[s]
      /\ r.sessions[n + 1] \in Session /\ r.sessions[n + 1].task = task
      /\ r.sessions[n + 1].base = base /\ r.sessions[n + 1].status = "OPEN"

\* Opening adds one OPEN session for the task.
LEMMA SessionOpened ==
  ASSUME NEW reg, RegistryOK(reg), NEW task \in Nat, NEW base \in [rev : Nat, digest : Texts]
  PROVE  Begun(reg, Opened(reg, task, "RepairAgent", base, SessionBudget, 0), task, base)
<1> DEFINE new == NewSession(task, "RepairAgent", base, SessionBudget, 0)
           r == Opened(reg, task, "RepairAgent", base, SessionBudget, 0)
           sessions == Append(reg.sessions, new)
           roles == Assigned(reg.roles, task, "RepairAgent")
           n == Len(reg.sessions)
<1>1. new \in Session /\ new.task = task /\ new.base = base /\ new.status = "OPEN"
  BY DEF NewSession, Session, SessionStatus
<1>2. r = [sessions |-> sessions, roles |-> roles]
  BY DEF Opened
<1>3. reg.sessions \in Seq(Session)
  BY RegistryTypes
<1> HIDE DEF new, roles, r
<1>4. /\ sessions \in Seq(Session) /\ Len(sessions) = n + 1 /\ sessions[n + 1] = new
      /\ \A s \in 1 .. n : sessions[s] = reg.sessions[s]
  BY <1>1, <1>3, AppendItem
<1> HIDE DEF sessions, n
<1>5. RegistryOK(r) /\ r.sessions = sessions
  BY <1>2, <1>4 DEF RegistryOK, RegistryWith
<1>6. QED
  BY <1>1, <1>4, <1>5 DEF r, n, Begun

\* A commit is announced when no session is OPEN, and so to nobody.
LEMMA NobodyStale ==
  ASSUME NEW reg, RegistryOK(reg), NEW base,
         \A s \in 1 .. Len(reg.sessions) : reg.sessions[s].status # "OPEN"
  PROVE  StaleAfterCommit(reg, base, 0) = reg
<1> DEFINE stale == [s \in DOMAIN reg.sessions |->
     IF reg.sessions[s].status = "OPEN" /\ s # 0 /\ reg.sessions[s].base # base
     THEN [reg.sessions[s] EXCEPT !.status = "STALE"] ELSE reg.sessions[s]]
<1>1. StaleAfterCommit(reg, base, 0) = [reg EXCEPT !.sessions = stale]
  BY DEF StaleAfterCommit, RegistryOK, RegistryWith
<1>2. stale = [s \in DOMAIN reg.sessions |-> reg.sessions[s]]
  BY RegistryTypes
<1>3. stale = reg.sessions
  BY <1>2, RegistryTypes
<1> HIDE DEF stale
<1>4. [reg EXCEPT !.sessions = stale] = reg
  BY <1>3 DEF RegistryOK, RegistryWith
<1>5. QED
  BY <1>1, <1>4

-----------------------------------------------------------------------------
(* The inductive invariant.                                                *)

Candidates == [task : Nat, chain : Chains, code : Codes, retryOf : Nat]
DecisionStatus == {"BLOCKED", "DEFERRED", "SUPERSEDED", "REJECTED", "ACCEPTED"}
Decision == [task : Nat, status : DecisionStatus, base : Nat, committed : Nat]
Report == [rev : Nat, found : SUBSET Codes]
Phases == {"analyse", "order", "attempt", "repairing", "deferring", "superseding",
           "done"} \cup CutShort
\* The phases in which the session of the attempt is OPEN.
InSession == {"repairing", "unjudged"}

LoopTypeOK ==
  /\ BoardOK(board) /\ RegistryOK(registry) /\ decisions \in Seq(Decision)
  /\ phase \in Phases /\ attempts \in Nat /\ seen \in 0 .. NCodes
  /\ groups \in Seq(Seq(Candidates)) /\ reports \in Seq(Report)
  /\ queue \in Seq(Candidates) /\ next \in 0 .. Len(queue)

\* The tasks of the candidates that wait: those of the groups until the order is made,
\* those of the queue that were not taken up after that.
GroupTasks(gs) == {t \in Nat : \E c \in DOMAIN gs : \E i \in DOMAIN gs[c] : gs[c][i].task = t}
QueueTasks(q, n) == {t \in Nat : \E i \in n + 1 .. Len(q) : q[i].task = t}
Waiting(p, gs, q, n) ==
  IF p \in {"analyse", "order"} THEN GroupTasks(gs) ELSE QueueTasks(q, n)
Working(p, q, n) == IF p \in InSession \cup {"unprepared"} THEN {q[n].task} ELSE {}

\* Exactly the tasks of waiting are PENDING, exactly those of working are ACTIVE.
StatusOf(b, waiting, working) ==
  \A t \in 1 .. Len(b.tasks) : /\ b.tasks[t].status = "PENDING" <=> t \in waiting
                               /\ b.tasks[t].status = "ACTIVE" <=> t \in working

\* The tasks of a set are on the current model.
OnCurrent(b, tasks) ==
  \A t \in tasks \cap 1 .. Len(b.tasks) : TaskBase(b, t) = CurrentBase(b)

\* The groups: one for each chain analysed, no task twice, no more candidates than codes,
\* and each for a failure that its chain has.
GroupsOK(gs, tasks) ==
  /\ Len(gs) <= NChains
  /\ \A c \in 1 .. Len(gs) : /\ Len(gs[c]) <= NCodes
                             /\ \A i \in 1 .. Len(gs[c]) : gs[c][i].task \in 1 .. tasks
  /\ \A c, d \in 1 .. Len(gs) : \A i \in 1 .. Len(gs[c]), j \in 1 .. Len(gs[d]) :
       gs[c][i].task = gs[d][j].task => c = d /\ i = j

QueueOK(q, tasks) ==
  /\ \A i \in 1 .. Len(q) : q[i].task \in 1 .. tasks
  /\ \A i, j \in 1 .. Len(q) : q[i].task = q[j].task => i = j

\* The loop's own bookkeeping, by phase.
Places ==
  /\ groups # <<>> => Len(groups[Len(groups)]) <= seen
  /\ phase = "order" =>
       /\ next = 0
       /\ \A i \in 1 .. Len(queue) :
            \E c \in 1 .. Len(groups) : \E k \in 1 .. Len(groups[c]) : queue[i] = groups[c][k]
  /\ phase \notin {"analyse", "superseding", "aborted"} => Len(groups) = NChains
  /\ phase \in {"repairing", "aborted"} => next > 0
  /\ phase = "done" => next = Len(queue)

\* A candidate that waits is about a failure its chain still has.
Failing(candidate, text) == candidate.code \in text[candidate.chain]
Useful ==
  /\ phase \in {"analyse", "order"} =>
       \A c \in 1 .. Len(groups) : \A i \in 1 .. Len(groups[c]) :
         Failing(groups[c][i], CurrentText(board))
  /\ phase \in {"attempt", "repairing"} =>
       \A i \in 1 .. Len(queue) : i >= next => Failing(queue[i], CurrentText(board))

\* Every settled task has its one decision, which says the same, and no other task has one.
DecidedOK(b, ds) ==
  /\ \A d \in 1 .. Len(ds) :
       /\ ds[d].task \in 1 .. Len(b.tasks)
       /\ b.tasks[ds[d].task].status \in Settled
       /\ ds[d].status \in DecidedAs[b.tasks[ds[d].task].status]
  /\ \A d, e \in 1 .. Len(ds) : ds[d].task = ds[e].task => d = e
  /\ \A t \in 1 .. Len(b.tasks) :
       b.tasks[t].status \in Settled => \E d \in 1 .. Len(ds) : ds[d].task = t

\* Revision r is the work of the one decision d.
MadeBy(b, ds, r, d) ==
  /\ \A e \in 1 .. Len(ds) : ds[e].status = "ACCEPTED" /\ ds[e].committed = r <=> e = d
  /\ ds[d].task = ModelAt(b, r).task
  /\ b.tasks[ds[d].task].rev = r - 1
  /\ b.tasks[ds[d].task].digest = ModelAt(b, r - 1).text

ChainedOK(b, ds) ==
  /\ \A d \in 1 .. Len(ds) : ds[d].committed <= CurrentRevision(b)
  /\ \A r \in 1 .. CurrentRevision(b) : \E d \in 1 .. Len(ds) : MadeBy(b, ds, r, d)

\* A chain got better from text to text.
Better(old, new) == \E c \in Chains : new[c] \subseteq old[c] /\ new[c] # old[c]
ImprovedOK(b) ==
  \A r \in 1 .. CurrentRevision(b) : Better(ModelAt(b, r - 1).text, ModelAt(b, r).text)

\* Only tasks that were taken up have sessions.
HeldOK(b, reg) ==
  \A s \in 1 .. Len(reg.sessions) :
    /\ reg.sessions[s].task \in 1 .. Len(b.tasks)
    /\ b.tasks[reg.sessions[s].task].status \in {"ACTIVE", "REJECTED", "COMPLETED"}

\* The one session that was not closed is that of the attempt in hand: OPEN while the
\* attempt is made, EXPIRED when that ended it.
Unclosed == {"OPEN", "EXPIRED"}
LastIs(reg, task, status) ==
  LET session == reg.sessions[Len(reg.sessions)]
  IN  Len(reg.sessions) > 0 /\ session.status = status /\ session.task = task
AtWork(b, reg, task) ==
  /\ LastIs(reg, task, "OPEN")
  /\ reg.sessions[Len(reg.sessions)].base = CurrentBase(b)
Opens ==
  /\ \A s \in 1 .. Len(registry.sessions) :
       registry.sessions[s].status \in Unclosed =>
         phase \in InSession \cup {"aborted"} /\ s = Len(registry.sessions)
  /\ phase \in InSession => AtWork(board, registry, queue[next].task)
  /\ phase = "aborted" => LastIs(registry, queue[next].task, "EXPIRED")

\* The decisions that close an attempt.
Attempted(ds) == {d \in 1 .. Len(ds) : ds[d].status \in {"ACCEPTED", "REJECTED"}}
Counted ==
  /\ Cardinality(Attempted(decisions))
       = Len(registry.sessions) - (IF phase \in InSession THEN 1 ELSE 0)
  /\ Len(registry.sessions)
       <= attempts + (IF phase \in InSession \cup {"aborted"} THEN 1 ELSE 0)

Reported ==
  phase \notin {"superseding", "aborted"} =>
    /\ Len(reports) = Len(groups)
    /\ \A c \in 1 .. Len(groups) : /\ reports[c].rev = CurrentRevision(board)
                                   /\ reports[c].found = CurrentText(board)[c]

Based ==
  /\ phase # "superseding" => OnCurrent(board, Waiting(phase, groups, queue, next))
  /\ OnCurrent(board, Working(phase, queue, next))

LoopInv ==
  /\ LoopTypeOK
  /\ GroupsOK(groups, Len(board.tasks)) /\ QueueOK(queue, Len(board.tasks))
  /\ Places /\ Useful
  /\ StatusOf(board, Waiting(phase, groups, queue, next), Working(phase, queue, next))
  /\ Based
  /\ DecidedOK(board, decisions) /\ ChainedOK(board, decisions) /\ ImprovedOK(board)
  /\ HeldOK(board, registry) /\ Opens /\ Counted /\ Reported

-----------------------------------------------------------------------------
(* Tasks: created, taken up, settled.                                      *)

\* A new task waits, and is on the current model.
LEMMA CreateWaits ==
  ASSUME NEW b, BoardOK(b), NEW c, Created(b, c), NEW waiting, NEW working,
         Len(b.tasks) + 1 \notin working,
         StatusOf(b, waiting, working)
  PROVE  StatusOf(c, waiting \cup {Len(b.tasks) + 1}, working)
<1> DEFINE n == Len(b.tasks)
<1>1. n \in Nat /\ Len(c.tasks) = n + 1
  BY BoardTypes DEF Created
<1>2. c.tasks[n + 1].status = "PENDING" /\ \A t \in 1 .. n : c.tasks[t] = b.tasks[t]
  BY DEF Created
<1>3. \A t \in 1 .. n : t # n + 1
  BY <1>1
<1>4. \A t \in 1 .. Len(c.tasks) : t \in 1 .. n \/ t = n + 1
  BY <1>1
<1>5. QED
  BY <1>2, <1>3, <1>4 DEF StatusOf

\* Tasks that were on the current model stay there when one is created.
LEMMA CreateOnCurrent ==
  ASSUME NEW b, BoardOK(b), NEW c, Created(b, c), NEW tasks, OnCurrent(b, tasks)
  PROVE  OnCurrent(c, tasks \cup {Len(b.tasks) + 1})
<1> DEFINE n == Len(b.tasks)
<1>1. n \in Nat /\ Len(c.tasks) = n + 1 /\ \A t \in 1 .. Len(c.tasks) : t \in 1 .. n \/ t = n + 1
  BY BoardTypes DEF Created
<1>2. CurrentBase(c) = CurrentBase(b)
  BY SameBase DEF Created
<1>3. TaskBase(c, n + 1) = CurrentBase(b)
  BY DEF TaskBase, CurrentBase, Created
<1>4. \A t \in 1 .. n : TaskBase(c, t) = TaskBase(b, t)
  BY DEF TaskBase, Created
<1>5. ASSUME NEW t \in (tasks \cup {n + 1}) \cap 1 .. Len(c.tasks)
      PROVE  TaskBase(c, t) = CurrentBase(c)
  <2>1. CASE t = n + 1
    BY <1>2, <1>3, <2>1
  <2>2. CASE t \in 1 .. n /\ t # n + 1
    <3>1. t \in tasks \cap 1 .. n
      BY <2>2
    <3>2. TaskBase(b, t) = CurrentBase(b)
      BY <3>1 DEF OnCurrent
    <3>3. QED
      BY <1>2, <1>4, <2>2, <3>2
  <2>3. QED
    BY <1>1, <2>1, <2>2
<1>6. QED
  BY <1>5 DEF OnCurrent

\* It changes nothing of what was decided, attempted and committed.
LEMMA CreateKeeps ==
  ASSUME NEW b, BoardOK(b), NEW c, Created(b, c), NEW ds, NEW reg,
         DecidedOK(b, ds), ChainedOK(b, ds), ImprovedOK(b), HeldOK(b, reg)
  PROVE  DecidedOK(c, ds) /\ ChainedOK(c, ds) /\ ImprovedOK(c) /\ HeldOK(c, reg)
<1> DEFINE n == Len(b.tasks)
<1>1. n \in Nat /\ Len(c.tasks) = n + 1
  BY BoardTypes DEF Created
<1>2. /\ \A t \in 1 .. n : t \in 1 .. Len(c.tasks) /\ c.tasks[t] = b.tasks[t]
      /\ \A t \in 1 .. Len(c.tasks) : t \in 1 .. n \/ t = n + 1
      /\ c.tasks[n + 1].status = "PENDING" /\ "PENDING" \notin Settled
  BY <1>1 DEF Created, Settled
<1>3. CurrentRevision(c) = CurrentRevision(b) /\ \A r : ModelAt(c, r) = ModelAt(b, r)
  BY SameBase DEF Created, ModelAt
<1>4. DecidedOK(c, ds)
  <2>1. \A d \in 1 .. Len(ds) : ds[d].task \in 1 .. n
    BY DEF DecidedOK
  <2>2. \A d \in 1 .. Len(ds) : /\ ds[d].task \in 1 .. Len(c.tasks)
                                /\ c.tasks[ds[d].task] = b.tasks[ds[d].task]
    BY <1>2, <2>1
  <2>3. \A t \in 1 .. Len(c.tasks) :
          c.tasks[t].status \in Settled => t \in 1 .. n /\ b.tasks[t].status \in Settled
    BY <1>2
  <2>4. QED
    BY <2>2, <2>3 DEF DecidedOK
<1>5. ChainedOK(c, ds)
  <2>1. \A d \in 1 .. Len(ds) : ds[d].task \in 1 .. n
    BY DEF DecidedOK
  <2>2. \A r : \A d \in 1 .. Len(ds) : MadeBy(b, ds, r, d) => MadeBy(c, ds, r, d)
    BY <1>2, <1>3, <2>1 DEF MadeBy
  <2>3. QED
    BY <1>3, <2>2 DEF ChainedOK
<1>6. ImprovedOK(c)
  BY <1>3 DEF ImprovedOK
<1>7. HeldOK(c, reg)
  BY <1>2 DEF HeldOK
<1>8. QED
  BY <1>4, <1>5, <1>6, <1>7

\* A task that is taken up.
LEMMA MoveActive ==
  ASSUME NEW b, BoardOK(b), NEW c, NEW t \in 1 .. Len(b.tasks), Moved(b, c, t, "ACTIVE"),
         NEW waiting, t \in waiting, NEW ds, NEW reg,
         StatusOf(b, waiting, {}), DecidedOK(b, ds), ChainedOK(b, ds), HeldOK(b, reg)
  PROVE  /\ StatusOf(c, waiting \ {t}, {t})
         /\ DecidedOK(c, ds) /\ ChainedOK(c, ds) /\ HeldOK(c, reg)
<1>1. /\ Len(c.tasks) = Len(b.tasks) /\ c.tasks[t].status = "ACTIVE"
      /\ \A u \in 1 .. Len(b.tasks) : u # t => c.tasks[u] = b.tasks[u]
      /\ \A u \in 1 .. Len(b.tasks) : /\ c.tasks[u].rev = b.tasks[u].rev
                                      /\ c.tasks[u].digest = b.tasks[u].digest
  BY DEF Moved
<1>2. b.tasks[t].status = "PENDING"
  BY DEF StatusOf
<1>3. "ACTIVE" \notin Settled /\ "PENDING" \notin Settled
  BY DEF Settled
<1>4. StatusOf(c, waiting \ {t}, {t})
  BY <1>1 DEF StatusOf
<1>5. DecidedOK(c, ds)
  <2>1. \A u \in 1 .. Len(b.tasks) : b.tasks[u].status \in Settled => u # t /\ c.tasks[u] = b.tasks[u]
    BY <1>1, <1>2, <1>3
  <2>2. \A d \in 1 .. Len(ds) :
          /\ ds[d].task \in 1 .. Len(c.tasks)
          /\ c.tasks[ds[d].task].status \in Settled
          /\ ds[d].status \in DecidedAs[c.tasks[ds[d].task].status]
    BY <1>1, <2>1 DEF DecidedOK
  <2>3. \A u \in 1 .. Len(c.tasks) :
          c.tasks[u].status \in Settled => \E d \in 1 .. Len(ds) : ds[d].task = u
    BY <1>1, <1>3 DEF DecidedOK
  <2>4. QED
    BY <2>2, <2>3 DEF DecidedOK
<1>6. ChainedOK(c, ds)
  <2>1. \A d \in 1 .. Len(ds) : ds[d].task \in 1 .. Len(b.tasks)
    BY DEF DecidedOK
  <2>2. CurrentRevision(c) = CurrentRevision(b) /\ \A r : ModelAt(c, r) = ModelAt(b, r)
    BY SameBase DEF Moved, ModelAt
  <2>3. \A r : \A d \in 1 .. Len(ds) : MadeBy(b, ds, r, d) => MadeBy(c, ds, r, d)
    BY <1>1, <2>1, <2>2 DEF MadeBy
  <2>4. QED
    BY <2>2, <2>3 DEF ChainedOK
<1>7. HeldOK(c, reg)
  BY <1>1 DEF HeldOK
<1>8. QED
  BY <1>4, <1>5, <1>6, <1>7

\* What a move never changes.
LEMMA MoveKeeps ==
  ASSUME NEW b, BoardOK(b), NEW c, NEW t \in 1 .. Len(b.tasks), NEW status, Moved(b, c, t, status)
  PROVE  /\ \A tasks : OnCurrent(b, tasks) => OnCurrent(c, tasks)
         /\ ImprovedOK(b) => ImprovedOK(c)
<1>1. CurrentBase(c) = CurrentBase(b) /\ CurrentRevision(c) = CurrentRevision(b)
      /\ \A r : ModelAt(c, r) = ModelAt(b, r)
  BY SameBase DEF Moved, ModelAt
<1>2. Len(c.tasks) = Len(b.tasks) /\ \A u \in 1 .. Len(b.tasks) : TaskBase(c, u) = TaskBase(b, u)
  BY DEF Moved, TaskBase
<1>3. QED
  BY <1>1, <1>2 DEF OnCurrent, ImprovedOK

\* A task that was waiting or worked at is settled: it is neither any more.
LEMMA MoveSettled ==
  ASSUME NEW b, BoardOK(b), NEW c, NEW t \in 1 .. Len(b.tasks), NEW status \in Settled,
         Moved(b, c, t, status), NEW waiting, NEW working, StatusOf(b, waiting, working)
  PROVE  StatusOf(c, waiting \ {t}, working \ {t})
<1>1. /\ Len(c.tasks) = Len(b.tasks) /\ c.tasks[t].status = status
      /\ \A u \in 1 .. Len(b.tasks) : u # t => c.tasks[u] = b.tasks[u]
  BY DEF Moved
<1>2. status # "PENDING" /\ status # "ACTIVE"
  BY DEF Settled
<1>3. QED
  BY <1>1, <1>2 DEF StatusOf

\* It had no decision, and gets the one that says so.
LEMMA SettledDecided ==
  ASSUME NEW b, BoardOK(b), NEW c, NEW t \in 1 .. Len(b.tasks), NEW status \in Settled,
         Moved(b, c, t, status), b.tasks[t].status \notin Settled,
         NEW ds \in Seq(Decision), DecidedOK(b, ds),
         NEW es \in Seq(Decision), Len(es) = Len(ds) + 1,
         \A d \in 1 .. Len(ds) : es[d] = ds[d],
         es[Len(ds) + 1].task = t, es[Len(ds) + 1].status \in DecidedAs[status]
  PROVE  DecidedOK(c, es)
<1> DEFINE n == Len(ds)
<1>1. n \in Nat /\ \A d \in 1 .. Len(es) : d \in 1 .. n \/ d = n + 1
  OBVIOUS
<1>2. /\ Len(c.tasks) = Len(b.tasks) /\ c.tasks[t].status = status
      /\ \A u \in 1 .. Len(b.tasks) : u # t => c.tasks[u] = b.tasks[u]
  BY DEF Moved
<1>3. \A d \in 1 .. n : /\ es[d] = ds[d] /\ es[d].task \in 1 .. Len(b.tasks) /\ es[d].task # t
                        /\ b.tasks[es[d].task].status \in Settled
                        /\ es[d].status \in DecidedAs[b.tasks[es[d].task].status]
  BY DEF DecidedOK
<1>4. ASSUME NEW d \in 1 .. Len(es)
      PROVE  /\ es[d].task \in 1 .. Len(c.tasks)
             /\ c.tasks[es[d].task].status \in Settled
             /\ es[d].status \in DecidedAs[c.tasks[es[d].task].status]
  <2>1. CASE d \in 1 .. n
    BY <1>2, <1>3, <2>1
  <2>2. CASE d = n + 1
    BY <1>2, <2>2
  <2>3. QED
    BY <1>1, <2>1, <2>2
<1>5. ASSUME NEW d \in 1 .. Len(es), NEW e \in 1 .. Len(es), es[d].task = es[e].task
      PROVE  d = e
  <2>1. CASE d \in 1 .. n /\ e \in 1 .. n
    BY <1>3, <1>5, <2>1 DEF DecidedOK
  <2>2. CASE d = n + 1 \/ e = n + 1
    BY <1>1, <1>3, <1>5, <2>2
  <2>3. QED
    BY <1>1, <2>1, <2>2
<1>6. ASSUME NEW u \in 1 .. Len(c.tasks), c.tasks[u].status \in Settled
      PROVE  \E d \in 1 .. Len(es) : es[d].task = u
  <2>1. CASE u = t
    BY <1>1, <2>1
  <2>2. CASE u # t
    <3>1. PICK d \in 1 .. n : ds[d].task = u
      BY <1>2, <1>6, <2>2 DEF DecidedOK
    <3>2. d \in 1 .. Len(es)
      BY <1>1
    <3>3. QED
      BY <3>1, <3>2
  <2>3. QED
    BY <2>1, <2>2
<1>7. QED
  BY <1>4, <1>5, <1>6 DEF DecidedOK

\* Unless it was accepted, the revisions stay the work they are.
LEMMA SettledChained ==
  ASSUME NEW b, BoardOK(b), NEW c, NEW t \in 1 .. Len(b.tasks), NEW status,
         Moved(b, c, t, status),
         NEW ds \in Seq(Decision), DecidedOK(b, ds), ChainedOK(b, ds),
         NEW es \in Seq(Decision), Len(es) = Len(ds) + 1,
         \A d \in 1 .. Len(ds) : es[d] = ds[d],
         es[Len(ds) + 1].status # "ACCEPTED", es[Len(ds) + 1].committed = 0
  PROVE  ChainedOK(c, es)
<1> DEFINE n == Len(ds)
<1>1. n \in Nat /\ \A d \in 1 .. Len(es) : d \in 1 .. n \/ d = n + 1
  OBVIOUS
<1>2. \A u \in 1 .. Len(b.tasks) : /\ c.tasks[u].rev = b.tasks[u].rev
                                   /\ c.tasks[u].digest = b.tasks[u].digest
  BY DEF Moved
<1>3. CurrentRevision(c) = CurrentRevision(b) /\ \A r : ModelAt(c, r) = ModelAt(b, r)
  BY SameBase DEF Moved, ModelAt
<1>4. \A d \in 1 .. Len(es) : es[d].committed <= CurrentRevision(c)
  <2>1. CurrentRevision(b) \in Nat
    BY BoardTypes
  <2>2. \A d \in 1 .. n : es[d].committed <= CurrentRevision(b)
    BY DEF ChainedOK
  <2>3. es[n + 1].committed <= CurrentRevision(b)
    BY <2>1
  <2>4. QED
    BY <1>1, <1>3, <2>2, <2>3
<1>5. ASSUME NEW r, NEW d \in 1 .. n, MadeBy(b, ds, r, d)
      PROVE  MadeBy(c, es, r, d)
  <2>1. ds[d].task \in 1 .. Len(b.tasks)
    BY DEF DecidedOK
  <2>2. \A e \in 1 .. Len(es) : es[e].status = "ACCEPTED" /\ es[e].committed = r <=> e = d
    BY <1>1, <1>5 DEF MadeBy
  <2>3. QED
    BY <1>2, <1>3, <1>5, <2>1, <2>2 DEF MadeBy
<1>6. \A r \in 1 .. CurrentRevision(c) : \E d \in 1 .. Len(es) : MadeBy(c, es, r, d)
  <2>1. \A d \in 1 .. n : d \in 1 .. Len(es)
    BY <1>1
  <2>2. QED
    BY <1>3, <1>5, <2>1 DEF ChainedOK
<1>7. QED
  BY <1>4, <1>6 DEF ChainedOK

\* A task in work that is settled otherwise than BLOCKED keeps the session it has.
LEMMA SettledHeld ==
  ASSUME NEW b, NEW c, NEW t \in 1 .. Len(b.tasks), NEW status, Moved(b, c, t, status),
         NEW reg, HeldOK(b, reg),
         b.tasks[t].status = "PENDING" \/ status \in {"REJECTED", "COMPLETED"}
  PROVE  HeldOK(c, reg)
<1>1. /\ Len(c.tasks) = Len(b.tasks) /\ c.tasks[t].status = status
      /\ \A u \in 1 .. Len(b.tasks) : u # t => c.tasks[u] = b.tasks[u]
  BY DEF Moved
<1>2. QED
  BY <1>1 DEF HeldOK

-----------------------------------------------------------------------------
(* Decisions and revisions.                                                *)

\* The set of attempts that were decided on grows by one, or not at all.
LEMMA AttemptsDecided ==
  ASSUME NEW ds \in Seq(Decision), NEW es \in Seq(Decision), Len(es) = Len(ds) + 1,
         \A d \in 1 .. Len(ds) : es[d] = ds[d]
  PROVE  /\ Cardinality(Attempted(ds)) \in Nat
         /\ es[Len(ds) + 1].status \in {"ACCEPTED", "REJECTED"} =>
              Cardinality(Attempted(es)) = Cardinality(Attempted(ds)) + 1
         /\ es[Len(ds) + 1].status \notin {"ACCEPTED", "REJECTED"} =>
              Attempted(es) = Attempted(ds)
<1> DEFINE n == Len(ds)
<1>1. n \in Nat /\ Len(es) = n + 1 /\ \A d \in 1 .. Len(es) : d \in 1 .. n \/ d = n + 1
  OBVIOUS
<1>2. /\ \A d \in 1 .. n : d \in 1 .. Len(es) /\ es[d] = ds[d]
      /\ n + 1 \in 1 .. Len(es) /\ n + 1 \notin 1 .. n
  BY <1>1
<1> HIDE DEF n
<1>3. IsFiniteSet(Attempted(ds))
  <2>1. IsFiniteSet(1 .. n)
    BY <1>1, FS_Interval
  <2>2. Attempted(ds) \subseteq 1 .. n
    BY DEF Attempted, n
  <2>3. QED
    BY <2>1, <2>2, FS_Subset
<1>4. ASSUME es[n + 1].status \in {"ACCEPTED", "REJECTED"}
      PROVE  Attempted(es) = Attempted(ds) \cup {n + 1}
  BY <1>1, <1>2, <1>4 DEF Attempted, n
<1>5. n + 1 \notin Attempted(ds)
  BY <1>2 DEF Attempted, n
<1>6. ASSUME es[n + 1].status \in {"ACCEPTED", "REJECTED"}
      PROVE  Cardinality(Attempted(es)) = Cardinality(Attempted(ds)) + 1
  BY <1>3, <1>4, <1>5, <1>6, FS_AddElement
<1>7. ASSUME es[n + 1].status \notin {"ACCEPTED", "REJECTED"}
      PROVE  Attempted(es) = Attempted(ds)
  BY <1>1, <1>2, <1>7 DEF Attempted, n
<1>8. Cardinality(Attempted(ds)) \in Nat
  BY <1>3, FS_CardinalityType
<1>9. QED
  BY <1>6, <1>7, <1>8 DEF n

\* An accepted repair, committed for the task and then decided: the new revision is the
\* work of the new decision, which was made on the revision before.
LEMMA AcceptedChained ==
  ASSUME NEW b, BoardOK(b), NEW m, NEW text, NEW t \in 1 .. Len(b.tasks), Advances(b, m, text, t),
         NEW c, Moved(m, c, t, "COMPLETED"), TaskBase(b, t) = CurrentBase(b),
         NEW ds \in Seq(Decision), DecidedOK(b, ds), ChainedOK(b, ds),
         NEW es \in Seq(Decision), Len(es) = Len(ds) + 1,
         \A d \in 1 .. Len(ds) : es[d] = ds[d],
         es[Len(ds) + 1].status = "ACCEPTED", es[Len(ds) + 1].task = t,
         es[Len(ds) + 1].committed = CurrentRevision(c)
  PROVE  ChainedOK(c, es)
<1> DEFINE n == Len(ds)
           new == CurrentRevision(b) + 1
<1>1. n \in Nat /\ n + 1 \in 1 .. Len(es) /\ \A d \in 1 .. Len(es) : d \in 1 .. n \/ d = n + 1
  OBVIOUS
<1>2. /\ CurrentRevision(b) \in Nat /\ CurrentRevision(c) = new
      /\ \A r \in 0 .. CurrentRevision(b) : ModelAt(c, r) = ModelAt(b, r)
      /\ ModelAt(c, new).task = t
  BY BoardTypes, SameBase DEF Advances, Moved, ModelAt
<1>3. /\ \A u \in 1 .. Len(b.tasks) : /\ c.tasks[u].rev = b.tasks[u].rev
                                      /\ c.tasks[u].digest = b.tasks[u].digest
  BY DEF Moved, Advances
<1>4. \A d \in 1 .. n : es[d].committed <= CurrentRevision(b)
  BY DEF ChainedOK
<1>5. \A d \in 1 .. Len(es) : es[d].committed <= CurrentRevision(c)
  <2>1. \A d \in 1 .. n : es[d] = ds[d] /\ ds[d] \in Decision
    OBVIOUS
  <2>2. \A d \in 1 .. n : es[d].committed \in Nat
    BY <2>1 DEF Decision
  <2>3. \A d \in 1 .. n : es[d].committed <= new
    BY <1>2, <1>4, <2>2
  <2>4. es[n + 1].committed = new /\ new <= new
    BY <1>2
  <2>5. QED
    BY <1>1, <1>2, <2>3, <2>4
<1>6. ASSUME NEW r \in 1 .. CurrentRevision(b)
      PROVE  \E d \in 1 .. Len(es) : MadeBy(c, es, r, d)
  <2>1. PICK d \in 1 .. n : MadeBy(b, ds, r, d)
    BY DEF ChainedOK
  <2>2. ds[d].task \in 1 .. Len(b.tasks) /\ es[d] = ds[d] /\ d \in 1 .. Len(es)
    BY <1>1 DEF DecidedOK
  <2>3. r # new /\ r \in 0 .. CurrentRevision(b) /\ r - 1 \in 0 .. CurrentRevision(b)
    BY <1>2
  <2>4. \A e \in 1 .. Len(es) : es[e].status = "ACCEPTED" /\ es[e].committed = r <=> e = d
    <3>1. \A e \in 1 .. n : es[e].status = "ACCEPTED" /\ es[e].committed = r <=> e = d
      BY <2>1 DEF MadeBy
    <3>2. es[n + 1].committed # r /\ n + 1 # d
      BY <1>1, <1>2, <2>3
    <3>3. QED
      BY <1>1, <3>1, <3>2
  <2>5. MadeBy(c, es, r, d)
    BY <1>2, <1>3, <2>1, <2>2, <2>3, <2>4 DEF MadeBy
  <2>6. QED
    BY <2>2, <2>5
<1>7. MadeBy(c, es, new, n + 1)
  <2>1. \A e \in 1 .. Len(es) : es[e].status = "ACCEPTED" /\ es[e].committed = new <=> e = n + 1
    <3>1. \A e \in 1 .. n : es[e].committed # new /\ e # n + 1
      <4>1. \A e \in 1 .. n : es[e] \in Decision
        BY <1>1
      <4>2. \A e \in 1 .. n : es[e].committed \in Nat
        BY <4>1 DEF Decision
      <4>3. QED
        BY <1>1, <1>2, <1>4, <4>2
    <3>2. QED
      BY <1>1, <1>2, <3>1
  <2>2. new - 1 = CurrentRevision(b) /\ ModelAt(c, CurrentRevision(b)) = ModelAt(b, CurrentRevision(b))
    <3>1. CurrentRevision(b) \in 0 .. CurrentRevision(b)
      BY <1>2
    <3>2. QED
      BY <1>2, <3>1
  <2>3. /\ c.tasks[t].rev = CurrentRevision(b)
        /\ c.tasks[t].digest = ModelAt(b, CurrentRevision(b)).text
    BY <1>3 DEF TaskBase, CurrentBase, CurrentText
  <2>4. QED
    BY <1>2, <2>1, <2>2, <2>3 DEF MadeBy
<1>8. \A r \in 1 .. CurrentRevision(c) : r \in 1 .. CurrentRevision(b) \/ r = new
  BY <1>2
<1>9. QED
  BY <1>1, <1>5, <1>6, <1>7, <1>8 DEF ChainedOK

\* A commit changes no task, and makes the model better where it was repaired.
LEMMA CommitKeeps ==
  ASSUME NEW b, BoardOK(b), NEW m, NEW text, NEW t, Advances(b, m, text, t)
  PROVE  /\ \A ds : DecidedOK(b, ds) => DecidedOK(m, ds)
         /\ \A reg : HeldOK(b, reg) => HeldOK(m, reg)
         /\ \A waiting, working : StatusOf(b, waiting, working) => StatusOf(m, waiting, working)
         /\ ImprovedOK(b) /\ Better(CurrentText(b), text) => ImprovedOK(m)
<1>1. m.tasks = b.tasks
  BY DEF Advances
<1>2. ASSUME ImprovedOK(b), Better(CurrentText(b), text)
      PROVE  ImprovedOK(m)
  <2>1. CurrentRevision(b) \in Nat /\ CurrentRevision(m) = CurrentRevision(b) + 1
    BY BoardTypes DEF Advances
  <2>2. \A r \in 0 .. CurrentRevision(b) : ModelAt(m, r) = ModelAt(b, r)
    BY DEF Advances
  <2>3. ModelAt(m, CurrentRevision(b) + 1).text = text
    BY <2>1 DEF Advances
  <2>4. ASSUME NEW r \in 1 .. CurrentRevision(m)
        PROVE  Better(ModelAt(m, r - 1).text, ModelAt(m, r).text)
    <3>1. CASE r \in 1 .. CurrentRevision(b)
      <4>1. r \in 0 .. CurrentRevision(b) /\ r - 1 \in 0 .. CurrentRevision(b)
        BY <2>1, <3>1
      <4>2. QED
        BY <1>2, <2>2, <3>1, <4>1 DEF ImprovedOK
    <3>2. CASE r = CurrentRevision(b) + 1
      <4>1. r - 1 = CurrentRevision(b) /\ r - 1 \in 0 .. CurrentRevision(b)
        BY <2>1, <3>2
      <4>2. ModelAt(m, r - 1).text = CurrentText(b)
        BY <2>2, <4>1 DEF CurrentText
      <4>3. QED
        BY <1>2, <2>3, <3>2, <4>2
    <3>3. QED
      BY <2>1, <3>1, <3>2
  <2>5. QED
    BY <2>4 DEF ImprovedOK
<1>3. QED
  BY <1>1, <1>2 DEF DecidedOK, HeldOK, StatusOf

-----------------------------------------------------------------------------
(* Groups and queue.                                                       *)

\* A chain was analysed: its group is still empty.
LEMMA GroupOpened ==
  ASSUME NEW gs \in Seq(Seq(Candidates)), NEW tasks \in Nat, GroupsOK(gs, tasks),
         Len(gs) + 1 \in Chains
  PROVE  LET hs == Append(gs, <<>>)
         IN  /\ hs \in Seq(Seq(Candidates)) /\ hs # <<>> /\ Len(hs) = Len(gs) + 1
             /\ \A c \in 1 .. Len(gs) : hs[c] = gs[c]
             /\ hs[Len(hs)] = <<>> /\ Len(hs[Len(hs)]) = 0
             /\ GroupsOK(hs, tasks) /\ GroupTasks(hs) = GroupTasks(gs)
<1> DEFINE hs == Append(gs, <<>>)
           n == Len(gs)
<1>1. <<>> \in Seq(Candidates) /\ Len(<<>>) = 0
  OBVIOUS
<1>2. /\ hs \in Seq(Seq(Candidates)) /\ Len(hs) = n + 1 /\ n \in Nat
      /\ DOMAIN gs = 1 .. n /\ DOMAIN hs = 1 .. n + 1
      /\ \A c \in 1 .. n : hs[c] = gs[c]
      /\ hs[n + 1] = <<>>
  BY <1>1, AppendItem
<1> HIDE DEF hs, n
<1>3. /\ n + 1 <= NChains /\ NCodes \in Nat
      /\ \A c \in 1 .. Len(hs) : c \in 1 .. n \/ c = n + 1
      /\ \A i \in 1 .. Len(hs[n + 1]) : FALSE
      /\ Len(hs[n + 1]) = 0 /\ hs # <<>>
  BY <1>1, <1>2, RepairAssumption DEF Chains, n
<1>4. GroupsOK(hs, tasks)
  <2>1. Len(hs) <= NChains
    BY <1>2, <1>3
  <2>2. \A c \in 1 .. Len(hs) : /\ Len(hs[c]) <= NCodes
                                /\ \A i \in 1 .. Len(hs[c]) : hs[c][i].task \in 1 .. tasks
    <3>1. \A c \in 1 .. n : /\ Len(gs[c]) <= NCodes
                            /\ \A i \in 1 .. Len(gs[c]) : gs[c][i].task \in 1 .. tasks
      BY DEF GroupsOK, n
    <3>2. 0 <= NCodes
      BY <1>3
    <3>3. QED
      BY <1>2, <1>3, <3>1, <3>2
  <2>3. \A c, d \in 1 .. Len(hs) : \A i \in 1 .. Len(hs[c]), j \in 1 .. Len(hs[d]) :
          hs[c][i].task = hs[d][j].task => c = d /\ i = j
    <3>1. \A c, d \in 1 .. n : \A i \in 1 .. Len(gs[c]), j \in 1 .. Len(gs[d]) :
            gs[c][i].task = gs[d][j].task => c = d /\ i = j
      BY DEF GroupsOK, n
    <3>2. \A c \in 1 .. Len(hs) : \A i \in 1 .. Len(hs[c]) : c \in 1 .. n /\ hs[c] = gs[c]
      BY <1>2, <1>3
    <3>3. SUFFICES ASSUME NEW c \in 1 .. Len(hs), NEW d \in 1 .. Len(hs),
                          NEW i \in 1 .. Len(hs[c]), NEW j \in 1 .. Len(hs[d]),
                          hs[c][i].task = hs[d][j].task
                   PROVE  c = d /\ i = j
      OBVIOUS
    <3>4. c \in 1 .. n /\ d \in 1 .. n /\ hs[c] = gs[c] /\ hs[d] = gs[d]
      BY <3>2
    <3>5. i \in 1 .. Len(gs[c]) /\ j \in 1 .. Len(gs[d]) /\ gs[c][i].task = gs[d][j].task
      BY <3>3, <3>4
    <3>6. \A k \in 1 .. Len(gs[c]), l \in 1 .. Len(gs[d]) :
            gs[c][k].task = gs[d][l].task => c = d /\ k = l
      BY <3>1, <3>4
    <3>7. QED
      BY <3>5, <3>6
  <2>4. QED
    BY <2>1, <2>2, <2>3 DEF GroupsOK
<1>5. GroupTasks(hs) = GroupTasks(gs)
  <2>1. \A c \in DOMAIN hs : c \in DOMAIN gs \/ c = n + 1
    BY <1>2
  <2>2. \A c \in DOMAIN gs : c \in DOMAIN hs /\ hs[c] = gs[c]
    BY <1>2
  <2>3. \A i \in DOMAIN hs[n + 1] : FALSE
    BY <1>1, <1>2
  <2>4. QED
    BY <2>1, <2>2, <2>3 DEF GroupTasks
<1>6. QED
  BY <1>2, <1>3, <1>4, <1>5 DEF hs, n

\* The groups with a candidate more in the last one.
Joined(gs, candidate) == [gs EXCEPT ![Len(gs)] = Append(@, candidate)]

\* What then holds of the groups hs, when the candidate is for a new task.
JoinsLast(gs, hs, candidate, tasks) ==
  LET n == Len(gs)
  IN  /\ hs \in Seq(Seq(Candidates)) /\ Len(hs) = n /\ hs # <<>>
      /\ \A c \in 1 .. n : c # n => hs[c] = gs[c]
      /\ Len(hs[n]) = Len(gs[n]) + 1
      /\ hs[n][Len(gs[n]) + 1] = candidate
      /\ \A i \in 1 .. Len(gs[n]) : hs[n][i] = gs[n][i]
      /\ GroupsOK(hs, tasks + 1)
      /\ GroupTasks(hs) = GroupTasks(gs) \cup {tasks + 1}

\* A candidate for a new task joins the group of the chain analysed last.
LEMMA CandidateJoins ==
  ASSUME NEW gs \in Seq(Seq(Candidates)), NEW tasks \in Nat, GroupsOK(gs, tasks), gs # <<>>,
         NEW candidate \in Candidates, candidate.task = tasks + 1,
         Len(gs[Len(gs)]) < NCodes
  PROVE  JoinsLast(gs, Joined(gs, candidate), candidate, tasks)
<1> DEFINE hs == Joined(gs, candidate)
           n == Len(gs)
           last == gs[n]
           k == Len(last)
           grown == Append(last, candidate)
<1>1. n \in Nat /\ n \in 1 .. n /\ DOMAIN gs = 1 .. n /\ last \in Seq(Candidates)
  OBVIOUS
<1>2. /\ grown \in Seq(Candidates) /\ Len(grown) = k + 1 /\ k \in Nat
      /\ DOMAIN last = 1 .. k /\ DOMAIN grown = 1 .. k + 1
      /\ \A i \in 1 .. k : grown[i] = last[i]
      /\ grown[k + 1] = candidate
  BY <1>1, AppendItem
<1>3. hs = [gs EXCEPT ![n] = grown]
  BY DEF Joined
<1>4. \A c \in 1 .. n : Len(gs[c]) <= NCodes /\ NCodes \in Nat
  BY RepairAssumption DEF GroupsOK
<1> HIDE DEF hs, n, grown, k
<1>5. /\ hs \in Seq(Seq(Candidates)) /\ Len(hs) = n /\ DOMAIN hs = 1 .. n /\ hs[n] = grown
      /\ \A c \in 1 .. n : c # n => hs[c] = gs[c]
  BY <1>1, <1>2, <1>3 DEF n
<1>6. hs # <<>> /\ k + 1 <= NCodes /\ k + 1 \in 1 .. k + 1
  <2>1. Len(hs) # 0
    BY <1>1, <1>5
  <2>2. hs # <<>>
    BY <2>1
  <2>3. k < NCodes /\ NCodes \in Nat
    BY RepairAssumption DEF k, n
  <2>4. QED
    BY <1>2, <2>2, <2>3
<1> HIDE DEF last
<1>7. \A i \in 1 .. k + 1 : i \in 1 .. k \/ i = k + 1
  BY <1>2
<1>8. candidate.task \in 1 .. tasks + 1 /\ candidate.task \notin 1 .. tasks
      /\ \A t \in 1 .. tasks : t \in 1 .. tasks + 1
  OBVIOUS
<1>9. Len(hs[n]) = k + 1 /\ gs[n] = last /\ Len(last) = k
  BY <1>2, <1>5 DEF last, k
<1>10. ASSUME NEW c \in 1 .. n
      PROVE  Len(hs[c]) <= NCodes /\ \A i \in 1 .. Len(hs[c]) : hs[c][i].task \in 1 .. tasks + 1
  <2>1. \A i \in 1 .. Len(gs[c]) : gs[c][i].task \in 1 .. tasks
    BY DEF GroupsOK, n
  <2>2. CASE c # n
    BY <1>5, <1>4, <1>8, <2>1, <2>2
  <2>3. CASE c = n
    <3>1. \A i \in 1 .. k : grown[i].task \in 1 .. tasks + 1
      BY <1>2, <1>9, <1>8, <2>1, <2>3
    <3>2. \A i \in 1 .. k + 1 : grown[i].task \in 1 .. tasks + 1
      BY <1>2, <1>7, <1>8, <3>1
    <3>3. QED
      BY <1>5, <1>6, <1>9, <2>3, <3>2
  <2>4. QED
    BY <2>2, <2>3
\* An element of the groups now is one of before, or the candidate.
<1>11. ASSUME NEW c \in 1 .. n, NEW i \in 1 .. Len(hs[c])
      PROVE  \/ i \in 1 .. Len(gs[c]) /\ hs[c][i] = gs[c][i] /\ gs[c][i].task \in 1 .. tasks
             \/ c = n /\ i = k + 1 /\ hs[c][i] = candidate
  <2>1. \A j \in 1 .. Len(gs[c]) : gs[c][j].task \in 1 .. tasks
    BY DEF GroupsOK, n
  <2>2. CASE c # n
    BY <1>5, <2>1, <2>2
  <2>3. CASE c = n
    <3>1. i \in 1 .. k \/ i = k + 1
      BY <1>7, <1>9, <2>3
    <3>2. QED
      BY <1>2, <1>5, <1>9, <2>1, <2>3, <3>1
  <2>4. QED
    BY <2>2, <2>3
<1>12. ASSUME NEW c \in 1 .. n, NEW d \in 1 .. n,
             NEW i \in 1 .. Len(hs[c]), NEW j \in 1 .. Len(hs[d]),
             hs[c][i].task = hs[d][j].task
      PROVE  c = d /\ i = j
  <2>1. \A e, f \in 1 .. n : \A x \in 1 .. Len(gs[e]), y \in 1 .. Len(gs[f]) :
          gs[e][x].task = gs[f][y].task => e = f /\ x = y
    BY DEF GroupsOK, n
  <2>2. CASE hs[c][i].task \in 1 .. tasks
    <3>1. hs[c][i] # candidate /\ hs[d][j] # candidate
      BY <1>12, <1>8, <2>2
    <3>2. /\ i \in 1 .. Len(gs[c]) /\ hs[c][i] = gs[c][i]
          /\ j \in 1 .. Len(gs[d]) /\ hs[d][j] = gs[d][j]
      BY <1>11, <3>1
    <3>3. gs[c][i].task = gs[d][j].task
      BY <1>12, <3>2
    <3>4. \A x \in 1 .. Len(gs[c]), y \in 1 .. Len(gs[d]) :
            gs[c][x].task = gs[d][y].task => c = d /\ x = y
      BY <2>1
    <3>5. QED
      BY <3>2, <3>3, <3>4
  <2>3. CASE hs[c][i].task \notin 1 .. tasks
    <3>1. c = n /\ i = k + 1
      BY <1>11, <2>3
    <3>2. hs[d][j].task \notin 1 .. tasks
      BY <1>12, <2>3
    <3>3. d = n /\ j = k + 1
      BY <1>11, <3>2
    <3>4. QED
      BY <3>1, <3>3
  <2>4. QED
    BY <2>2, <2>3
<1>13. GroupsOK(hs, tasks + 1)
  <2>1. Len(hs) <= NChains
    BY <1>5 DEF GroupsOK, n
  <2>2. QED
    BY <1>5, <1>10, <1>12, <2>1 DEF GroupsOK
<1>14. \A c \in 1 .. n : DOMAIN gs[c] = 1 .. Len(gs[c]) /\ DOMAIN hs[c] = 1 .. Len(hs[c])
  <2>1. \A c \in 1 .. n : gs[c] \in Seq(Candidates) /\ hs[c] \in Seq(Candidates)
    BY <1>1, <1>5
  <2>2. QED
    BY <2>1
<1>15. GroupTasks(hs) = GroupTasks(gs) \cup {tasks + 1}
  <2>1. ASSUME NEW t \in GroupTasks(hs)
        PROVE  t \in GroupTasks(gs) \cup {tasks + 1}
    <3>1. PICK c \in 1 .. n : \E i \in 1 .. Len(hs[c]) : hs[c][i].task = t
      BY <1>5, <1>14, <2>1 DEF GroupTasks
    <3>2. PICK i \in 1 .. Len(hs[c]) : hs[c][i].task = t
      BY <3>1
    <3>3. QED
      BY <1>1, <1>11, <1>14, <2>1, <3>2 DEF GroupTasks
  <2>2. ASSUME NEW t \in GroupTasks(gs)
        PROVE  t \in GroupTasks(hs)
    <3>1. PICK c \in 1 .. n : \E i \in 1 .. Len(gs[c]) : gs[c][i].task = t
      BY <1>1, <1>14 DEF GroupTasks, n
    <3>2. PICK i \in 1 .. Len(gs[c]) : gs[c][i].task = t
      BY <3>1
    <3>3. i \in 1 .. Len(hs[c]) /\ hs[c][i] = gs[c][i]
      <4>1. CASE c # n
        BY <1>5, <4>1
      <4>2. CASE c = n
        <5>1. i \in 1 .. k /\ i \in 1 .. k + 1
          BY <1>2, <1>9, <4>2
        <5>2. QED
          BY <1>2, <1>5, <1>9, <4>2, <5>1
      <4>3. QED
        BY <4>1, <4>2
    <3>4. QED
      BY <1>5, <1>14, <2>2, <3>2, <3>3 DEF GroupTasks
  <2>3. tasks + 1 \in GroupTasks(hs)
    <3>1. hs[n][k + 1].task = tasks + 1 /\ k + 1 \in DOMAIN hs[n] /\ n \in DOMAIN hs
      BY <1>1, <1>2, <1>5, <1>6
    <3>2. tasks + 1 \in Nat
      OBVIOUS
    <3>3. QED
      BY <3>1, <3>2 DEF GroupTasks
  <2>4. QED
    BY <2>1, <2>2, <2>3
<1>16. /\ \A i \in 1 .. k : hs[n][i] = last[i]
       /\ hs[n][k + 1] = candidate
  BY <1>2, <1>5
<1>17. QED
  BY <1>5, <1>6, <1>13, <1>15, <1>16, <1>9 DEF JoinsLast, hs, n, k, last

\* The next candidate is taken up, and waits no more.
LEMMA TakenUp ==
  ASSUME NEW q \in Seq(Candidates), NEW tasks \in Nat, QueueOK(q, tasks),
         NEW n \in 0 .. Len(q), n < Len(q)
  PROVE  /\ n + 1 \in 1 .. Len(q) /\ q[n + 1] \in Candidates /\ q[n + 1].task \in 1 .. tasks
         /\ q[n + 1].task \in QueueTasks(q, n)
         /\ QueueTasks(q, n + 1) = QueueTasks(q, n) \ {q[n + 1].task}
<1>1. n \in Nat /\ Len(q) \in Nat /\ n + 1 \in 1 .. Len(q) /\ n + 1 \in n + 1 .. Len(q)
  OBVIOUS
<1>2. q[n + 1] \in Candidates
  BY <1>1
<1>3. q[n + 1].task \in 1 .. tasks /\ q[n + 1].task \in Nat
  BY <1>1 DEF QueueOK
<1>4. \A i \in n + 1 .. Len(q) : i \in 1 .. Len(q) /\ (i = n + 1 \/ i \in (n + 1) + 1 .. Len(q))
  BY <1>1
<1>5. \A i \in (n + 1) + 1 .. Len(q) : i \in n + 1 .. Len(q) /\ i # n + 1 /\ i \in 1 .. Len(q)
  BY <1>1
<1>6. \A i \in (n + 1) + 1 .. Len(q) : q[i].task # q[n + 1].task
  BY <1>1, <1>5 DEF QueueOK
<1>7. q[n + 1].task \in QueueTasks(q, n)
  BY <1>1, <1>3 DEF QueueTasks
<1>8. \A t : t \in QueueTasks(q, n + 1) <=> t \in QueueTasks(q, n) /\ t # q[n + 1].task
  BY <1>4, <1>5, <1>6 DEF QueueTasks
<1>9. QED
  BY <1>1, <1>2, <1>3, <1>7, <1>8

\* The elements of a concatenation.
LEMMA Concatenation ==
  ASSUME NEW u \in Seq(Candidates), NEW z \in Seq(Candidates)
  PROVE  /\ u \o z \in Seq(Candidates) /\ Len(u \o z) = Len(u) + Len(z)
         /\ \A i \in 1 .. Len(u) : (u \o z)[i] = u[i]
         /\ \A i \in Len(u) + 1 .. Len(u) + Len(z) : (u \o z)[i] = z[i - Len(u)]
OBVIOUS

\* r is s with e put after its first k items.
Inserted(s, k, e, r) ==
  /\ r \in Seq(Candidates) /\ Len(r) = Len(s) + 1 /\ r[k + 1] = e
  /\ \A i \in 1 .. k : r[i] = s[i]
  /\ \A i \in k + 2 .. Len(s) + 1 : r[i] = s[i - 1]

\* What inserting does to a sequence.
LEMMA InsertedItem ==
  ASSUME NEW s \in Seq(Candidates), NEW e \in Candidates, NEW k \in 0 .. Len(s)
  PROVE  Inserted(s, k, e, InsertRetry(s, k, e))
<1> DEFINE p == SubSeq(s, 1, (k + 1) - 1)
           z == SubSeq(s, k + 1, Len(s))
           r == InsertRetry(s, k, e)
<1>1. k \in Nat /\ Len(s) \in Nat /\ k <= Len(s) /\ (k + 1) - 1 = k
  OBVIOUS
<1>2. p \in Seq(Candidates) /\ Len(p) = k /\ \A i \in 1 .. k : p[i] = s[i]
  BY <1>1
<1>3. z \in Seq(Candidates) /\ Len(z) = Len(s) - k /\ \A i \in 1 .. Len(s) - k : z[i] = s[k + i]
  BY <1>1
<1>4. r = (p \o <<e>>) \o z
  BY DEF InsertAt, InsertRetry
<1> HIDE DEF p, z, r
<1>5. /\ p \o <<e>> \in Seq(Candidates) /\ Len(p \o <<e>>) = k + 1
      /\ (p \o <<e>>)[k + 1] = e
      /\ \A i \in 1 .. k : (p \o <<e>>)[i] = s[i]
  BY <1>1, <1>2
<1> DEFINE u == p \o <<e>>
<1> HIDE DEF u
<1>6. /\ u \in Seq(Candidates) /\ Len(u) = k + 1 /\ u[k + 1] = e /\ r = u \o z
      /\ \A i \in 1 .. k : u[i] = s[i]
  BY <1>4, <1>5 DEF u
<1>7. /\ r \in Seq(Candidates) /\ Len(r) = Len(s) + 1
      /\ \A i \in 1 .. k + 1 : r[i] = u[i]
      /\ \A i \in k + 2 .. Len(s) + 1 : r[i] = z[i - (k + 1)]
  <2>1. Len(u) + Len(z) = Len(s) + 1 /\ Len(u) + 1 = k + 2
    BY <1>1, <1>3, <1>6
  <2>2. /\ u \o z \in Seq(Candidates) /\ Len(u \o z) = Len(u) + Len(z)
        /\ \A i \in 1 .. Len(u) : (u \o z)[i] = u[i]
        /\ \A i \in Len(u) + 1 .. Len(u) + Len(z) : (u \o z)[i] = z[i - Len(u)]
    BY <1>3, <1>6, Concatenation, Zenon
  <2>3. /\ u \o z \in Seq(Candidates) /\ Len(u \o z) = Len(s) + 1
        /\ \A i \in 1 .. k + 1 : (u \o z)[i] = u[i]
        /\ \A i \in k + 2 .. Len(s) + 1 : (u \o z)[i] = z[i - (k + 1)]
    BY <1>6, <2>1, <2>2, Zenon
  <2>4. QED
    BY <1>6, <2>3, Zenon
<1>8. ASSUME NEW i \in k + 2 .. Len(s) + 1
      PROVE  r[i] = s[i - 1]
  <2>1. i - (k + 1) \in 1 .. Len(s) - k /\ k + (i - (k + 1)) = i - 1
    BY <1>1
  <2>2. QED
    BY <1>3, <1>7, <2>1
<1>9. r[k + 1] = e /\ \A i \in 1 .. k : r[i] = s[i]
  BY <1>1, <1>6, <1>7
<1>10. QED
  BY <1>7, <1>8, <1>9 DEF r, Inserted

\* A candidate for a new task, queued after the k that were taken up.
LEMMA CandidateQueued ==
  ASSUME NEW q \in Seq(Candidates), NEW tasks \in Nat, QueueOK(q, tasks),
         NEW k \in 0 .. Len(q), NEW candidate \in Candidates, candidate.task = tasks + 1
  PROVE  LET r == InsertRetry(q, k, candidate)
         IN  /\ r \in Seq(Candidates) /\ Len(r) = Len(q) + 1 /\ k \in 0 .. Len(r)
             /\ \A i \in 1 .. k : r[i] = q[i]
             /\ \A i \in 1 .. Len(r) :
                  \/ r[i] = candidate
                  \/ \E j \in 1 .. Len(q) : r[i] = q[j] /\ (i > k => j > k)
             /\ QueueOK(r, tasks + 1)
             /\ QueueTasks(r, k) = QueueTasks(q, k) \cup {tasks + 1}
<1> DEFINE r == InsertRetry(q, k, candidate)
           n == Len(q)
<1>1. k \in Nat /\ n \in Nat /\ k <= n
  OBVIOUS
<1>2. /\ r \in Seq(Candidates) /\ Len(r) = n + 1 /\ r[k + 1] = candidate
      /\ \A i \in 1 .. k : r[i] = q[i]
      /\ \A i \in k + 2 .. n + 1 : r[i] = q[i - 1]
  <2>1. Inserted(q, k, candidate, r)
    BY InsertedItem
  <2>2. QED
    BY <2>1 DEF Inserted
<1>3. /\ \A i \in 1 .. n : q[i].task \in 1 .. tasks
      /\ \A i, j \in 1 .. n : q[i].task = q[j].task => i = j
  BY DEF QueueOK
<1> HIDE DEF r, n
<1>4. \A i \in 1 .. n + 1 : i \in 1 .. k \/ i = k + 1 \/ i \in k + 2 .. n + 1
  BY <1>1
\* The place in the queue before of what is at i now.
<1> DEFINE old(i) == IF i <= k THEN i ELSE i - 1
<1>5. \A i \in 1 .. n + 1 : i # k + 1 => /\ old(i) \in 1 .. n /\ r[i] = q[old(i)]
                                         /\ i > k => old(i) > k
  <2>1. ASSUME NEW i \in 1 .. n + 1, i # k + 1
        PROVE  /\ old(i) \in 1 .. n /\ r[i] = q[old(i)]
               /\ i > k => old(i) > k
    <3>1. CASE i \in 1 .. k
      BY <1>1, <1>2, <3>1
    <3>2. CASE i \in k + 2 .. n + 1
      <4>1. old(i) = i - 1 /\ i - 1 \in 1 .. n /\ i - 1 > k
        BY <1>1, <3>2
      <4>2. QED
        BY <1>2, <3>2, <4>1
    <3>3. QED
      BY <1>4, <2>1, <3>1, <3>2
  <2>2. QED
    BY <2>1
<1>6. \A i, j \in 1 .. n + 1 : i # k + 1 /\ j # k + 1 /\ old(i) = old(j) => i = j
  BY <1>1
<1> HIDE DEF old
<1>7. candidate.task \notin 1 .. tasks /\ \A t \in 1 .. tasks : t \in 1 .. tasks + 1
      /\ tasks + 1 \in 1 .. tasks + 1
  OBVIOUS
<1>8. \A i \in 1 .. n + 1 : i # k + 1 => r[i].task \in 1 .. tasks
  BY <1>5, <1>3
<1>9. QueueOK(r, tasks + 1)
  <2>1. \A i \in 1 .. Len(r) : r[i].task \in 1 .. tasks + 1
    BY <1>2, <1>8, <1>7
  <2>2. ASSUME NEW i \in 1 .. Len(r), NEW j \in 1 .. Len(r), r[i].task = r[j].task
        PROVE  i = j
    <3>1. CASE i = k + 1 \/ j = k + 1
      BY <1>2, <1>8, <1>7, <2>2, <3>1
    <3>2. CASE i # k + 1 /\ j # k + 1
      <4>1. /\ old(i) \in 1 .. n /\ r[i] = q[old(i)]
            /\ old(j) \in 1 .. n /\ r[j] = q[old(j)]
        BY <1>2, <1>5, <3>2
      <4>2. old(i) = old(j)
        BY <1>3, <2>2, <4>1
      <4>3. QED
        BY <1>2, <1>6, <3>2, <4>2
    <3>3. QED
      BY <3>1, <3>2
  <2>3. QED
    BY <2>1, <2>2 DEF QueueOK
<1>10. QueueTasks(r, k) = QueueTasks(q, k) \cup {tasks + 1}
  <2>1. ASSUME NEW t \in QueueTasks(r, k)
        PROVE  t \in QueueTasks(q, k) \cup {tasks + 1}
    <3>1. PICK i \in k + 1 .. n + 1 : r[i].task = t
      BY <1>2 DEF QueueTasks
    <3>2. CASE i = k + 1
      BY <1>2, <3>1, <3>2
    <3>3. CASE i # k + 1
      <4>1. i \in k + 2 .. n + 1 /\ i - 1 \in k + 1 .. n
        BY <1>1, <3>3
      <4>2. q[i - 1].task = t
        BY <1>2, <3>1, <4>1
      <4>3. QED
        BY <2>1, <4>1, <4>2 DEF QueueTasks, n
    <3>4. QED
      BY <3>2, <3>3
  <2>2. ASSUME NEW t \in QueueTasks(q, k)
        PROVE  t \in QueueTasks(r, k)
    <3>1. PICK i \in k + 1 .. n : q[i].task = t
      BY DEF QueueTasks, n
    <3>2. i + 1 \in k + 2 .. n + 1 /\ (i + 1) - 1 = i /\ i + 1 \in k + 1 .. n + 1
      BY <1>1
    <3>3. r[i + 1].task = t
      BY <1>2, <3>1, <3>2
    <3>4. QED
      BY <1>2, <2>2, <3>2, <3>3 DEF QueueTasks
  <2>3. tasks + 1 \in QueueTasks(r, k)
    <3>1. k + 1 \in k + 1 .. n + 1 /\ tasks + 1 \in Nat
      BY <1>1
    <3>2. QED
      BY <1>2, <3>1 DEF QueueTasks
  <2>4. QED
    BY <2>1, <2>2, <2>3
<1>11. \A i \in 1 .. Len(r) : \/ r[i] = candidate
                             \/ \E j \in 1 .. n : r[i] = q[j] /\ (i > k => j > k)
  BY <1>2, <1>5
<1>12. k \in 0 .. Len(r)
  BY <1>1, <1>2
<1>13. QED
  BY <1>2, <1>9, <1>10, <1>11, <1>12 DEF r, n

\* A candidate of the groups that is not queued yet joins the queue.
LEMMA CandidateAppended ==
  ASSUME NEW q \in Seq(Candidates), NEW tasks \in Nat, QueueOK(q, tasks),
         NEW candidate \in Candidates, candidate.task \in 1 .. tasks,
         \A i \in 1 .. Len(q) : q[i].task # candidate.task
  PROVE  QueueOK(Append(q, candidate), tasks)
<1> DEFINE r == Append(q, candidate)
           n == Len(q)
<1>1. /\ n \in Nat /\ Len(r) = n + 1 /\ r[n + 1] = candidate
      /\ \A i \in 1 .. n : r[i] = q[i]
  BY AppendItem
<1> HIDE DEF r, n
<1>2. \A i \in 1 .. Len(r) : i \in 1 .. n \/ i = n + 1
  BY <1>1
<1>3. /\ \A i \in 1 .. n : q[i].task \in 1 .. tasks /\ q[i].task # candidate.task
      /\ \A i, j \in 1 .. n : q[i].task = q[j].task => i = j
  BY DEF QueueOK, n
<1>4. \A i \in 1 .. Len(r) : r[i].task \in 1 .. tasks
  BY <1>1, <1>2, <1>3
<1>5. ASSUME NEW i \in 1 .. Len(r), NEW j \in 1 .. Len(r), r[i].task = r[j].task
      PROVE  i = j
  <2>1. CASE i \in 1 .. n /\ j \in 1 .. n
    BY <1>1, <1>3, <1>5, <2>1
  <2>2. CASE i = n + 1 \/ j = n + 1
    BY <1>1, <1>2, <1>3, <1>5, <2>2
  <2>3. QED
    BY <1>2, <2>1, <2>2
<1>6. QED
  BY <1>4, <1>5 DEF QueueOK, r

-----------------------------------------------------------------------------
(* Steps of the round that settle nothing.                                 *)

\* A step that leaves the work alone keeps what is said of it, if it keeps the candidates
\* that wait.
LEMMA QuietStep ==
  ASSUME LoopInv, UNCHANGED <<board, registry, decisions, attempts>>,
         phase \notin {"repairing"} \cup CutShort, phase' \notin {"repairing"} \cup CutShort,
         phase' = "superseding" \/ phase # "superseding" \/ next = Len(queue),
         LoopTypeOK', GroupsOK(groups', Len(board.tasks)), QueueOK(queue', Len(board.tasks)),
         Places', Useful', Reported',
         Waiting(phase', groups', queue', next') = Waiting(phase, groups, queue, next)
  PROVE  LoopInv'
<1> USE DEF LoopInv
<1>1. /\ board' = board /\ registry' = registry /\ decisions' = decisions /\ attempts' = attempts
  OBVIOUS
<1>2. Working(phase, queue, next) = {} /\ Working(phase', queue', next') = {}
  BY DEF Working, InSession, CutShort
<1>3. StatusOf(board', Waiting(phase', groups', queue', next'), Working(phase', queue', next'))
  BY <1>1, <1>2
<1>4. Based'
  <2>1. OnCurrent(board', Working(phase', queue', next'))
    BY <1>2 DEF OnCurrent
  <2>2. ASSUME phase' # "superseding"
        PROVE  OnCurrent(board', Waiting(phase', groups', queue', next'))
    <3>1. CASE phase # "superseding"
      BY <1>1, <3>1 DEF Based
    <3>2. CASE phase = "superseding" /\ next = Len(queue)
      <4>1. \A i \in next + 1 .. Len(queue) : FALSE
        BY <3>2 DEF LoopTypeOK
      <4>2. Waiting(phase, groups, queue, next) = {}
        BY <3>2, <4>1 DEF Waiting, QueueTasks
      <4>3. QED
        BY <4>2 DEF OnCurrent
    <3>3. QED
      BY <2>2, <3>1, <3>2
  <2>3. QED
    BY <2>1, <2>2 DEF Based
<1>5. /\ DecidedOK(board', decisions') /\ ChainedOK(board', decisions') /\ ImprovedOK(board')
      /\ HeldOK(board', registry')
  BY <1>1
<1>6. Opens'
  BY <1>1 DEF Opens, InSession, CutShort
<1>7. Counted'
  BY <1>1 DEF Counted, InSession, CutShort
<1>8. GroupsOK(groups', Len(board'.tasks)) /\ QueueOK(queue', Len(board'.tasks))
  BY <1>1
<1>9. QED
  BY <1>3, <1>4, <1>5, <1>6, <1>7, <1>8

\* A chain is analysed: a group opens and a report is added.
LEMMA AnalyseChainStep ==
  ASSUME LoopInv, AnalyseChain
  PROVE  LoopInv'
<1> DEFINE n == Len(groups)
           report == [rev |-> CurrentRevision(board), found |-> CurrentText(board)[n + 1]]
<1>1. LoopTypeOK /\ BoardOK(board) /\ groups \in Seq(Seq(Candidates)) /\ reports \in Seq(Report)
      /\ GroupsOK(groups, Len(board.tasks)) /\ QueueOK(queue, Len(board.tasks))
      /\ Places /\ Useful /\ Reported
  BY DEF LoopInv, LoopTypeOK
<1>2. /\ phase = "analyse" /\ n + 1 \in Chains
      /\ groups' = Append(groups, <<>>) /\ seen' = 0 /\ reports' = Append(reports, report)
      /\ UNCHANGED <<board, registry, decisions, phase, queue, next, attempts>>
  BY DEF AnalyseChain
<1>3. n \in Nat /\ Len(reports) = n /\ CurrentRevision(board) \in Nat /\ CurrentText(board) \in Texts
      /\ Len(board.tasks) \in Nat
  BY <1>1, <1>2, BoardTypes DEF Reported
<1>4. report \in Report
  <2>1. CurrentText(board) \in [Chains -> SUBSET Codes]
    BY <1>3, RepairAssumption
  <2>2. QED
    BY <1>2, <1>3, <2>1 DEF Report
<1>5. /\ reports' \in Seq(Report) /\ Len(reports') = n + 1 /\ reports'[n + 1] = report
      /\ \A c \in 1 .. n : reports'[c] = reports[c]
  <2> HIDE DEF report, n
  <2>1. QED
    BY <1>1, <1>2, <1>3, <1>4, AppendItem
<1>6. /\ groups' \in Seq(Seq(Candidates)) /\ groups' # <<>> /\ Len(groups') = n + 1
      /\ \A c \in 1 .. n : groups'[c] = groups[c]
      /\ groups'[n + 1] = <<>> /\ Len(groups'[Len(groups')]) = 0
      /\ GroupsOK(groups', Len(board.tasks)) /\ GroupTasks(groups') = GroupTasks(groups)
  BY <1>1, <1>2, <1>3, GroupOpened
<1>7. LoopTypeOK'
  BY <1>1, <1>2, <1>5, <1>6, RepairAssumption DEF LoopTypeOK
<1>8. Places'
  BY <1>1, <1>2, <1>6 DEF Places
<1>9. \A c \in 1 .. n + 1 : c \in 1 .. n \/ c = n + 1
  BY <1>3
<1>10. \A i \in 1 .. Len(groups'[n + 1]) : FALSE
  BY <1>6
<1>11. Useful'
  <2>1. \A c \in 1 .. n : \A i \in 1 .. Len(groups[c]) : Failing(groups[c][i], CurrentText(board))
    BY <1>1, <1>2 DEF Useful
  <2>2. \A c \in 1 .. n + 1 : \A i \in 1 .. Len(groups'[c]) :
          Failing(groups'[c][i], CurrentText(board))
    <3>1. SUFFICES ASSUME NEW c \in 1 .. n + 1, NEW i \in 1 .. Len(groups'[c])
                   PROVE  Failing(groups'[c][i], CurrentText(board))
      OBVIOUS
    <3>2. c \in 1 .. n /\ groups'[c] = groups[c]
      BY <1>6, <1>9, <1>10, <3>1
    <3>3. QED
      BY <2>1, <3>1, <3>2
  <2>3. phase' = "analyse" /\ board' = board /\ Len(groups') = n + 1
    BY <1>2, <1>6
  <2> HIDE DEF n
  <2>4. QED
    BY <2>2, <2>3 DEF Useful
<1>12. Reported'
  <2>1. \A c \in 1 .. n : /\ reports[c].rev = CurrentRevision(board)
                          /\ reports[c].found = CurrentText(board)[c]
    BY <1>1, <1>2 DEF Reported
  <2>2. \A c \in 1 .. n + 1 : /\ reports'[c].rev = CurrentRevision(board)
                              /\ reports'[c].found = CurrentText(board)[c]
    BY <1>5, <1>9, <2>1
  <2>3. QED
    BY <1>2, <1>5, <1>6, <2>2 DEF Reported
<1>13. Waiting(phase', groups', queue', next') = Waiting(phase, groups, queue, next)
  BY <1>2, <1>6 DEF Waiting
<1>14. QED
  BY <1>1, <1>2, <1>6, <1>7, <1>8, <1>11, <1>12, <1>13, QuietStep DEF CutShort

\* No candidate waits after the end of the queue.
LEMMA NobodyWaits ==
  ASSUME NEW q \in Seq(Candidates)
  PROVE  QueueTasks(q, Len(q)) = {}
<1>1. \A i \in Len(q) + 1 .. Len(q) : FALSE
  OBVIOUS
<1>2. QED
  BY <1>1 DEF QueueTasks

\* All failures are dispatched: the round is ordered, or the run is done.
LEMMA EndAnalysisStep ==
  ASSUME LoopInv, EndAnalysis
  PROVE  LoopInv'
<1>1. LoopTypeOK /\ groups \in Seq(Seq(Candidates))
      /\ GroupsOK(groups, Len(board.tasks)) /\ Places /\ Useful /\ Reported
  BY DEF LoopInv, LoopTypeOK
<1>2. /\ phase = "analyse" /\ Len(groups) = NChains /\ queue' = <<>> /\ next' = 0
      /\ phase' = IF \A c \in Chains : groups[c] = <<>> THEN "done" ELSE "order"
      /\ UNCHANGED <<board, registry, decisions, groups, reports, seen, attempts>>
  BY DEF EndAnalysis
<1>3. queue' \in Seq(Candidates) /\ Len(queue') = 0 /\ 0 \in 0 .. Len(queue')
      /\ \A i \in 1 .. Len(queue') : FALSE
  BY <1>2
<1>4. phase' \in {"done", "order"} /\ phase' \in Phases
  BY <1>2 DEF Phases
<1>5. LoopTypeOK'
  BY <1>1, <1>2, <1>3, <1>4 DEF LoopTypeOK
<1>6. QueueOK(queue', Len(board.tasks))
  BY <1>3 DEF QueueOK
<1>7. Places'
  BY <1>1, <1>2, <1>3, <1>4 DEF Places
<1>8. Useful'
  BY <1>1, <1>2, <1>4 DEF Useful
<1>9. Reported'
  BY <1>1, <1>2, <1>4 DEF Reported
<1>10. Waiting(phase', groups', queue', next') = Waiting(phase, groups, queue, next)
  <2>1. CASE phase' = "order"
    BY <1>2, <2>1 DEF Waiting
  <2>2. CASE phase' = "done"
    <3>1. \A c \in Chains : groups[c] = <<>>
      BY <1>2, <2>2
    <3>2. DOMAIN groups = Chains
      BY <1>1, <1>2 DEF Chains
    <3>3. \A i \in DOMAIN <<>> : FALSE
      OBVIOUS
    <3>4. GroupTasks(groups) = {}
      BY <3>1, <3>2, <3>3 DEF GroupTasks
    <3>5. QueueTasks(queue', next') = {}
      BY <1>2, <1>3, NobodyWaits
    <3>6. QED
      BY <1>2, <2>2, <3>4, <3>5 DEF Waiting
  <2>3. QED
    BY <1>4, <2>1, <2>2
<1>11. QED
  BY <1>1, <1>2, <1>4, <1>5, <1>6, <1>7, <1>8, <1>9, <1>10, QuietStep DEF CutShort

\* The next candidate of the order is appended to the queue.
LEMMA RoundRobinStep ==
  ASSUME LoopInv, RoundRobin
  PROVE  LoopInv'
<1>1. LoopTypeOK /\ groups \in Seq(Seq(Candidates)) /\ queue \in Seq(Candidates)
      /\ BoardOK(board) /\ QueueOK(queue, Len(board.tasks))
      /\ GroupsOK(groups, Len(board.tasks)) /\ Places /\ Useful /\ Reported
  BY DEF LoopInv, LoopTypeOK
<1>2. /\ phase = "order"
      /\ UNCHANGED <<board, registry, decisions, phase, groups, reports, seen, next, attempts>>
  BY DEF RoundRobin
<1>3. PICK p \in Unqueued : queue' = Append(queue, groups[p[1]][p[2]])
  BY DEF RoundRobin
<1> DEFINE c == p[1]
           k == p[2]
           candidate == groups[c][k]
<1>4. /\ c \in Chains /\ k \in DOMAIN groups[c] /\ candidate \notin Range(queue)
  BY <1>3 DEF Unqueued
<1>5. Len(groups) = NChains /\ c \in 1 .. Len(groups) /\ groups[c] \in Seq(Candidates)
  <2>1. Len(groups) = NChains
    BY <1>1, <1>2 DEF Places
  <2>2. QED
    BY <1>1, <1>4, <2>1 DEF Chains
<1>6. k \in 1 .. Len(groups[c]) /\ candidate \in Candidates
  BY <1>4, <1>5
<1>7. candidate.task \in 1 .. Len(board.tasks)
  BY <1>1, <1>5, <1>6 DEF GroupsOK
<1> HIDE DEF c, k, candidate
<1>8. ASSUME NEW i \in 1 .. Len(queue)
      PROVE  queue[i].task # candidate.task
  <2>1. SUFFICES ASSUME queue[i].task = candidate.task
                 PROVE  FALSE
    OBVIOUS
  <2>2. PICK d \in 1 .. Len(groups) :
          \E j \in 1 .. Len(groups[d]) : queue[i] = groups[d][j]
    BY <1>1, <1>2 DEF Places
  <2>3. PICK j \in 1 .. Len(groups[d]) : queue[i] = groups[d][j]
    BY <2>2
  <2>4. groups[d][j].task = groups[c][k].task
    BY <2>1, <2>3 DEF candidate
  <2>5. \A x \in 1 .. Len(groups[d]), y \in 1 .. Len(groups[c]) :
          groups[d][x].task = groups[c][y].task => d = c /\ x = y
    BY <1>1, <1>5 DEF GroupsOK
  <2>6. d = c /\ j = k
    BY <1>6, <2>4, <2>5
  <2>7. queue[i] = candidate
    BY <2>3, <2>6 DEF candidate
  <2>8. i \in DOMAIN queue
    BY <1>1
  <2>9. QED
    BY <1>4, <2>7, <2>8 DEF Range
<1>9. queue' = Append(queue, candidate)
  BY <1>3 DEF candidate, c, k
<1>10. /\ queue' \in Seq(Candidates) /\ Len(queue') = Len(queue) + 1 /\ Len(queue) \in Nat
       /\ \A i \in 1 .. Len(queue) : queue'[i] = queue[i]
       /\ queue'[Len(queue) + 1] = candidate
  BY <1>1, <1>6, <1>9, AppendItem
<1>11. QueueOK(queue', Len(board.tasks))
  <2>1. Len(board.tasks) \in Nat
    BY <1>1, BoardTypes
  <2>2. QED
    BY <1>1, <1>6, <1>7, <1>8, <1>9, <2>1, CandidateAppended
<1>12. next = 0 /\ next' = 0 /\ next' \in 0 .. Len(queue')
  BY <1>1, <1>2, <1>10 DEF Places
<1>13. LoopTypeOK'
  BY <1>1, <1>2, <1>10, <1>12 DEF LoopTypeOK
<1>14. Places'
  <2>1. \A i \in 1 .. Len(queue) :
          \E d \in 1 .. Len(groups) : \E j \in 1 .. Len(groups[d]) : queue[i] = groups[d][j]
    BY <1>1, <1>2 DEF Places
  <2>2. \A i \in 1 .. Len(queue') : i \in 1 .. Len(queue) \/ i = Len(queue) + 1
    BY <1>10
  <2>3. \A i \in 1 .. Len(queue') :
          \E d \in 1 .. Len(groups) : \E j \in 1 .. Len(groups[d]) : queue'[i] = groups[d][j]
    <3>1. SUFFICES ASSUME NEW i \in 1 .. Len(queue')
                   PROVE  \E d \in 1 .. Len(groups) : \E j \in 1 .. Len(groups[d]) :
                            queue'[i] = groups[d][j]
      OBVIOUS
    <3>2. CASE i \in 1 .. Len(queue)
      BY <1>10, <2>1, <3>2
    <3>3. CASE i = Len(queue) + 1
      <4>1. queue'[i] = groups[c][k]
        BY <1>10, <3>3 DEF candidate
      <4>2. QED
        BY <1>5, <1>6, <4>1
    <3>4. QED
      BY <2>2, <3>2, <3>3
  <2>4. QED
    BY <1>1, <1>2, <1>12, <2>3 DEF Places
<1>15. Useful' /\ Reported'
  BY <1>1, <1>2 DEF Useful, Reported
<1>16. Waiting(phase', groups', queue', next') = Waiting(phase, groups, queue, next)
  BY <1>2 DEF Waiting
<1>17. QED
  BY <1>1, <1>2, <1>11, <1>13, <1>14, <1>15, <1>16, QuietStep DEF CutShort

\* A step of the phase alone, among the phases of the queue.
LEMMA PhaseStep ==
  ASSUME LoopInv, UNCHANGED <<board, registry, decisions, attempts, groups, reports, seen, queue, next>>,
         phase \in {"attempt", "deferring"}, phase' \in {"deferring", "done"},
         phase' = "done" => next = Len(queue)
  PROVE  LoopInv'
<1>1. LoopTypeOK /\ GroupsOK(groups, Len(board.tasks)) /\ QueueOK(queue, Len(board.tasks))
      /\ Places /\ Useful /\ Reported
  BY DEF LoopInv
<1>2. LoopTypeOK'
  BY <1>1 DEF LoopTypeOK, Phases
<1>3. Places'
  BY <1>1 DEF Places
<1>4. Useful'
  BY DEF Useful
<1>5. Reported'
  BY <1>1 DEF Reported
<1>6. Waiting(phase', groups', queue', next') = Waiting(phase, groups, queue, next)
  BY DEF Waiting
<1>7. QED
  BY <1>1, <1>2, <1>3, <1>4, <1>5, <1>6, QuietStep DEF CutShort

\* Nothing is left to attempt.
LEMMA QueueDrainedStep ==
  ASSUME LoopInv, QueueDrained
  PROVE  LoopInv'
BY PhaseStep DEF QueueDrained, AllTaken

\* The attempts of the run are spent.
LEMMA BudgetSpentStep ==
  ASSUME LoopInv, BudgetSpent
  PROVE  LoopInv'
BY PhaseStep DEF BudgetSpent

\* All that waited is deferred.
LEMMA AllDeferredStep ==
  ASSUME LoopInv, AllDeferred
  PROVE  LoopInv'
BY PhaseStep DEF AllDeferred

\* All candidates of the groups are queued: what waited in groups now waits in the queue.
LEMMA EndOrderStep ==
  ASSUME LoopInv, EndOrder
  PROVE  LoopInv'
<1>1. LoopTypeOK /\ groups \in Seq(Seq(Candidates)) /\ queue \in Seq(Candidates)
      /\ GroupsOK(groups, Len(board.tasks)) /\ QueueOK(queue, Len(board.tasks))
      /\ Places /\ Useful /\ Reported
  BY DEF LoopInv, LoopTypeOK
<1>2. /\ phase = "order" /\ Unqueued = {} /\ phase' = "attempt"
      /\ UNCHANGED <<board, registry, decisions, groups, reports, seen, queue, next, attempts>>
  BY DEF EndOrder
<1>3. next = 0 /\ Len(groups) = NChains
      /\ \A i \in 1 .. Len(queue) :
           \E c \in 1 .. Len(groups) : \E k \in 1 .. Len(groups[c]) : queue[i] = groups[c][k]
  BY <1>1, <1>2 DEF Places
<1>4. LoopTypeOK'
  BY <1>1, <1>2 DEF LoopTypeOK, Phases
<1>5. Places'
  BY <1>1, <1>2, <1>3 DEF Places
<1>6. Useful'
  <2>1. \A c \in 1 .. Len(groups) : \A k \in 1 .. Len(groups[c]) :
          Failing(groups[c][k], CurrentText(board))
    BY <1>1, <1>2 DEF Useful
  <2>2. \A i \in 1 .. Len(queue) : Failing(queue[i], CurrentText(board))
    BY <1>3, <2>1
  <2>3. QED
    BY <1>2, <2>2 DEF Useful
<1>7. Reported'
  BY <1>1, <1>2 DEF Reported
<1>8. \A c \in 1 .. Len(groups) : DOMAIN groups[c] = 1 .. Len(groups[c])
  <2>1. \A c \in 1 .. Len(groups) : groups[c] \in Seq(Candidates)
    BY <1>1
  <2>2. QED
    BY <2>1
<1>9. /\ DOMAIN groups = 1 .. Len(groups) /\ DOMAIN queue = 1 .. Len(queue)
      /\ \A i \in 1 .. Len(queue) : i \in 0 + 1 .. Len(queue)
      /\ \A i \in 0 + 1 .. Len(queue) : i \in 1 .. Len(queue)
  BY <1>1
\* Everything that is in a group is in the queue now.
<1>10. ASSUME NEW c \in 1 .. Len(groups), NEW k \in 1 .. Len(groups[c])
       PROVE  \E i \in 1 .. Len(queue) : queue[i] = groups[c][k]
  <2>1. Len(groups[c]) <= NCodes /\ Len(groups[c]) \in Nat /\ NCodes \in Nat
    <3>1. groups[c] \in Seq(Candidates)
      BY <1>1
    <3>2. QED
      BY <1>1, <3>1, RepairAssumption DEF GroupsOK
  <2>2. <<c, k>> \in Chains \X (1 .. NCodes)
    BY <1>3, <2>1 DEF Chains
  <2>3. k \in DOMAIN groups[c]
    BY <1>8
  <2>4. <<c, k>>[1] = c /\ <<c, k>>[2] = k
    OBVIOUS
  <2>5. groups[c][k] \in Range(queue)
    BY <1>2, <2>2, <2>3, <2>4 DEF Unqueued
  <2>6. QED
    BY <1>9, <2>5 DEF Range
<1>11. GroupTasks(groups) = QueueTasks(queue, 0)
  <2>1. ASSUME NEW t \in GroupTasks(groups)
        PROVE  t \in QueueTasks(queue, 0)
    <3>1. PICK c \in 1 .. Len(groups) : \E k \in 1 .. Len(groups[c]) : groups[c][k].task = t
      BY <1>8, <1>9 DEF GroupTasks
    <3>2. PICK k \in 1 .. Len(groups[c]) : groups[c][k].task = t
      BY <3>1
    <3>3. PICK i \in 1 .. Len(queue) : queue[i] = groups[c][k]
      BY <1>10
    <3>4. QED
      BY <1>9, <2>1, <3>2, <3>3 DEF QueueTasks, GroupTasks
  <2>2. ASSUME NEW t \in QueueTasks(queue, 0)
        PROVE  t \in GroupTasks(groups)
    <3>1. PICK i \in 1 .. Len(queue) : queue[i].task = t
      BY <1>9 DEF QueueTasks
    <3>2. PICK c \in 1 .. Len(groups) : \E k \in 1 .. Len(groups[c]) : queue[i] = groups[c][k]
      BY <1>3
    <3>3. PICK k \in 1 .. Len(groups[c]) : queue[i] = groups[c][k]
      BY <3>2
    <3>4. QED
      BY <1>8, <1>9, <2>2, <3>1, <3>3 DEF QueueTasks, GroupTasks
  <2>3. QED
    BY <2>1, <2>2
<1>12. Waiting(phase', groups', queue', next') = Waiting(phase, groups, queue, next)
  BY <1>2, <1>3, <1>11 DEF Waiting
<1>13. QED
  BY <1>1, <1>2, <1>4, <1>5, <1>6, <1>7, <1>12, QuietStep DEF CutShort

\* Nothing waits any more: a new round begins with no group.
LEMMA AllSupersededStep ==
  ASSUME LoopInv, AllSuperseded
  PROVE  LoopInv'
<1>1. LoopTypeOK /\ QueueOK(queue, Len(board.tasks)) /\ queue \in Seq(Candidates)
  BY DEF LoopInv, LoopTypeOK
<1>2. /\ phase = "superseding" /\ next = Len(queue) /\ phase' = "analyse"
      /\ groups' = <<>> /\ reports' = <<>> /\ seen' = 0
      /\ UNCHANGED <<board, registry, decisions, queue, next, attempts>>
  BY DEF AllSuperseded, NewRound
<1>3. /\ groups' \in Seq(Seq(Candidates)) /\ reports' \in Seq(Report)
      /\ Len(groups') = 0 /\ Len(reports') = 0
      /\ \A c \in 1 .. Len(groups') : FALSE
      /\ \A c \in DOMAIN groups' : FALSE
  BY <1>2
<1>4. NCodes \in Nat /\ NChains \in Nat
  BY RepairAssumption
<1>5. LoopTypeOK'
  BY <1>1, <1>2, <1>3, <1>4 DEF LoopTypeOK, Phases
<1>6. GroupsOK(groups', Len(board.tasks))
  BY <1>3, <1>4 DEF GroupsOK
<1>7. Places' /\ Useful' /\ Reported'
  BY <1>2, <1>3 DEF Places, Useful, Reported
<1>8. GroupTasks(groups') = {} /\ QueueTasks(queue, next) = {}
  BY <1>1, <1>2, <1>3, NobodyWaits DEF GroupTasks
<1>9. Waiting(phase', groups', queue', next') = Waiting(phase, groups, queue, next)
  BY <1>2, <1>8 DEF Waiting
<1>10. QED
  BY <1>1, <1>2, <1>5, <1>6, <1>7, <1>9, QuietStep DEF CutShort

-----------------------------------------------------------------------------
(* Work that is settled.                                                   *)

\* What tasks, decisions and sessions say together.
Work(b, ds, reg, waiting, working) ==
  /\ BoardOK(b) /\ ds \in Seq(Decision)
  /\ StatusOf(b, waiting, working)
  /\ DecidedOK(b, ds) /\ ChainedOK(b, ds) /\ ImprovedOK(b) /\ HeldOK(b, reg)

\* A created task is one more that waits.
LEMMA WorkCreated ==
  ASSUME NEW b, NEW ds, NEW reg, NEW waiting, NEW working, Work(b, ds, reg, waiting, working),
         NEW c, Created(b, c), Len(b.tasks) + 1 \notin working
  PROVE  Work(c, ds, reg, waiting \cup {Len(b.tasks) + 1}, working)
<1>1. BoardOK(b) /\ StatusOf(b, waiting, working) /\ BoardOK(c) /\ ds \in Seq(Decision)
      /\ DecidedOK(b, ds) /\ ChainedOK(b, ds) /\ ImprovedOK(b) /\ HeldOK(b, reg)
  BY DEF Work, Created
<1>2. StatusOf(c, waiting \cup {Len(b.tasks) + 1}, working)
  BY <1>1, CreateWaits
<1>3. DecidedOK(c, ds) /\ ChainedOK(c, ds) /\ ImprovedOK(c) /\ HeldOK(c, reg)
  BY <1>1, CreateKeeps
<1>4. QED
  BY <1>1, <1>2, <1>3 DEF Work

\* From ds to es a decision was added.
Decided(ds, es, task, status, committed) ==
  /\ es \in Seq(Decision) /\ Len(es) = Len(ds) + 1
  /\ \A d \in 1 .. Len(ds) : es[d] = ds[d]
  /\ es[Len(ds) + 1].task = task /\ es[Len(ds) + 1].status = status
  /\ es[Len(ds) + 1].committed = committed

\* What publishing a decision adds.
LEMMA DecisionAdded ==
  ASSUME NEW ds \in Seq(Decision), NEW task \in Nat, NEW base \in Nat, NEW committed \in Nat,
         NEW status \in DecisionStatus
  PROVE  Decided(ds, Decide(ds, task, status, base, committed), task, status, committed)
<1> DEFINE e == [task |-> task, status |-> status, base |-> base, committed |-> committed]
           es == Decide(ds, task, status, base, committed)
           n == Len(ds)
<1>1. e \in Decision /\ es = Append(ds, e)
  BY DEF Decision, Decide
<1> HIDE DEF e, es, n
<1>2. es \in Seq(Decision) /\ Len(es) = n + 1 /\ es[n + 1] = e /\ \A d \in 1 .. n : es[d] = ds[d]
  BY <1>1, AppendItem DEF n
<1>3. e.task = task /\ e.status = status /\ e.committed = committed
  BY DEF e
<1>4. QED
  BY <1>2, <1>3 DEF es, n, Decided

\* A task is settled, other than by an accepted repair, and its decision published.
LEMMA WorkSettled ==
  ASSUME NEW b, NEW ds, NEW reg, NEW waiting, NEW working, Work(b, ds, reg, waiting, working),
         NEW t \in 1 .. Len(b.tasks), NEW status,
         \/ status = "BLOCKED" /\ t \in waiting
         \/ status = "REJECTED" /\ t \in waiting \cup working,
         NEW c, Moved(b, c, t, status),
         NEW base \in Nat, NEW decided \in DecidedAs[status]
  PROVE  /\ Work(c, Decide(ds, t, decided, base, 0), reg, waiting \ {t}, working \ {t})
         /\ Decided(ds, Decide(ds, t, decided, base, 0), t, decided, 0)
<1> DEFINE es == Decide(ds, t, decided, base, 0)
<1>1. /\ BoardOK(b) /\ StatusOf(b, waiting, working) /\ BoardOK(c) /\ ds \in Seq(Decision)
      /\ DecidedOK(b, ds) /\ ChainedOK(b, ds) /\ ImprovedOK(b) /\ HeldOK(b, reg)
  BY DEF Work, Moved
<1>2. /\ status \in Settled /\ t \in Nat /\ 0 \in Nat
      /\ decided \in DecisionStatus /\ decided # "ACCEPTED"
  <2>1. t \in Nat
    OBVIOUS
  <2>2. DecidedAs["BLOCKED"] = {"BLOCKED", "DEFERRED", "SUPERSEDED"} /\ DecidedAs["REJECTED"] = {"REJECTED"}
    BY DEF DecidedAs
  <2>3. decided \in {"BLOCKED", "DEFERRED", "SUPERSEDED", "REJECTED"}
    BY <2>2
  <2>4. QED
    BY <2>1, <2>3 DEF Settled, DecisionStatus
<1>3. b.tasks[t].status \in {"PENDING", "ACTIVE"} /\ b.tasks[t].status \notin Settled
  BY <1>1 DEF StatusOf, Settled
<1>4. b.tasks[t].status = "PENDING" \/ status \in {"REJECTED", "COMPLETED"}
  BY <1>1 DEF StatusOf
<1> HIDE DEF es
<1>5. Decided(ds, es, t, decided, 0)
  <2>1. ds \in Seq(Decision) /\ t \in Nat /\ base \in Nat /\ 0 \in Nat /\ decided \in DecisionStatus
    BY <1>1, <1>2
  <2>2. QED
    BY <2>1, DecisionAdded DEF es
<1>6. /\ es \in Seq(Decision) /\ Len(es) = Len(ds) + 1
      /\ \A d \in 1 .. Len(ds) : es[d] = ds[d]
      /\ es[Len(ds) + 1].task = t /\ es[Len(ds) + 1].status = decided
      /\ es[Len(ds) + 1].committed = 0
  BY <1>5 DEF Decided
<1>7. StatusOf(c, waiting \ {t}, working \ {t})
  BY <1>1, <1>2, MoveSettled
<1>8. DecidedOK(c, es)
  BY <1>1, <1>2, <1>3, <1>6, SettledDecided
<1>9. ChainedOK(c, es)
  BY <1>1, <1>2, <1>6, SettledChained
<1>10. ImprovedOK(c)
  BY <1>1, MoveKeeps
<1>11. HeldOK(c, reg)
  BY <1>1, <1>4, SettledHeld
<1>12. QED
  BY <1>1, <1>6, <1>7, <1>8, <1>9, <1>10, <1>11, <1>5 DEF Work, es

\* The invariant says it of the loop.
LEMMA LoopWork ==
  LoopInv <=> /\ LoopTypeOK
              /\ GroupsOK(groups, Len(board.tasks)) /\ QueueOK(queue, Len(board.tasks))
              /\ Places /\ Useful /\ Based /\ Opens /\ Counted /\ Reported
              /\ Work(board, decisions, registry, Waiting(phase, groups, queue, next),
                      Working(phase, queue, next))
BY DEF LoopInv, Work, LoopTypeOK

\* A task that does not exist yet is in no group and not in the queue.
LEMMA TasksExist ==
  ASSUME NEW gs \in Seq(Seq(Candidates)), NEW q \in Seq(Candidates), NEW tasks \in Nat,
         GroupsOK(gs, tasks), QueueOK(q, tasks)
  PROVE  /\ GroupTasks(gs) \subseteq 1 .. tasks
         /\ \A n \in Nat : QueueTasks(q, n) \subseteq 1 .. tasks
         /\ GroupsOK(gs, tasks + 1) /\ QueueOK(q, tasks + 1)
         /\ tasks + 1 \notin 1 .. tasks
<1>1. \A t \in 1 .. tasks : t \in 1 .. tasks + 1
  OBVIOUS
<1>2. GroupsOK(gs, tasks + 1) /\ QueueOK(q, tasks + 1)
  BY <1>1 DEF GroupsOK, QueueOK
<1>3. \A c \in 1 .. Len(gs) : DOMAIN gs[c] = 1 .. Len(gs[c])
  <2>1. \A c \in 1 .. Len(gs) : gs[c] \in Seq(Candidates)
    OBVIOUS
  <2>2. QED
    BY <2>1
<1>4. GroupTasks(gs) \subseteq 1 .. tasks
  <2>1. DOMAIN gs = 1 .. Len(gs)
    OBVIOUS
  <2>2. QED
    BY <1>3, <2>1 DEF GroupTasks, GroupsOK
<1>5. \A n \in Nat : \A i \in n + 1 .. Len(q) : i \in 1 .. Len(q)
  OBVIOUS
<1>6. \A n \in Nat : QueueTasks(q, n) \subseteq 1 .. tasks
  BY <1>5 DEF QueueTasks, QueueOK
<1>7. QED
  BY <1>2, <1>4, <1>6

-----------------------------------------------------------------------------
(* Steps that close what waits.                                            *)

\* Fewer tasks are on the current model as well.
LEMMA FewerOnCurrent ==
  ASSUME NEW b, NEW tasks, NEW some, OnCurrent(b, tasks), some \subseteq tasks
  PROVE  OnCurrent(b, some)
BY DEF OnCurrent

\* The next candidate is closed without an attempt.
LEMMA CloseRestStep ==
  ASSUME LoopInv, phase \in {"deferring", "superseding"},
         NEW status \in {"DEFERRED", "SUPERSEDED"}, CloseRest(status)
  PROVE  LoopInv'
<1> DEFINE t == queue[next + 1].task
           waiting == QueueTasks(queue, next)
<1>1. LoopTypeOK /\ BoardOK(board) /\ queue \in Seq(Candidates) /\ next \in 0 .. Len(queue)
      /\ GroupsOK(groups, Len(board.tasks)) /\ QueueOK(queue, Len(board.tasks))
      /\ decisions \in Seq(Decision) /\ Places /\ Based /\ Opens /\ Counted /\ Reported
      /\ Work(board, decisions, registry, waiting, {})
  BY LoopWork DEF LoopTypeOK, Waiting, Working, InSession
<1>2. /\ next < Len(queue) /\ next' = next + 1
      /\ IF board.tasks[t].status = "PENDING"
         THEN /\ board' = MovedTask(board, t, "BLOCKED")
              /\ decisions' = Decide(decisions, t, status, board.tasks[t].rev, 0)
         ELSE UNCHANGED <<board, decisions>>
      /\ UNCHANGED <<registry, phase, groups, reports, seen, queue, attempts>>
  BY DEF CloseRest
<1>3. Len(board.tasks) \in Nat /\ \A u \in 1 .. Len(board.tasks) : board.tasks[u] \in Task
  BY <1>1, BoardTypes
<1> HIDE DEF t, waiting
<1>4. /\ t \in 1 .. Len(board.tasks) /\ t \in waiting
      /\ QueueTasks(queue, next + 1) = waiting \ {t}
  BY <1>1, <1>2, <1>3, TakenUp DEF t, waiting
<1>5. board.tasks[t].status = "PENDING" /\ board.tasks[t].rev \in Nat
  BY <1>1, <1>3, <1>4 DEF Work, StatusOf, Task
<1>6. /\ board' = MovedTask(board, t, "BLOCKED")
      /\ decisions' = Decide(decisions, t, status, board.tasks[t].rev, 0)
  BY <1>2, <1>5
<1>7. "BLOCKED" \in TaskStatus /\ status \in DecidedAs["BLOCKED"]
      /\ status \notin {"ACCEPTED", "REJECTED"}
  BY DEF TaskStatus, DecidedAs
<1>8. Moved(board, board', t, "BLOCKED")
  BY <1>1, <1>4, <1>6, <1>7, TaskMoved
<1>9. /\ Work(board', decisions', registry, waiting \ {t}, {} \ {t})
      /\ Decided(decisions, decisions', t, status, 0)
  BY <1>1, <1>4, <1>5, <1>6, <1>7, <1>8, WorkSettled
<1>10. /\ BoardOK(board') /\ Len(board'.tasks) = Len(board.tasks) /\ decisions' \in Seq(Decision)
       /\ CurrentRevision(board') = CurrentRevision(board)
       /\ CurrentText(board') = CurrentText(board)
  BY <1>8, <1>9, SameBase DEF Moved, Work
<1>11. next' \in 0 .. Len(queue')
  BY <1>1, <1>2
<1>12. LoopTypeOK'
  BY <1>1, <1>2, <1>10, <1>11 DEF LoopTypeOK
<1>13. GroupsOK(groups', Len(board'.tasks)) /\ QueueOK(queue', Len(board'.tasks))
  BY <1>1, <1>2, <1>10
<1>14. Places' /\ Useful'
  BY <1>1, <1>2 DEF Places, Useful
<1>15. Waiting(phase', groups', queue', next') = waiting \ {t} /\ Working(phase', queue', next') = {}
  BY <1>2, <1>4 DEF Waiting, Working, InSession
<1>16. Based'
  <2>1. phase # "superseding" => OnCurrent(board, waiting)
    BY <1>1 DEF Based, Waiting, waiting
  <2>2. phase # "superseding" => OnCurrent(board', waiting \ {t})
    BY <1>1, <1>4, <1>8, <2>1, MoveKeeps, FewerOnCurrent
  <2>3. OnCurrent(board', {})
    BY DEF OnCurrent
  <2>4. QED
    BY <1>2, <1>15, <2>2, <2>3 DEF Based
<1>17. Opens'
  BY <1>1, <1>2 DEF Opens, InSession
<1>18. Counted'
  <2>1. Attempted(decisions') = Attempted(decisions)
    BY <1>1, <1>7, <1>9, AttemptsDecided DEF Decided
  <2>2. QED
    BY <1>1, <1>2, <2>1 DEF Counted
<1>19. Reported'
  BY <1>1, <1>2, <1>10 DEF Reported
<1>20. Work(board', decisions', registry', Waiting(phase', groups', queue', next'),
            Working(phase', queue', next'))
  <2>1. {} \ {t} = {}
    OBVIOUS
  <2>2. QED
    BY <1>2, <1>9, <1>15, <2>1
<1>21. QED
  BY <1>12, <1>13, <1>14, <1>16, <1>17, <1>18, <1>19, <1>20 DEF LoopInv, Work

\* It is DEFERRED when the budget is spent.
LEMMA DeferStep ==
  ASSUME LoopInv, Defer
  PROVE  LoopInv'
BY CloseRestStep DEF Defer

\* It is SUPERSEDED after an accepted repair.
LEMMA SupersedeStep ==
  ASSUME LoopInv, Supersede
  PROVE  LoopInv'
BY CloseRestStep DEF Supersede

\* The next candidate is taken up: its task is ACTIVE and its session OPEN.
LEMMA StartAttemptStep ==
  ASSUME LoopInv, StartAttempt
  PROVE  LoopInv'
<1> DEFINE t == queue[next + 1].task
           waiting == QueueTasks(queue, next)
           base == TaskBase(board, t)
           n == Len(registry.sessions)
<1>1. LoopTypeOK /\ BoardOK(board) /\ RegistryOK(registry)
      /\ queue \in Seq(Candidates) /\ next \in 0 .. Len(queue)
      /\ GroupsOK(groups, Len(board.tasks)) /\ QueueOK(queue, Len(board.tasks))
      /\ decisions \in Seq(Decision) /\ Places /\ Useful /\ Based /\ Opens /\ Counted /\ Reported
  BY LoopWork DEF LoopTypeOK
<1>2. /\ phase = "attempt" /\ next < Len(queue)
      /\ board' = MovedTask(board, t, "ACTIVE")
      /\ registry' = Opened(registry, t, "RepairAgent", base, SessionBudget, 0)
      /\ next' = next + 1 /\ phase' = "repairing"
      /\ UNCHANGED <<decisions, groups, reports, seen, queue, attempts>>
  BY DEF StartAttempt
<1>3. /\ StatusOf(board, waiting, {}) /\ DecidedOK(board, decisions) /\ ChainedOK(board, decisions)
      /\ ImprovedOK(board) /\ HeldOK(board, registry)
      /\ OnCurrent(board, waiting)
  BY <1>1, <1>2, LoopWork DEF Work, Waiting, Working, InSession, Based
<1>4. Len(board.tasks) \in Nat /\ \A u \in 1 .. Len(board.tasks) : board.tasks[u] \in Task
  BY <1>1, BoardTypes
<1> HIDE DEF t, waiting, base
<1>5. /\ t \in 1 .. Len(board.tasks) /\ t \in waiting /\ t \in Nat
      /\ next + 1 \in 1 .. Len(queue)
      /\ QueueTasks(queue, next + 1) = waiting \ {t}
  BY <1>1, <1>2, <1>4, TakenUp DEF t, waiting
<1>6. base = CurrentBase(board) /\ base \in [rev : Nat, digest : Texts]
  BY <1>1, <1>3, <1>5, BoardTypes DEF OnCurrent, CurrentBase, base
<1>7. "ACTIVE" \in TaskStatus
  BY DEF TaskStatus
<1>8. Moved(board, board', t, "ACTIVE")
  BY <1>1, <1>2, <1>5, <1>7, TaskMoved
<1>9. /\ StatusOf(board', waiting \ {t}, {t})
      /\ DecidedOK(board', decisions) /\ ChainedOK(board', decisions) /\ HeldOK(board', registry)
  BY <1>1, <1>3, <1>5, <1>8, MoveActive
<1>10. /\ BoardOK(board') /\ Len(board'.tasks) = Len(board.tasks)
       /\ CurrentRevision(board') = CurrentRevision(board)
       /\ CurrentText(board') = CurrentText(board)
       /\ CurrentBase(board') = CurrentBase(board)
       /\ board'.tasks[t].status = "ACTIVE"
  BY <1>8, SameBase DEF Moved
<1>11. /\ RegistryOK(registry') /\ Len(registry'.sessions) = n + 1 /\ n \in Nat
       /\ \A s \in 1 .. n : registry'.sessions[s] = registry.sessions[s]
       /\ registry'.sessions[n + 1].task = t
       /\ registry'.sessions[n + 1].base = base /\ registry'.sessions[n + 1].status = "OPEN"
  <2>1. Begun(registry, registry', t, base)
    BY <1>1, <1>2, <1>5, <1>6, SessionOpened
  <2>2. QED
    BY <1>1, <2>1, RegistryTypes DEF Begun
<1> HIDE DEF n
<1>12. next' \in 0 .. Len(queue') /\ next' > 0
  BY <1>1, <1>2
<1>13. LoopTypeOK'
  BY <1>1, <1>2, <1>10, <1>11, <1>12 DEF LoopTypeOK, Phases
<1>14. GroupsOK(groups', Len(board'.tasks)) /\ QueueOK(queue', Len(board'.tasks))
  BY <1>1, <1>2, <1>10
<1>15. Places'
  BY <1>1, <1>2, <1>12 DEF Places
<1>16. Useful'
  <2>1. \A i \in 1 .. Len(queue) : i >= next + 1 => i >= next
    BY <1>1
  <2>2. QED
    BY <1>1, <1>2, <1>10, <2>1 DEF Useful
<1>17. Waiting(phase', groups', queue', next') = waiting \ {t} /\ Working(phase', queue', next') = {t}
  BY <1>2, <1>5 DEF Waiting, Working, InSession, t
<1>18. Based'
  <2>1. OnCurrent(board', waiting)
    BY <1>1, <1>3, <1>5, <1>8, MoveKeeps
  <2>2. OnCurrent(board', waiting \ {t}) /\ OnCurrent(board', {t})
    BY <1>5, <2>1, FewerOnCurrent
  <2>3. QED
    BY <1>2, <1>17, <2>2 DEF Based
<1>19. \A s \in 1 .. n + 1 : s \in 1 .. n \/ s = n + 1
  BY <1>11
<1>20. Opens'
  <2>1. \A s \in 1 .. n : registry.sessions[s].status \notin Unclosed
    BY <1>1, <1>2 DEF Opens, InSession, n
  <2>2. \A s \in 1 .. Len(registry'.sessions) :
          registry'.sessions[s].status \in Unclosed => s = Len(registry'.sessions)
    BY <1>11, <1>19, <2>1
  <2>3. AtWork(board', registry', queue'[next'].task)
    <3>1. Len(registry'.sessions) > 0 /\ queue'[next'].task = t
      BY <1>2, <1>11 DEF t
    <3>2. QED
      BY <1>6, <1>10, <1>11, <3>1 DEF AtWork, LastIs
  <2>4. QED
    BY <1>2, <2>2, <2>3 DEF Opens, InSession
<1>21. Counted'
  <2>1. Cardinality(Attempted(decisions)) = n /\ n <= attempts /\ attempts \in Nat
    BY <1>1, <1>2, <1>11 DEF Counted, InSession, n, LoopTypeOK
  <2>2. n = (n + 1) - 1 /\ n + 1 <= attempts + 1
    BY <1>11, <2>1
  <2>3. QED
    BY <1>2, <1>11, <2>1, <2>2 DEF Counted, InSession
<1>22. Reported'
  BY <1>1, <1>2, <1>10 DEF Reported
<1>23. HeldOK(board', registry')
  BY <1>5, <1>9, <1>10, <1>11, <1>19 DEF HeldOK, n
<1>24. ImprovedOK(board')
  BY <1>1, <1>3, <1>5, <1>8, MoveKeeps
<1>25. QED
  BY <1>2, <1>9, <1>13, <1>14, <1>15, <1>16, <1>17, <1>18, <1>20, <1>21, <1>22, <1>23, <1>24
  DEF LoopInv

\* The next candidate is taken up, but its context is refused: its task stays ACTIVE,
\* without a session.
LEMMA ContextFailsStep ==
  ASSUME LoopInv, ContextFails
  PROVE  LoopInv'
<1> DEFINE t == queue[next + 1].task
           waiting == QueueTasks(queue, next)
<1>1. LoopTypeOK /\ BoardOK(board) /\ RegistryOK(registry)
      /\ queue \in Seq(Candidates) /\ next \in 0 .. Len(queue)
      /\ GroupsOK(groups, Len(board.tasks)) /\ QueueOK(queue, Len(board.tasks))
      /\ decisions \in Seq(Decision) /\ Places /\ Based /\ Opens /\ Counted /\ Reported
  BY LoopWork DEF LoopTypeOK
<1>2. /\ phase = "attempt" /\ next < Len(queue)
      /\ board' = MovedTask(board, t, "ACTIVE")
      /\ next' = next + 1 /\ phase' = "unprepared"
      /\ UNCHANGED <<registry, decisions, groups, reports, seen, queue, attempts>>
  BY DEF ContextFails
<1>3. /\ StatusOf(board, waiting, {}) /\ DecidedOK(board, decisions) /\ ChainedOK(board, decisions)
      /\ ImprovedOK(board) /\ HeldOK(board, registry)
      /\ OnCurrent(board, waiting)
  BY <1>1, <1>2, LoopWork DEF Work, Waiting, Working, InSession, Based
<1>4. Len(board.tasks) \in Nat
  BY <1>1, BoardTypes
<1> HIDE DEF t, waiting
<1>5. /\ t \in 1 .. Len(board.tasks) /\ t \in waiting
      /\ QueueTasks(queue, next + 1) = waiting \ {t}
  BY <1>1, <1>2, <1>4, TakenUp DEF t, waiting
<1>6. "ACTIVE" \in TaskStatus
  BY DEF TaskStatus
<1>7. Moved(board, board', t, "ACTIVE")
  BY <1>1, <1>2, <1>5, <1>6, TaskMoved
<1>8. /\ StatusOf(board', waiting \ {t}, {t})
      /\ DecidedOK(board', decisions) /\ ChainedOK(board', decisions) /\ HeldOK(board', registry)
  BY <1>1, <1>3, <1>5, <1>7, MoveActive
<1>9. /\ BoardOK(board') /\ Len(board'.tasks) = Len(board.tasks)
      /\ CurrentRevision(board') = CurrentRevision(board)
      /\ CurrentText(board') = CurrentText(board)
  BY <1>7, SameBase DEF Moved
<1>10. next' \in 0 .. Len(queue')
  BY <1>1, <1>2
<1>11. LoopTypeOK'
  BY <1>1, <1>2, <1>9, <1>10 DEF LoopTypeOK, Phases, CutShort
<1>12. GroupsOK(groups', Len(board'.tasks)) /\ QueueOK(queue', Len(board'.tasks))
  BY <1>1, <1>2, <1>9
<1>13. Places' /\ Useful'
  BY <1>1, <1>2 DEF Places, Useful
<1>14. Waiting(phase', groups', queue', next') = waiting \ {t} /\ Working(phase', queue', next') = {t}
  BY <1>2, <1>5 DEF Waiting, Working, InSession, t
<1>15. Based'
  <2>1. OnCurrent(board', waiting)
    BY <1>1, <1>3, <1>5, <1>7, MoveKeeps
  <2>2. OnCurrent(board', waiting \ {t}) /\ OnCurrent(board', {t})
    BY <1>5, <2>1, FewerOnCurrent
  <2>3. QED
    BY <1>2, <1>14, <2>2 DEF Based
<1>16. Opens'
  BY <1>1, <1>2 DEF Opens, InSession
<1>17. Counted'
  BY <1>1, <1>2 DEF Counted, InSession
<1>18. Reported'
  BY <1>1, <1>2, <1>9 DEF Reported
<1>19. ImprovedOK(board')
  BY <1>1, <1>3, <1>5, <1>7, MoveKeeps
<1>20. QED
  BY <1>2, <1>8, <1>11, <1>12, <1>13, <1>14, <1>15, <1>16, <1>17, <1>18, <1>19 DEF LoopInv

-----------------------------------------------------------------------------
(* Dispatching a failure.                                                  *)

\* What the loop holds while a report is dispatched: `code` is what is dispatched next.
Dispatching(code) ==
  /\ phase = "analyse" /\ groups # <<>> /\ code \in Codes /\ code > seen
  /\ Failing([chain |-> Len(groups), code |-> code], CurrentText(board))

\* The failure dispatched next is a code of the chain analysed last.
LEMMA DispatchNext ==
  ASSUME LoopInv, phase = "analyse", NEW code \in Undispatched
  PROVE  Dispatching(code)
<1> DEFINE n == Len(groups)
<1>1. /\ groups # <<>> /\ code \in reports[n].found /\ code > seen
  BY DEF Undispatched
<1>2. /\ groups \in Seq(Seq(Candidates)) /\ reports \in Seq(Report) /\ Reported
  BY DEF LoopInv, LoopTypeOK
<1>3. n \in 1 .. n /\ n \in 1 .. Len(reports)
  BY <1>1, <1>2 DEF Reported
<1>4. reports[n] \in Report /\ reports[n].found = CurrentText(board)[n]
  BY <1>2, <1>3 DEF Reported
<1>5. code \in Codes
  BY <1>1, <1>4 DEF Report
<1>6. QED
  BY <1>1, <1>4, <1>5 DEF Dispatching, Failing

\* The new candidate is the one its group gets.
RoutedCandidate(task, code) == [task |-> task, chain |-> Len(groups), code |-> code, retryOf |-> 0]

\* A failure that is routed to a repair becomes a candidate.
LEMMA RoutedStep ==
  ASSUME LoopInv, NEW code, Dispatching(code), seen' = code, Routed(code),
         UNCHANGED <<registry, phase, reports, queue, next, attempts>>
  PROVE  LoopInv'
<1> DEFINE n == Len(board.tasks)
           last == Len(groups)
           candidate == RoutedCandidate(n + 1, code)
           waiting == GroupTasks(groups)
<1>1. LoopTypeOK /\ BoardOK(board) /\ queue \in Seq(Candidates) /\ next \in 0 .. Len(queue)
      /\ groups \in Seq(Seq(Candidates)) /\ seen \in 0 .. NCodes
      /\ GroupsOK(groups, n) /\ QueueOK(queue, n)
      /\ Places /\ Useful /\ Based /\ Opens /\ Counted /\ Reported
  BY LoopWork DEF LoopTypeOK
<1>2. /\ phase = "analyse" /\ groups # <<>> /\ code \in Codes /\ code > seen
      /\ board' = CreatedTask(board) /\ decisions' = decisions
  BY DEF Dispatching, Routed
<1>3. Work(board, decisions, registry, waiting, {}) /\ OnCurrent(board, waiting)
  BY <1>1, <1>2, LoopWork DEF Waiting, Working, InSession, Based
<1>4. groups' = Joined(groups, candidate)
  BY DEF Routed, Joined, RoutedCandidate
<1>5. n \in Nat /\ n + 1 \in Nat /\ last \in 1 .. last /\ last \in Nat /\ NCodes \in Nat
  BY <1>1, <1>2, BoardTypes, RepairAssumption
<1>6. last \in Chains /\ seen < NCodes /\ Len(groups[last]) <= seen
  BY <1>1, <1>2, <1>5 DEF Codes, Chains, GroupsOK, Places
<1>7. /\ candidate \in Candidates /\ candidate.task = n + 1
      /\ candidate.chain = last /\ candidate.code = code
  BY <1>2, <1>5, <1>6 DEF Candidates, RoutedCandidate
<1>8. Failing(candidate, CurrentText(board))
  BY <1>7 DEF Dispatching, Failing
<1>9. Len(groups[last]) \in Nat /\ Len(groups[last]) < NCodes
  <2>1. groups[last] \in Seq(Candidates)
    BY <1>1, <1>5
  <2>2. QED
    BY <1>1, <1>5, <1>6, <2>1
<1> HIDE DEF candidate, n, waiting
<1>10. /\ groups' \in Seq(Seq(Candidates)) /\ Len(groups') = last /\ groups' # <<>>
       /\ \A c \in 1 .. last : c # last => groups'[c] = groups[c]
       /\ Len(groups'[last]) = Len(groups[last]) + 1
       /\ groups'[last][Len(groups[last]) + 1] = candidate
       /\ \A i \in 1 .. Len(groups[last]) : groups'[last][i] = groups[last][i]
       /\ GroupsOK(groups', n + 1)
       /\ GroupTasks(groups') = GroupTasks(groups) \cup {n + 1}
  <2>1. JoinsLast(groups, Joined(groups, candidate), candidate, n)
    BY <1>1, <1>2, <1>5, <1>7, <1>9, CandidateJoins
  <2>2. QED
    BY <1>4, <2>1 DEF JoinsLast
<1>11. Created(board, board')
  BY <1>1, <1>2, TaskCreated
<1>12. /\ BoardOK(board') /\ Len(board'.tasks) = n + 1
       /\ CurrentRevision(board') = CurrentRevision(board)
       /\ CurrentText(board') = CurrentText(board)
  BY <1>11, SameBase DEF Created, n
<1>13. Work(board', decisions', registry', waiting \cup {n + 1}, {})
  <2>1. Len(board.tasks) + 1 \notin {}
    OBVIOUS
  <2>2. Work(board', decisions, registry, waiting \cup {n + 1}, {})
    BY <1>3, <1>11, <2>1, WorkCreated DEF n
  <2>3. QED
    BY <1>2, <2>2
<1>14. OnCurrent(board', waiting \cup {n + 1})
  BY <1>1, <1>3, <1>11, CreateOnCurrent DEF n
<1>15. QueueOK(queue', Len(board'.tasks)) /\ GroupsOK(groups', Len(board'.tasks))
  BY <1>1, <1>5, <1>10, <1>12, TasksExist
<1>16. LoopTypeOK'
  BY <1>1, <1>2, <1>10, <1>12 DEF LoopTypeOK, Codes
<1>17. Places'
  <2>1. Len(groups'[last]) <= code
    BY <1>1, <1>2, <1>5, <1>6, <1>9, <1>10 DEF Codes
  <2>2. QED
    BY <1>2, <1>10, <2>1 DEF Places
<1>18. Useful'
  <2>1. \A c \in 1 .. last : \A i \in 1 .. Len(groups[c]) : Failing(groups[c][i], CurrentText(board))
    BY <1>1, <1>2 DEF Useful
  <2>2. ASSUME NEW c \in 1 .. last, NEW i \in 1 .. Len(groups'[c])
        PROVE  Failing(groups'[c][i], CurrentText(board))
    <3>1. CASE c # last
      BY <1>10, <2>1, <2>2, <3>1
    <3>2. CASE c = last
      <4>1. i \in 1 .. Len(groups[last]) \/ i = Len(groups[last]) + 1
        BY <1>9, <1>10, <2>2, <3>2
      <4>2. QED
        BY <1>5, <1>8, <1>10, <2>1, <3>2, <4>1
    <3>3. QED
      BY <3>1, <3>2
  <2>3. QED
    BY <1>2, <1>10, <1>12, <2>2 DEF Useful
<1>19. Waiting(phase', groups', queue', next') = waiting \cup {n + 1}
       /\ Working(phase', queue', next') = {}
  BY <1>2, <1>10 DEF Waiting, Working, InSession, waiting
<1>20. Based'
  <2>1. OnCurrent(board', {})
    BY DEF OnCurrent
  <2>2. QED
    BY <1>14, <1>19, <2>1 DEF Based
<1>21. Opens' /\ Counted'
  BY <1>1, <1>2 DEF Opens, Counted, InSession
<1>22. Reported'
  BY <1>1, <1>2, <1>10, <1>12 DEF Reported
<1>23. QED
  BY <1>13, <1>15, <1>16, <1>17, <1>18, <1>19, <1>20, <1>21, <1>22 DEF LoopInv, Work

\* A failure that needs a person is BLOCKED as it is found.
LEMMA BlockedAtOnceStep ==
  ASSUME LoopInv, NEW code, Dispatching(code), seen' = code, BlockedAtOnce,
         UNCHANGED <<registry, phase, reports, queue, next, attempts>>
  PROVE  LoopInv'
<1> DEFINE n == Len(board.tasks)
           waiting == GroupTasks(groups)
           created == CreatedTask(board)
<1>1. LoopTypeOK /\ BoardOK(board) /\ queue \in Seq(Candidates) /\ next \in 0 .. Len(queue)
      /\ groups \in Seq(Seq(Candidates)) /\ seen \in 0 .. NCodes
      /\ GroupsOK(groups, n) /\ QueueOK(queue, n) /\ decisions \in Seq(Decision)
      /\ Places /\ Useful /\ Based /\ Opens /\ Counted /\ Reported
  BY LoopWork DEF LoopTypeOK
<1>2. /\ phase = "analyse" /\ groups # <<>> /\ code \in Codes /\ code > seen /\ groups' = groups
      /\ board' = MovedTask(created, n + 1, "BLOCKED")
      /\ decisions' = Decide(decisions, n + 1, "BLOCKED", CurrentRevision(board), 0)
  BY DEF Dispatching, BlockedAtOnce
<1>3. Work(board, decisions, registry, waiting, {}) /\ OnCurrent(board, waiting)
  BY <1>1, <1>2, LoopWork DEF Waiting, Working, InSession, Based
<1>4. n \in Nat /\ n + 1 \in 1 .. n + 1 /\ CurrentRevision(board) \in Nat
  BY <1>1, BoardTypes
<1> HIDE DEF n, waiting, created
<1>5. Created(board, created)
  BY <1>1, TaskCreated DEF created
<1>6. Len(created.tasks) = n + 1 /\ BoardOK(created) /\ created.revisions = board.revisions
  BY <1>5 DEF Created, n
<1>7. Work(created, decisions, registry, waiting \cup {n + 1}, {})
      /\ OnCurrent(created, waiting \cup {n + 1})
  <2>1. Len(board.tasks) + 1 \notin {}
    OBVIOUS
  <2>2. QED
    BY <1>1, <1>3, <1>5, <2>1, WorkCreated, CreateOnCurrent DEF n
<1>8. "BLOCKED" \in TaskStatus /\ "BLOCKED" \in DecidedAs["BLOCKED"]
  BY DEF TaskStatus, DecidedAs
<1>9. Moved(created, board', n + 1, "BLOCKED")
  BY <1>2, <1>4, <1>6, <1>8, TaskMoved
<1>10. Work(board', decisions', registry, (waiting \cup {n + 1}) \ {n + 1}, {} \ {n + 1})
       /\ Decided(decisions, decisions', n + 1, "BLOCKED", 0)
  <2>1. n + 1 \in 1 .. Len(created.tasks) /\ n + 1 \in waiting \cup {n + 1}
    BY <1>4, <1>6
  <2>2. QED
    BY <1>2, <1>4, <1>7, <1>8, <1>9, <2>1, WorkSettled
<1>11. (waiting \cup {n + 1}) \ {n + 1} = waiting /\ {} \ {n + 1} = {}
  <2>1. waiting \subseteq 1 .. n /\ n + 1 \notin 1 .. n
    BY <1>1, <1>4, TasksExist DEF waiting
  <2>2. QED
    BY <2>1
<1>12. OnCurrent(board', waiting)
  <2>1. n + 1 \in 1 .. Len(created.tasks)
    BY <1>4, <1>6
  <2>2. OnCurrent(board', waiting \cup {n + 1})
    <3>1. \A tasks : OnCurrent(created, tasks) => OnCurrent(board', tasks)
      BY <1>6, <1>9, <2>1, MoveKeeps, Zenon
    <3>2. QED
      BY <1>7, <3>1, Zenon
  <2>3. QED
    BY <2>2, FewerOnCurrent
<1>13. /\ BoardOK(board') /\ Len(board'.tasks) = n + 1 /\ board'.revisions = board.revisions
  BY <1>6, <1>9 DEF Moved
<1>14. /\ CurrentRevision(board') = CurrentRevision(board)
       /\ CurrentText(board') = CurrentText(board)
  BY <1>13, SameBase
<1>15. GroupsOK(groups', Len(board'.tasks)) /\ QueueOK(queue', Len(board'.tasks))
  BY <1>1, <1>2, <1>4, <1>13, TasksExist
<1>16. LoopTypeOK'
  BY <1>1, <1>2, <1>10, <1>13 DEF LoopTypeOK, Codes, Decided
<1>17. Places'
  <2>1. Len(groups[Len(groups)]) <= code
    <3>1. Len(groups) \in 1 .. Len(groups)
      BY <1>1, <1>2
    <3>2. groups[Len(groups)] \in Seq(Candidates)
      BY <1>1, <3>1
    <3>3. Len(groups[Len(groups)]) \in Nat /\ Len(groups[Len(groups)]) <= seen
      BY <1>1, <1>2, <3>2 DEF Places
    <3>4. QED
      BY <1>1, <1>2, <3>3 DEF Codes
  <2>2. QED
    BY <1>2, <2>1 DEF Places
<1>18. Useful' /\ Reported'
  BY <1>1, <1>2, <1>14 DEF Useful, Reported
<1>19. Waiting(phase', groups', queue', next') = waiting /\ Working(phase', queue', next') = {}
  BY <1>2 DEF Waiting, Working, InSession, waiting
<1>20. Based'
  <2>1. OnCurrent(board', {})
    BY DEF OnCurrent
  <2>2. QED
    BY <1>12, <1>19, <2>1 DEF Based
<1>21. Opens'
  BY <1>1, <1>2 DEF Opens, InSession
<1>22. Counted'
  <2>1. Attempted(decisions') = Attempted(decisions)
    BY <1>1, <1>10, AttemptsDecided DEF Decided
  <2>2. QED
    BY <1>1, <1>2, <2>1 DEF Counted
<1>23. QED
  BY <1>10, <1>11, <1>15, <1>16, <1>17, <1>18, <1>19, <1>20, <1>21, <1>22 DEF LoopInv, Work

\* Either way.
LEMMA DispatchStep ==
  ASSUME LoopInv, Dispatch
  PROVE  LoopInv'
<1>1. phase = "analyse" /\ UNCHANGED <<registry, phase, reports, queue, next, attempts>>
  BY DEF Dispatch
<1>2. PICK code \in Undispatched :
        /\ seen' = code
        /\ IF Route[code] = "surgical" /\ attempts < MaximumAttempts THEN Routed(code)
           ELSE IF Route[code] \in {"surgical", "upstream"} THEN BlockedAtOnce
           ELSE UNCHANGED <<board, groups, decisions>>
  BY DEF Dispatch
<1>3. Dispatching(code)
  BY <1>1, DispatchNext
<1>4. CASE Routed(code)
  BY <1>1, <1>2, <1>3, <1>4, RoutedStep
<1>5. CASE BlockedAtOnce
  BY <1>1, <1>2, <1>3, <1>5, BlockedAtOnceStep
<1>6. CASE UNCHANGED <<board, groups, decisions>>
  <2>1. LoopTypeOK /\ GroupsOK(groups, Len(board.tasks)) /\ QueueOK(queue, Len(board.tasks))
        /\ Places /\ Useful /\ Reported /\ groups \in Seq(Seq(Candidates))
    BY DEF LoopInv, LoopTypeOK
  <2>2. code \in Codes /\ code > seen /\ groups # <<>> /\ seen \in 0 .. NCodes
    BY <1>3, <2>1 DEF Dispatching, LoopTypeOK
  <2>3. LoopTypeOK'
    BY <1>1, <1>2, <1>6, <2>1, <2>2 DEF LoopTypeOK, Codes
  <2>4. Places'
    <3>1. Len(groups) \in 1 .. Len(groups)
      BY <2>1, <2>2
    <3>2. groups[Len(groups)] \in Seq(Candidates)
      BY <2>1, <3>1
    <3>3. Len(groups[Len(groups)]) \in Nat /\ Len(groups[Len(groups)]) <= seen
      BY <2>1, <2>2, <3>2 DEF Places
    <3>4. Len(groups[Len(groups)]) <= code
      BY <2>2, <3>3 DEF Codes
    <3>5. QED
      BY <1>1, <1>2, <1>6, <2>1, <3>4 DEF Places
  <2>5. Useful' /\ Reported'
    BY <1>1, <1>6, <2>1 DEF Useful, Reported
  <2>6. Waiting(phase', groups', queue', next') = Waiting(phase, groups, queue, next)
    BY <1>1, <1>6 DEF Waiting
  <2>7. QED
    BY <1>1, <1>6, <2>1, <2>3, <2>4, <2>5, <2>6, QuietStep DEF CutShort
<1>7. QED
  BY <1>2, <1>4, <1>5, <1>6

-----------------------------------------------------------------------------
(* After a rejection.                                                      *)

\* What is left after a rejection, before it is known whether there is a retry: the
\* candidate is settled, b is the board, and taken candidates of the queue were taken up.
Rejecting(b, candidate, taken) ==
  /\ b.revisions = board.revisions /\ Len(b.tasks) = Len(board.tasks)
  /\ taken \in 1 .. Len(queue) /\ candidate \in Candidates
  /\ Failing(candidate, CurrentText(board))
  /\ \A i \in 1 .. Len(queue) : i >= taken => Failing(queue[i], CurrentText(board))
  /\ Work(b, decisions', registry', QueueTasks(queue, taken), {})
  /\ OnCurrent(b, QueueTasks(queue, taken))

\* After it the loop is back at its next candidate.
LEMMA AfterRejectionStep ==
  ASSUME LoopInv, phase \in {"attempt", "repairing"},
         NEW b, NEW candidate, NEW taken, Rejecting(b, candidate, taken),
         AfterRejection(b, candidate, taken),
         RegistryOK(registry'),
         \A s \in 1 .. Len(registry'.sessions) : registry'.sessions[s].status \notin Unclosed,
         Cardinality(Attempted(decisions')) = Len(registry'.sessions),
         Len(registry'.sessions) <= attempts + 1
  PROVE  LoopInv'
<1> DEFINE n == Len(board.tasks)
           waiting == QueueTasks(queue, taken)
           created == CreatedTask(b)
           retry == [candidate EXCEPT !.task = Len(created.tasks), !.retryOf = candidate.task]
<1>1. LoopTypeOK /\ BoardOK(board) /\ queue \in Seq(Candidates) /\ attempts \in Nat
      /\ groups \in Seq(Seq(Candidates))
      /\ GroupsOK(groups, n) /\ QueueOK(queue, n) /\ Places /\ Reported
  BY LoopWork DEF LoopTypeOK
<1>2. /\ attempts' = attempts + 1 /\ next' = taken /\ phase' = "attempt"
      /\ IF candidate.retryOf = 0 /\ attempts' < MaximumAttempts
         THEN board' = created /\ queue' = InsertRetry(queue, taken, retry)
         ELSE board' = b /\ queue' = queue
      /\ UNCHANGED <<groups, reports, seen>>
  BY DEF AfterRejection
<1>3. /\ b.revisions = board.revisions /\ Len(b.tasks) = n
      /\ taken \in 1 .. Len(queue) /\ candidate \in Candidates
      /\ Failing(candidate, CurrentText(board))
      /\ \A i \in 1 .. Len(queue) : i >= taken => Failing(queue[i], CurrentText(board))
      /\ Work(b, decisions', registry', waiting, {}) /\ OnCurrent(b, waiting) /\ BoardOK(b)
  BY DEF Rejecting, Work
<1>4. n \in Nat /\ taken \in 0 .. Len(queue) /\ taken \in Nat
  BY <1>1, <1>3, BoardTypes
<1> HIDE DEF n, waiting, created, retry
\* The parts of the invariant that the retry may disturb.
<1>5. /\ BoardOK(board') /\ board'.revisions = board.revisions
      /\ queue' \in Seq(Candidates) /\ taken \in 0 .. Len(queue')
      /\ GroupsOK(groups, Len(board'.tasks)) /\ QueueOK(queue', Len(board'.tasks))
      /\ \A i \in 1 .. Len(queue') : i >= taken => Failing(queue'[i], CurrentText(board))
      /\ Work(board', decisions', registry', QueueTasks(queue', taken), {})
      /\ OnCurrent(board', QueueTasks(queue', taken))
  <2>1. CASE board' = b /\ queue' = queue
    BY <1>1, <1>3, <1>4, <2>1 DEF waiting
  <2>2. CASE board' = created /\ queue' = InsertRetry(queue, taken, retry)
    <3>1. Created(b, created)
      BY <1>3, TaskCreated DEF created
    <3>2. /\ Len(created.tasks) = n + 1 /\ BoardOK(created) /\ created.revisions = board.revisions
      BY <1>3, <3>1 DEF Created
    <3>3. /\ retry \in Candidates /\ retry.task = n + 1
          /\ retry.code = candidate.code /\ retry.chain = candidate.chain
      <4>1. retry = [candidate EXCEPT !.task = n + 1, !.retryOf = candidate.task]
        BY <3>2 DEF retry
      <4>2. candidate \in Candidates /\ n + 1 \in Nat
        BY <1>3, <1>4
      <4>3. QED
        BY <4>1, <4>2 DEF Candidates
    <3>4. Failing(retry, CurrentText(board))
      BY <1>3, <3>3 DEF Failing
    <3>5. /\ queue' \in Seq(Candidates) /\ Len(queue') = Len(queue) + 1
          /\ taken \in 0 .. Len(queue')
          /\ \A i \in 1 .. taken : queue'[i] = queue[i]
          /\ \A i \in 1 .. Len(queue') :
               \/ queue'[i] = retry
               \/ \E j \in 1 .. Len(queue) : queue'[i] = queue[j] /\ (i > taken => j > taken)
          /\ QueueOK(queue', n + 1)
          /\ QueueTasks(queue', taken) = waiting \cup {n + 1}
      BY <1>1, <1>4, <2>2, <3>3, CandidateQueued DEF waiting
    <3>6. Work(created, decisions', registry', waiting \cup {n + 1}, {})
          /\ OnCurrent(created, waiting \cup {n + 1})
      <4>1. Len(b.tasks) + 1 \notin {}
        OBVIOUS
      <4>2. QED
        BY <1>3, <3>1, <4>1, WorkCreated, CreateOnCurrent
    <3>7. ASSUME NEW i \in 1 .. Len(queue'), i >= taken
          PROVE  Failing(queue'[i], CurrentText(board))
      <4>1. CASE i = taken
        <5>1. taken \in 1 .. taken /\ taken >= taken
          BY <1>3, <1>4
        <5>2. QED
          BY <1>3, <3>5, <4>1, <5>1
      <4>2. CASE i > taken
        <5>1. CASE queue'[i] = retry
          BY <3>4, <5>1
        <5>2. CASE \E j \in 1 .. Len(queue) : queue'[i] = queue[j] /\ j > taken
          <6>1. PICK j \in 1 .. Len(queue) : queue'[i] = queue[j] /\ j > taken
            BY <5>2
          <6>2. j >= taken
            BY <1>4, <6>1
          <6>3. QED
            BY <1>3, <6>1, <6>2
        <5>3. QED
          BY <3>5, <4>2, <5>1, <5>2
      <4>3. QED
        BY <1>4, <3>7, <4>1, <4>2
    <3>8. GroupsOK(groups, n + 1)
      BY <1>1, <1>4, TasksExist
    <3>9. QED
      BY <2>2, <3>2, <3>5, <3>6, <3>7, <3>8
  <2>3. QED
    BY <1>2, <2>1, <2>2
<1>6. /\ CurrentRevision(board') = CurrentRevision(board)
      /\ CurrentText(board') = CurrentText(board)
  BY <1>5, SameBase
<1>7. decisions' \in Seq(Decision)
  BY <1>3 DEF Work
<1>8. LoopTypeOK'
  BY <1>1, <1>2, <1>5, <1>7 DEF LoopTypeOK, Phases
<1>9. Places'
  BY <1>1, <1>2 DEF Places
<1>10. Useful'
  BY <1>2, <1>5, <1>6 DEF Useful
<1>11. Waiting(phase', groups', queue', next') = QueueTasks(queue', taken)
       /\ Working(phase', queue', next') = {}
  BY <1>2 DEF Waiting, Working, InSession
<1>12. Based'
  <2>1. OnCurrent(board', {})
    BY DEF OnCurrent
  <2>2. QED
    BY <1>5, <1>11, <2>1 DEF Based
<1>13. Opens'
  BY <1>2 DEF Opens, InSession
<1>14. Counted'
  <2>1. Len(registry'.sessions) \in Nat
    BY RegistryTypes
  <2>2. QED
    BY <1>1, <1>2, <2>1 DEF Counted, InSession
<1>15. Reported'
  BY <1>1, <1>2, <1>6 DEF Reported
<1>16. QED
  BY <1>2, <1>5, <1>8, <1>9, <1>10, <1>11, <1>12, <1>13, <1>14, <1>15 DEF LoopInv, Work

\* A candidate whose context cannot be resolved is BLOCKED without an attempt.
LEMMA ContextUnresolvedStep ==
  ASSUME LoopInv, ContextUnresolved
  PROVE  LoopInv'
<1> DEFINE candidate == queue[next + 1]
           t == candidate.task
           b == MovedTask(board, t, "BLOCKED")
           waiting == QueueTasks(queue, next)
<1>1. LoopTypeOK /\ BoardOK(board) /\ RegistryOK(registry)
      /\ queue \in Seq(Candidates) /\ next \in 0 .. Len(queue)
      /\ QueueOK(queue, Len(board.tasks)) /\ decisions \in Seq(Decision)
      /\ Useful /\ Based /\ Opens /\ Counted /\ attempts \in Nat
  BY LoopWork DEF LoopTypeOK
<1>2. /\ phase = "attempt" /\ next < Len(queue)
      /\ decisions' = Decide(decisions, t, "BLOCKED", CurrentRevision(board), 0)
      /\ AfterRejection(b, candidate, next + 1)
      /\ registry' = registry
  BY DEF ContextUnresolved
<1>3. Work(board, decisions, registry, waiting, {}) /\ OnCurrent(board, waiting)
  BY <1>1, <1>2, LoopWork DEF Waiting, Working, InSession, Based
<1>4. Len(board.tasks) \in Nat /\ CurrentRevision(board) \in Nat
  BY <1>1, BoardTypes
<1>5. /\ t \in 1 .. Len(board.tasks) /\ t \in waiting
      /\ next + 1 \in 1 .. Len(queue) /\ candidate \in Candidates
      /\ QueueTasks(queue, next + 1) = waiting \ {t}
  BY <1>1, <1>2, <1>4, TakenUp
<1> HIDE DEF candidate, t, b, waiting
<1>6. "BLOCKED" \in TaskStatus /\ "BLOCKED" \in DecidedAs["BLOCKED"]
  BY DEF TaskStatus, DecidedAs
<1>7. Moved(board, b, t, "BLOCKED")
  BY <1>1, <1>5, <1>6, TaskMoved DEF b
<1>8. Work(b, decisions', registry, waiting \ {t}, {} \ {t})
      /\ Decided(decisions, decisions', t, "BLOCKED", 0)
  BY <1>2, <1>3, <1>4, <1>5, <1>6, <1>7, WorkSettled
<1>9. OnCurrent(b, waiting \ {t})
  <2>1. OnCurrent(b, waiting)
    BY <1>1, <1>3, <1>5, <1>7, MoveKeeps
  <2>2. QED
    BY <2>1, FewerOnCurrent
<1>10. \A i \in 1 .. Len(queue) : i >= next + 1 => Failing(queue[i], CurrentText(board))
  <2>1. \A i \in 1 .. Len(queue) : i >= next + 1 => i >= next
    BY <1>1
  <2>2. QED
    BY <1>1, <1>2, <2>1 DEF Useful
<1>11. Rejecting(b, candidate, next + 1)
  <2>1. Failing(candidate, CurrentText(board))
    BY <1>1, <1>5, <1>10 DEF candidate
  <2>2. Work(b, decisions', registry', QueueTasks(queue, next + 1), {})
    <3>1. {} \ {t} = {}
      OBVIOUS
    <3>2. QED
      BY <1>2, <1>5, <1>8, <3>1
  <2>3. QED
    BY <1>5, <1>7, <1>9, <1>10, <2>1, <2>2 DEF Rejecting, Moved
<1>12. /\ RegistryOK(registry')
       /\ \A s \in 1 .. Len(registry'.sessions) : registry'.sessions[s].status \notin Unclosed
  BY <1>1, <1>2 DEF Opens, InSession
<1>13. Cardinality(Attempted(decisions')) = Len(registry'.sessions)
       /\ Len(registry'.sessions) <= attempts + 1
  <2>1. Attempted(decisions') = Attempted(decisions)
    BY <1>1, <1>8, AttemptsDecided DEF Decided
  <2>2. Len(registry.sessions) \in Nat
    BY <1>1, RegistryTypes
  <2>3. QED
    BY <1>1, <1>2, <2>1, <2>2 DEF Counted, InSession
<1>14. QED
  BY <1>2, <1>11, <1>12, <1>13, AfterRejectionStep

-----------------------------------------------------------------------------
(* Attempts that are rejected.                                             *)

\* What the loop holds while an attempt is made: its task is the one ACTIVE task, and its
\* session the one OPEN session, on the current model.
LEMMA AttemptMade ==
  ASSUME LoopInv, phase = "repairing"
  PROVE  /\ BoardOK(board) /\ RegistryOK(registry) /\ decisions \in Seq(Decision)
         /\ queue \in Seq(Candidates) /\ next \in 1 .. Len(queue) /\ attempts \in Nat
         /\ Candidate \in Candidates /\ Candidate.task \in 1 .. Len(board.tasks)
         /\ board.tasks[Candidate.task] \in Task
         /\ Work(board, decisions, registry, QueueTasks(queue, next), {Candidate.task})
         /\ OnCurrent(board, QueueTasks(queue, next))
         /\ TaskBase(board, Candidate.task) = CurrentBase(board)
         /\ Failing(Candidate, CurrentText(board))
         /\ Current = Len(registry.sessions) /\ Current \in 1 .. Len(registry.sessions)
         /\ registry.sessions[Current] \in Session
         /\ registry.sessions[Current].status = "OPEN"
         /\ registry.sessions[Current].task = Candidate.task
         /\ registry.sessions[Current].base = CurrentBase(board)
         /\ \A s \in 1 .. Len(registry.sessions) :
              s # Current => registry.sessions[s].status \notin Unclosed
         /\ Cardinality(Attempted(decisions)) = Len(registry.sessions) - 1
         /\ Len(registry.sessions) <= attempts + 1 /\ Len(registry.sessions) \in Nat
<1> DEFINE t == Candidate.task
           session == registry.sessions[Current]
<1>1. LoopTypeOK /\ BoardOK(board) /\ RegistryOK(registry) /\ decisions \in Seq(Decision)
      /\ queue \in Seq(Candidates) /\ next \in 0 .. Len(queue) /\ attempts \in Nat
      /\ QueueOK(queue, Len(board.tasks)) /\ Places /\ Useful /\ Based /\ Opens /\ Counted
      /\ Work(board, decisions, registry, QueueTasks(queue, next), {t})
  BY LoopWork DEF LoopTypeOK, Waiting, Working, InSession, Candidate
<1>2. next \in 1 .. Len(queue)
  BY <1>1 DEF Places
<1>3. Candidate \in Candidates /\ t \in 1 .. Len(board.tasks) /\ Failing(Candidate, CurrentText(board))
  <2>1. next >= next
    BY <1>2
  <2>2. QED
    BY <1>1, <1>2, <2>1 DEF Candidate, QueueOK, Useful
<1>4. board.tasks[t] \in Task
  BY <1>1, <1>3, BoardTypes
<1>5. OnCurrent(board, QueueTasks(queue, next)) /\ OnCurrent(board, {t})
  BY <1>1 DEF Based, Waiting, Working, InSession, Candidate
<1>6. TaskBase(board, t) = CurrentBase(board)
  BY <1>3, <1>5 DEF OnCurrent
<1>7. AtWork(board, registry, t)
  BY <1>1 DEF Opens, InSession, Candidate
<1>8. Len(registry.sessions) \in Nat
  BY <1>1, RegistryTypes
<1>9. Current = Len(registry.sessions) /\ Current \in 1 .. Len(registry.sessions)
  BY <1>7, <1>8 DEF AtWork, LastIs, Current
<1>10. session \in Session
  BY <1>1, <1>9, RegistryTypes
<1>11. session.status = "OPEN" /\ session.task = t /\ session.base = CurrentBase(board)
  BY <1>7 DEF AtWork, LastIs, Current
<1>12. \A s \in 1 .. Len(registry.sessions) :
         s # Current => registry.sessions[s].status \notin Unclosed
  BY <1>1, <1>9 DEF Opens
<1>13. Cardinality(Attempted(decisions)) = Len(registry.sessions) - 1
       /\ Len(registry.sessions) <= attempts + 1
  BY <1>1 DEF Counted, InSession
<1>14. QED
  BY <1>1, <1>2, <1>3, <1>4, <1>5, <1>6, <1>8, <1>9, <1>10, <1>11, <1>12, <1>13

\* The task of a rejected attempt is REJECTED, and its decision published.
LEMMA AttemptRejected ==
  ASSUME LoopInv, phase = "repairing", RejectionDecided
  PROVE  /\ Moved(board, RejectedBoard, Candidate.task, "REJECTED")
         /\ Work(RejectedBoard, decisions', registry, QueueTasks(queue, next), {})
         /\ OnCurrent(RejectedBoard, QueueTasks(queue, next))
         /\ decisions' \in Seq(Decision)
         /\ Cardinality(Attempted(decisions')) = Len(registry.sessions)
<1> DEFINE t == Candidate.task
           waiting == QueueTasks(queue, next)
<1>1. /\ BoardOK(board) /\ decisions \in Seq(Decision) /\ t \in 1 .. Len(board.tasks)
      /\ board.tasks[t] \in Task
      /\ Work(board, decisions, registry, waiting, {t}) /\ OnCurrent(board, waiting)
      /\ Cardinality(Attempted(decisions)) = Len(registry.sessions) - 1
      /\ Len(registry.sessions) \in Nat
  BY AttemptMade
<1> HIDE DEF t, waiting
<1>2. "REJECTED" \in TaskStatus /\ "REJECTED" \in DecidedAs["REJECTED"] /\ board.tasks[t].rev \in Nat
  BY <1>1 DEF TaskStatus, DecidedAs, Task
<1>3. decisions' = Decide(decisions, t, "REJECTED", board.tasks[t].rev, 0)
  BY DEF RejectionDecided, t
<1>4. Moved(board, RejectedBoard, t, "REJECTED")
  BY <1>1, <1>2, TaskMoved DEF RejectedBoard, t
<1>5. Work(RejectedBoard, decisions', registry, waiting \ {t}, {t} \ {t})
      /\ Decided(decisions, decisions', t, "REJECTED", 0)
  <2>1. t \in waiting \cup {t}
    OBVIOUS
  <2>2. QED
    BY <1>1, <1>2, <1>3, <1>4, <2>1, WorkSettled
<1>6. waiting \ {t} = waiting /\ {t} \ {t} = {}
  <2>1. board.tasks[t].status = "ACTIVE"
    BY <1>1 DEF Work, StatusOf
  <2>2. t \notin waiting
    BY <1>1, <2>1 DEF Work, StatusOf
  <2>3. QED
    BY <2>2
<1>7. OnCurrent(RejectedBoard, waiting)
  BY <1>1, <1>4, MoveKeeps
<1>8. Cardinality(Attempted(decisions')) = Len(registry.sessions)
  <2>1. "REJECTED" \in {"ACCEPTED", "REJECTED"}
    OBVIOUS
  <2>2. Cardinality(Attempted(decisions')) = Cardinality(Attempted(decisions)) + 1
    BY <1>1, <1>5, <2>1, AttemptsDecided DEF Decided
  <2>3. QED
    BY <1>1, <2>2
<1>9. QED
  BY <1>4, <1>5, <1>6, <1>7, <1>8 DEF t, waiting, Decided

\* The session of the attempt is written to or closed; its task stays its task, and no
\* other session is OPEN or EXPIRED.
LEMMA AttemptWritten ==
  ASSUME LoopInv, phase = "repairing", NEW session \in Session,
         session.task = Candidate.task, NEW reg, Replaced(registry, reg, Current, session)
  PROVE  /\ RegistryOK(reg) /\ Len(reg.sessions) = Len(registry.sessions)
         /\ reg.sessions[Current] = session
         /\ \A s \in 1 .. Len(reg.sessions) : reg.sessions[s].status \in Unclosed => s = Current
         /\ \A b : HeldOK(b, registry) => HeldOK(b, reg)
<1>1. /\ RegistryOK(reg) /\ Len(reg.sessions) = Len(registry.sessions)
      /\ reg.sessions[Current] = session
      /\ \A s \in 1 .. Len(registry.sessions) : s # Current => reg.sessions[s] = registry.sessions[s]
  BY DEF Replaced
<1>2. /\ registry.sessions[Current].task = Candidate.task
      /\ \A s \in 1 .. Len(registry.sessions) :
           s # Current => registry.sessions[s].status \notin Unclosed
  BY AttemptMade
<1>3. \A s \in 1 .. Len(reg.sessions) : reg.sessions[s].status \in Unclosed => s = Current
  BY <1>1, <1>2
<1>4. \A s \in 1 .. Len(reg.sessions) : reg.sessions[s].task = registry.sessions[s].task
  BY <1>1, <1>2
<1>5. \A b : HeldOK(b, registry) => HeldOK(b, reg)
  BY <1>1, <1>4 DEF HeldOK
<1>6. QED
  BY <1>1, <1>3, <1>5

\* The session of the attempt is closed, and so none is OPEN or EXPIRED.
LEMMA AttemptClosed ==
  ASSUME LoopInv, phase = "repairing", NEW session \in Session,
         session.status \in {"REJECTED", "COMPLETED"},
         session.task = Candidate.task, NEW reg, Replaced(registry, reg, Current, session)
  PROVE  /\ RegistryOK(reg) /\ Len(reg.sessions) = Len(registry.sessions)
         /\ \A s \in 1 .. Len(reg.sessions) : reg.sessions[s].status \notin Unclosed
         /\ \A b : HeldOK(b, registry) => HeldOK(b, reg)
<1>1. session.status \notin Unclosed
  BY DEF Unclosed
<1>2. QED
  BY <1>1, AttemptWritten

\* HeldOK is a part of Work.
LEMMA WorkHeld ==
  ASSUME NEW b, NEW ds, NEW reg, NEW waiting, NEW working, Work(b, ds, reg, waiting, working),
         NEW other, HeldOK(b, reg) => HeldOK(b, other)
  PROVE  Work(b, ds, other, waiting, working)
BY DEF Work

\* A rejected attempt keeps the invariant, whatever its session became.
LEMMA RejectedWithStep ==
  ASSUME LoopInv, phase = "repairing",
         NEW session, Written(registry.sessions[Current], session), RejectedWith(session)
  PROVE  LoopInv'
<1> DEFINE closed == Closed(session, "REJECTED")
           waiting == QueueTasks(queue, next)
<1>1. /\ BoardOK(board) /\ RegistryOK(registry)
      /\ queue \in Seq(Candidates) /\ next \in 1 .. Len(queue)
      /\ Candidate \in Candidates /\ Failing(Candidate, CurrentText(board))
      /\ Current \in 1 .. Len(registry.sessions)
      /\ registry.sessions[Current].task = Candidate.task
      /\ Len(registry.sessions) <= attempts + 1
  BY AttemptMade
<1>2. /\ RejectionDecided
      /\ registry' = WithSession(registry, Current, closed)
      /\ AfterRejection(RejectedBoard, Candidate, next)
  BY DEF RejectedWith
<1>3. session \in Session /\ session.task = Candidate.task
  BY <1>1 DEF Written
<1>4. closed \in Session /\ closed.status = "REJECTED" /\ closed.task = Candidate.task
  <2>1. "REJECTED" \in SessionStatus
    BY DEF SessionStatus
  <2>2. QED
    BY <1>3, <2>1, ClosedType
<1> HIDE DEF closed, waiting
<1>5. Replaced(registry, registry', Current, closed)
  BY <1>1, <1>2, <1>4, SessionReplaced
<1>6. /\ RegistryOK(registry') /\ Len(registry'.sessions) = Len(registry.sessions)
      /\ \A s \in 1 .. Len(registry'.sessions) : registry'.sessions[s].status \notin Unclosed
      /\ \A b : HeldOK(b, registry) => HeldOK(b, registry')
  BY <1>4, <1>5, AttemptClosed
<1>7. /\ Moved(board, RejectedBoard, Candidate.task, "REJECTED")
      /\ Work(RejectedBoard, decisions', registry, waiting, {})
      /\ OnCurrent(RejectedBoard, waiting)
      /\ Cardinality(Attempted(decisions')) = Len(registry.sessions)
  BY <1>2, AttemptRejected DEF waiting
<1>8. Rejecting(RejectedBoard, Candidate, next)
  <2>1. Work(RejectedBoard, decisions', registry', waiting, {})
    BY <1>6, <1>7, WorkHeld
  <2>2. \A i \in 1 .. Len(queue) : i >= next => Failing(queue[i], CurrentText(board))
    BY DEF LoopInv, Useful
  <2>3. QED
    BY <1>1, <1>7, <2>1, <2>2 DEF Rejecting, Moved, waiting
<1>9. QED
  BY <1>1, <1>2, <1>6, <1>7, <1>8, AfterRejectionStep

\* The provider fails.
LEMMA ChatFailsStep ==
  ASSUME LoopInv, ChatFails
  PROVE  LoopInv'
<1>1. phase = "repairing"
  BY DEF ChatFails
<1>2. PICK prompt \in TokenCounts : RejectedWith(Prompted(prompt))
  BY DEF ChatFails
<1>3. Written(registry.sessions[Current], Prompted(prompt))
  BY <1>1, AttemptMade, AttemptWrites
<1>4. QED
  BY <1>1, <1>2, <1>3, RejectedWithStep

\* The reply is not accepted.
LEMMA RepairRejectedStep ==
  ASSUME LoopInv, RepairRejected
  PROVE  LoopInv'
<1>1. phase = "repairing"
  BY DEF RepairRejected
<1>2. PICK prompt \in TokenCounts, reply \in TokenCounts : RejectedWith(Replied(prompt, reply))
  BY DEF RepairRejected
<1>3. Written(registry.sessions[Current], Replied(prompt, reply))
  BY <1>1, AttemptMade, AttemptWrites
<1>4. QED
  BY <1>1, <1>2, <1>3, RejectedWithStep

\* The gate raises: the task stays ACTIVE and the session OPEN.
LEMMA GateRaisesStep ==
  ASSUME LoopInv, GateRaises
  PROVE  LoopInv'
<1>1. /\ phase = "repairing" /\ phase' = "unjudged"
      /\ UNCHANGED <<board, decisions, groups, reports, seen, queue, next, attempts>>
  BY DEF GateRaises
<1>2. PICK prompt \in TokenCounts, reply \in TokenCounts :
        /\ Replied(prompt, reply).status = "OPEN"
        /\ registry' = WithSession(registry, Current, Replied(prompt, reply))
  BY DEF GateRaises
<1> DEFINE session == Replied(prompt, reply)
<1>3. /\ BoardOK(board) /\ RegistryOK(registry)
      /\ Work(board, decisions, registry, QueueTasks(queue, next), {Candidate.task})
      /\ Current \in 1 .. Len(registry.sessions) /\ Current = Len(registry.sessions)
      /\ registry.sessions[Current].task = Candidate.task
      /\ registry.sessions[Current].base = CurrentBase(board)
      /\ Written(registry.sessions[Current], session)
  BY <1>1, AttemptMade, AttemptWrites
<1> HIDE DEF session
<1>4. session \in Session /\ session.task = Candidate.task /\ session.base = CurrentBase(board)
      /\ session.status = "OPEN"
  BY <1>2, <1>3 DEF Written, session
<1>5. Replaced(registry, registry', Current, session)
  BY <1>2, <1>3, <1>4, SessionReplaced DEF session
<1>6. /\ RegistryOK(registry') /\ Len(registry'.sessions) = Len(registry.sessions)
      /\ registry'.sessions[Current] = session
      /\ \A s \in 1 .. Len(registry'.sessions) :
           registry'.sessions[s].status \in Unclosed => s = Current
      /\ \A b : HeldOK(b, registry) => HeldOK(b, registry')
  BY <1>1, <1>4, <1>5, AttemptWritten
<1>7. Work(board, decisions, registry', QueueTasks(queue, next), {Candidate.task})
  BY <1>3, <1>6, WorkHeld
<1>8. LoopTypeOK /\ GroupsOK(groups, Len(board.tasks)) /\ QueueOK(queue, Len(board.tasks))
      /\ Places /\ Based /\ Counted /\ Reported
  BY DEF LoopInv
<1>9. LoopTypeOK'
  BY <1>1, <1>6, <1>8 DEF LoopTypeOK, Phases, CutShort
<1>10. GroupsOK(groups', Len(board'.tasks)) /\ QueueOK(queue', Len(board'.tasks))
  BY <1>1, <1>8
<1>11. Places' /\ Useful' /\ Reported'
  BY <1>1, <1>8 DEF Places, Useful, Reported
<1>12. /\ Waiting(phase', groups', queue', next') = QueueTasks(queue, next)
       /\ Waiting(phase, groups, queue, next) = QueueTasks(queue, next)
       /\ Working(phase', queue', next') = {Candidate.task}
       /\ Working(phase, queue, next) = {Candidate.task}
  BY <1>1 DEF Waiting, Working, InSession, Candidate
<1>13. Based'
  BY <1>1, <1>8, <1>12 DEF Based
<1>14. Opens'
  <2>1. AtWork(board', registry', queue'[next'].task)
    BY <1>1, <1>3, <1>4, <1>6 DEF AtWork, LastIs, Candidate
  <2>2. QED
    BY <1>1, <1>3, <1>6, <2>1 DEF Opens, InSession
<1>15. Counted'
  BY <1>1, <1>6, <1>8 DEF Counted, InSession
<1>16. QED
  BY <1>1, <1>7, <1>9, <1>10, <1>11, <1>12, <1>13, <1>14, <1>15 DEF LoopInv, Work

\* The session runs out of turns or tokens: the task is REJECTED and the run aborts.
LEMMA SessionExpiresStep ==
  ASSUME LoopInv, SessionExpires
  PROVE  LoopInv'
<1> DEFINE waiting == QueueTasks(queue, next)
<1>1. /\ phase = "repairing" /\ RejectionDecided /\ board' = RejectedBoard /\ phase' = "aborted"
      /\ UNCHANGED <<groups, reports, seen, queue, next, attempts>>
  BY DEF SessionExpires
<1>2. PICK prompt \in TokenCounts, reply \in TokenCounts :
        LET session == IF Prompted(prompt).status = "EXPIRED" THEN Prompted(prompt)
                       ELSE Replied(prompt, reply)
        IN  session.status = "EXPIRED" /\ registry' = WithSession(registry, Current, session)
  BY DEF SessionExpires
<1>3. PICK session : /\ session \in {Prompted(prompt), Replied(prompt, reply)}
                     /\ session.status = "EXPIRED"
                     /\ registry' = WithSession(registry, Current, session)
  BY <1>2
<1>4. /\ BoardOK(board) /\ RegistryOK(registry) /\ next \in 1 .. Len(queue)
      /\ Current \in 1 .. Len(registry.sessions) /\ Current = Len(registry.sessions)
      /\ registry.sessions[Current].task = Candidate.task
      /\ Len(registry.sessions) <= attempts + 1 /\ attempts \in Nat
  BY <1>1, AttemptMade
<1>5. session \in Session /\ session.task = Candidate.task
  <2>1. Written(registry.sessions[Current], session)
    BY <1>1, <1>3, AttemptMade, AttemptWrites
  <2>2. QED
    BY <1>4, <2>1 DEF Written
<1>6. Replaced(registry, registry', Current, session)
  BY <1>3, <1>4, <1>5, SessionReplaced
<1>7. /\ RegistryOK(registry') /\ Len(registry'.sessions) = Len(registry.sessions)
      /\ \A s \in 1 .. Len(registry'.sessions) :
           registry'.sessions[s].status \in Unclosed => s = Current
      /\ \A b : HeldOK(b, registry) => HeldOK(b, registry')
      /\ registry'.sessions[Current].status = "EXPIRED"
      /\ registry'.sessions[Current].task = Candidate.task
  BY <1>1, <1>3, <1>5, <1>6, AttemptWritten
<1> HIDE DEF waiting
<1>8. /\ Moved(board, board', Candidate.task, "REJECTED")
      /\ Work(board', decisions', registry, waiting, {})
      /\ OnCurrent(board', waiting) /\ decisions' \in Seq(Decision)
      /\ Cardinality(Attempted(decisions')) = Len(registry.sessions)
  BY <1>1, AttemptRejected DEF waiting
<1>9. Work(board', decisions', registry', waiting, {})
  BY <1>7, <1>8, WorkHeld
<1>10. LoopTypeOK /\ GroupsOK(groups, Len(board.tasks)) /\ QueueOK(queue, Len(board.tasks)) /\ Places
  BY DEF LoopInv
<1>11. LoopTypeOK'
  BY <1>1, <1>7, <1>8, <1>10 DEF LoopTypeOK, Phases, CutShort, Moved
<1>12. GroupsOK(groups', Len(board'.tasks)) /\ QueueOK(queue', Len(board'.tasks))
  BY <1>1, <1>8, <1>10 DEF Moved
<1>13. Places' /\ Useful' /\ Reported'
  BY <1>1, <1>4, <1>10 DEF Places, Useful, Reported
<1>14. Waiting(phase', groups', queue', next') = waiting /\ Working(phase', queue', next') = {}
  BY <1>1 DEF Waiting, Working, InSession, waiting
<1>15. Based'
  <2>1. OnCurrent(board', {})
    BY DEF OnCurrent
  <2>2. QED
    BY <1>8, <1>14, <2>1 DEF Based
<1>16. Opens'
  <2>1. LastIs(registry', queue'[next'].task, "EXPIRED")
    BY <1>1, <1>4, <1>7 DEF LastIs, Candidate
  <2>2. QED
    BY <1>1, <1>4, <1>7, <2>1 DEF Opens, InSession
<1>17. Counted'
  <2>1. Len(registry.sessions) \in Nat
    BY <1>4, RegistryTypes
  <2>2. QED
    BY <1>1, <1>4, <1>7, <1>8, <2>1 DEF Counted, InSession
<1>18. QED
  BY <1>9, <1>11, <1>12, <1>13, <1>14, <1>15, <1>16, <1>17 DEF LoopInv, Work

-----------------------------------------------------------------------------
(* The accepted repair.                                                    *)

\* A repair that passed the gate on a chain that failed made that chain better.
LEMMA GateImproves ==
  ASSUME NEW old \in Texts, NEW new \in Texts, NEW candidate \in Candidates,
         Failing(candidate, old), Gate(old[candidate.chain], new[candidate.chain], candidate.code)
  PROVE  Better(old, new)
<1>1. candidate.chain \in Chains
  BY DEF Candidates
<1>2. candidate.code \in old[candidate.chain] /\ candidate.code \notin new[candidate.chain]
      /\ new[candidate.chain] \subseteq old[candidate.chain]
  BY DEF Failing, Gate
<1>3. QED
  BY <1>1, <1>2 DEF Better

\* What is accepted is committed: the base of the attempt is still the current one, and
\* the board refuses no merged text.
LEMMA AcceptedIsCommitted ==
  ASSUME LoopInv, RepairAccepted
  PROVE  \E prompt, reply \in TokenCounts, text \in MergedTexts :
           /\ Replied(prompt, reply).status = "OPEN"
           /\ Gate(CurrentText(board)[Candidate.chain], text[Candidate.chain], Candidate.code)
           /\ SameBlocks(text)
           /\ AcceptedRepair(Replied(prompt, reply), TaskBase(board, Candidate.task), text)
           /\ Commit(board, text, TaskBase(board, Candidate.task).rev,
                     TaskBase(board, Candidate.task).digest, Candidate.task)
                = CommittedModel(board, text, Candidate.task)
<1> DEFINE base == TaskBase(board, Candidate.task)
<1>1. phase = "repairing"
  BY DEF RepairAccepted
<1>2. PICK prompt \in TokenCounts, reply \in TokenCounts, text \in MergedTexts :
        LET replied == Replied(prompt, reply)
            session == AssertedCurrent(replied, CurrentBase(board))
        IN  /\ replied.status = "OPEN"
            /\ Gate(CurrentText(board)[Candidate.chain], text[Candidate.chain], Candidate.code)
            /\ IF /\ session.status = "OPEN"
                  /\ ~StaleBase(board, base.rev, base.digest)
                  /\ SourcesAgree(board, text) /\ ProtectionHolds(board, text)
               THEN AcceptedRepair(session, base, text)
               ELSE CommitRaises(session, base, text)
  BY DEF RepairAccepted
<1>3. /\ BoardOK(board) /\ base = CurrentBase(board)
      /\ registry.sessions[Current] \in Session
      /\ registry.sessions[Current].base = CurrentBase(board)
  BY <1>1, AttemptMade
<1> HIDE DEF base
<1>4. AssertedCurrent(Replied(prompt, reply), CurrentBase(board)) = Replied(prompt, reply)
  <2>1. Written(registry.sessions[Current], Replied(prompt, reply))
    BY <1>3, AttemptWrites
  <2>2. Replied(prompt, reply).base = CurrentBase(board)
    BY <1>3, <2>1 DEF Written
  <2>3. QED
    BY <2>2 DEF AssertedCurrent
<1>5. ~StaleBase(board, base.rev, base.digest)
  BY <1>3 DEF StaleBase, CurrentBase
<1>6. SameBlocks(text)
  <2>1. SameBlocks(CurrentText(board))
    BY <1>3, BoardTypes
  <2>2. QED
    BY <2>1 DEF MergedTexts, SameBlocks
<1>7. SourcesAgree(board, text) /\ ProtectionHolds(board, text)
  BY <1>3, <1>6, NothingRefused
<1>8. AcceptedRepair(Replied(prompt, reply), base, text)
  BY <1>2, <1>4, <1>5, <1>7
<1>9. Commit(board, text, base.rev, base.digest, Candidate.task)
        = CommittedModel(board, text, Candidate.task)
  BY <1>5, <1>7 DEF Commit
<1>10. QED
  BY <1>2, <1>6, <1>8, <1>9 DEF base

\* The repair is committed and its decision published; the rest is to be superseded.
LEMMA RepairAcceptedStep ==
  ASSUME LoopInv, RepairAccepted
  PROVE  LoopInv'
<1> DEFINE t == Candidate.task
           base == TaskBase(board, t)
           waiting == QueueTasks(queue, next)
<1>1. phase = "repairing" /\ UNCHANGED <<groups, reports, seen, queue, next>>
  BY DEF RepairAccepted
<1>2. PICK prompt \in TokenCounts, reply \in TokenCounts, text \in MergedTexts :
        /\ Gate(CurrentText(board)[Candidate.chain], text[Candidate.chain], Candidate.code)
        /\ SameBlocks(text)
        /\ AcceptedRepair(Replied(prompt, reply), base, text)
        /\ Commit(board, text, base.rev, base.digest, t) = CommittedModel(board, text, t)
  BY AcceptedIsCommitted
<1> DEFINE m == CommittedModel(board, text, t)
           session == Replied(prompt, reply)
           closed == Closed(session, "COMPLETED")
           reg == WithSession(registry, Current, closed)
<1>3. /\ registry' = StaleAfterCommit(reg, CurrentBase(m), 0)
      /\ board' = MovedTask(m, t, "COMPLETED")
      /\ decisions' = Decide(decisions, t, "ACCEPTED", base.rev, CurrentRevision(m))
      /\ attempts' = attempts + 1 /\ phase' = "superseding"
  BY <1>2 DEF AcceptedRepair
<1>4. /\ BoardOK(board) /\ RegistryOK(registry) /\ decisions \in Seq(Decision)
      /\ Candidate \in Candidates /\ t \in 1 .. Len(board.tasks)
      /\ board.tasks[t] \in Task /\ Failing(Candidate, CurrentText(board))
      /\ base = CurrentBase(board)
      /\ Work(board, decisions, registry, waiting, {t})
      /\ Current \in 1 .. Len(registry.sessions)
      /\ registry.sessions[Current] \in Session
      /\ registry.sessions[Current].task = t
      /\ Cardinality(Attempted(decisions)) = Len(registry.sessions) - 1
      /\ Len(registry.sessions) <= attempts + 1 /\ attempts \in Nat
      /\ Len(registry.sessions) \in Nat
  BY <1>1, AttemptMade
<1>5. text \in Texts /\ CurrentText(board) \in Texts /\ t \in Nat
  BY <1>4, BoardTypes DEF MergedTexts
<1>6. Better(CurrentText(board), text)
  BY <1>2, <1>4, <1>5, GateImproves
<1>7. closed \in Session /\ closed.status = "COMPLETED" /\ closed.task = t
  <2>1. Written(registry.sessions[Current], session)
    BY <1>4, AttemptWrites
  <2>2. session \in Session /\ session.task = t /\ "COMPLETED" \in SessionStatus
    BY <1>4, <2>1 DEF Written, SessionStatus
  <2>3. QED
    BY <2>2, ClosedType
<1> HIDE DEF m, session, closed, reg, base, waiting, t
<1>8. Replaced(registry, reg, Current, closed)
  BY <1>4, <1>7, SessionReplaced DEF reg
<1>9. /\ RegistryOK(reg) /\ Len(reg.sessions) = Len(registry.sessions)
      /\ \A s \in 1 .. Len(reg.sessions) : reg.sessions[s].status \notin Unclosed
      /\ \A b : HeldOK(b, registry) => HeldOK(b, reg)
  BY <1>1, <1>7, <1>8, AttemptClosed DEF t
<1>10. registry' = reg
  BY <1>3, <1>9, NobodyStale DEF Unclosed
<1>11. Advances(board, m, text, t)
  BY <1>2, <1>4, <1>5, ModelCommitted DEF m
<1>12. BoardOK(m) /\ m.tasks = board.tasks /\ CurrentRevision(m) \in Nat
  BY <1>11, BoardTypes DEF Advances
<1>13. /\ StatusOf(m, waiting, {t}) /\ DecidedOK(m, decisions) /\ HeldOK(m, registry)
       /\ ImprovedOK(m)
  BY <1>4, <1>6, <1>11, CommitKeeps DEF Work
<1>14. "COMPLETED" \in TaskStatus /\ "COMPLETED" \in Settled /\ "ACCEPTED" \in DecidedAs["COMPLETED"]
       /\ "ACCEPTED" \in DecisionStatus
  BY DEF TaskStatus, Settled, DecidedAs, DecisionStatus
<1>15. Moved(m, board', t, "COMPLETED")
  BY <1>3, <1>4, <1>12, <1>14, TaskMoved
<1>16. base.rev \in Nat
  BY <1>4, BoardTypes DEF CurrentBase
<1>17. Decided(decisions, decisions', t, "ACCEPTED", CurrentRevision(m))
  BY <1>3, <1>4, <1>5, <1>12, <1>14, <1>16, DecisionAdded
<1>18. /\ BoardOK(board') /\ Len(board'.tasks) = Len(board.tasks)
       /\ CurrentRevision(board') = CurrentRevision(m)
  BY <1>12, <1>15, SameBase DEF Moved
<1>19. StatusOf(board', waiting, {})
  <2>1. StatusOf(board', waiting \ {t}, {t} \ {t})
    BY <1>4, <1>12, <1>13, <1>14, <1>15, MoveSettled
  <2>2. t \notin waiting
    <3>1. board.tasks[t].status = "ACTIVE"
      BY <1>4 DEF Work, StatusOf
    <3>2. QED
      BY <1>4, <3>1 DEF Work, StatusOf
  <2>3. waiting \ {t} = waiting /\ {t} \ {t} = {}
    BY <2>2
  <2>4. QED
    BY <2>1, <2>3
<1>20. DecidedOK(board', decisions')
  <2>1. m.tasks[t].status \notin Settled /\ t \in 1 .. Len(m.tasks)
    BY <1>4, <1>12, <1>13 DEF StatusOf, Settled
  <2>2. /\ decisions' \in Seq(Decision) /\ Len(decisions') = Len(decisions) + 1
        /\ \A d \in 1 .. Len(decisions) : decisions'[d] = decisions[d]
        /\ decisions'[Len(decisions) + 1].task = t
        /\ decisions'[Len(decisions) + 1].status \in DecidedAs["COMPLETED"]
    BY <1>14, <1>17 DEF Decided
  <2>3. BoardOK(m) /\ DecidedOK(m, decisions) /\ decisions \in Seq(Decision)
    BY <1>4, <1>12, <1>13
  <2>4. QED
    BY <1>14, <1>15, <2>1, <2>2, <2>3, SettledDecided, SMTT(30)
<1>21. ChainedOK(board', decisions')
  <2>1. TaskBase(board, t) = CurrentBase(board)
    BY <1>4 DEF base
  <2>2. DecidedOK(board, decisions) /\ ChainedOK(board, decisions)
    BY <1>4 DEF Work
  <2>3. /\ decisions' \in Seq(Decision) /\ Len(decisions') = Len(decisions) + 1
        /\ \A d \in 1 .. Len(decisions) : decisions'[d] = decisions[d]
        /\ decisions'[Len(decisions) + 1].status = "ACCEPTED"
        /\ decisions'[Len(decisions) + 1].task = t
        /\ decisions'[Len(decisions) + 1].committed = CurrentRevision(board')
    BY <1>17, <1>18 DEF Decided
  <2>4. BoardOK(board) /\ t \in 1 .. Len(board.tasks) /\ decisions \in Seq(Decision)
    BY <1>4
  <2>5. QED
    BY <1>11, <1>15, <2>1, <2>2, <2>3, <2>4, AcceptedChained, SMTT(30)
<1>22. ImprovedOK(board')
  BY <1>4, <1>12, <1>13, <1>15, MoveKeeps
<1>23. HeldOK(board', registry')
  <2>1. HeldOK(board', registry)
    BY <1>4, <1>12, <1>13, <1>15, SettledHeld
  <2>2. QED
    BY <1>9, <1>10, <2>1
<1>24. LoopTypeOK /\ GroupsOK(groups, Len(board.tasks)) /\ QueueOK(queue, Len(board.tasks)) /\ Places
  BY DEF LoopInv
<1>25. LoopTypeOK'
  BY <1>1, <1>3, <1>9, <1>10, <1>17, <1>18, <1>24 DEF LoopTypeOK, Phases, Decided
<1>26. GroupsOK(groups', Len(board'.tasks)) /\ QueueOK(queue', Len(board'.tasks))
  BY <1>1, <1>18, <1>24
<1>27. Places' /\ Useful' /\ Reported'
  BY <1>1, <1>3, <1>24 DEF Places, Useful, Reported
<1>28. Waiting(phase', groups', queue', next') = waiting /\ Working(phase', queue', next') = {}
  BY <1>1, <1>3 DEF Waiting, Working, InSession, waiting
<1>29. Based'
  <2>1. OnCurrent(board', {})
    BY DEF OnCurrent
  <2>2. QED
    BY <1>3, <1>28, <2>1 DEF Based
<1>30. Opens'
  BY <1>3, <1>9, <1>10 DEF Opens, InSession
<1>31. Counted'
  <2>1. Cardinality(Attempted(decisions')) = Cardinality(Attempted(decisions)) + 1
    BY <1>4, <1>17, AttemptsDecided DEF Decided
  <2>2. QED
    BY <1>3, <1>4, <1>9, <1>10, <2>1 DEF Counted, InSession
<1>32. QED
  BY <1>19, <1>20, <1>21, <1>22, <1>23, <1>25, <1>26, <1>27, <1>28, <1>29, <1>30, <1>31
  DEF LoopInv

-----------------------------------------------------------------------------
(* The invariant of the loop.                                              *)

\* The invariant holds before the first round.
LEMMA LoopInvInit ==
  ASSUME RepairInit
  PROVE  LoopInv
<1>1. /\ board = NewBoard(InitialText) /\ registry = EmptyRegistry
      /\ decisions = <<>> /\ phase = "analyse" /\ groups = <<>> /\ reports = <<>>
      /\ seen = 0 /\ queue = <<>> /\ next = 0 /\ attempts = 0
  BY DEF RepairInit
<1>2. InitialText \in Texts /\ NCodes \in Nat /\ NChains \in Nat
  BY RepairAssumption
<1>3. board = [revisions |-> <<[text |-> InitialText, task |-> 0]>>, records |-> <<>>,
               tasks |-> <<>>, protected |-> Blocks, rejected |-> 0, permitted |-> 0]
  BY <1>1 DEF NewBoard, Blocks
<1>4. BoardOK(board)
  <2>1. /\ board.revisions \in Seq(Revision) /\ board.revisions # <<>>
        /\ Len(board.revisions) = 1 /\ board.revisions[1].text = InitialText
    BY <1>2, <1>3 DEF Revision
  <2>2. board.records \in Seq(Entry) /\ board.tasks \in Seq(Task)
    BY <1>3
  <2>3. \A r \in 1 .. Len(board.revisions) : SameBlocks(board.revisions[r].text)
    BY <2>1 DEF SameBlocks
  <2>4. QED
    BY <1>3, <2>1, <2>2, <2>3 DEF BoardOK
<1>5. /\ Len(board.tasks) = 0 /\ CurrentRevision(board) = 0
      /\ \A t \in 1 .. Len(board.tasks) : FALSE
      /\ \A r \in 1 .. CurrentRevision(board) : FALSE
  BY <1>3 DEF CurrentRevision
<1>6. /\ RegistryOK(registry) /\ Len(registry.sessions) = 0
      /\ \A s \in 1 .. Len(registry.sessions) : FALSE
  BY <1>1 DEF RegistryOK, RegistryWith, EmptyRegistry
<1>7. /\ decisions \in Seq(Decision) /\ Len(decisions) = 0 /\ queue \in Seq(Candidates)
      /\ Len(queue) = 0 /\ groups \in Seq(Seq(Candidates)) /\ Len(groups) = 0
      /\ reports \in Seq(Report) /\ Len(reports) = 0
      /\ \A i \in 1 .. 0 : FALSE
  BY <1>1
<1>8. LoopTypeOK
  BY <1>1, <1>2, <1>4, <1>6, <1>7 DEF LoopTypeOK, Phases
<1>9. GroupsOK(groups, Len(board.tasks)) /\ QueueOK(queue, Len(board.tasks))
  BY <1>2, <1>7 DEF GroupsOK, QueueOK
<1>10. Places /\ Useful /\ Reported
  BY <1>1, <1>7 DEF Places, Useful, Reported
<1>11. StatusOf(board, Waiting(phase, groups, queue, next), Working(phase, queue, next)) /\ Based
  BY <1>5 DEF StatusOf, Based, OnCurrent
<1>12. DecidedOK(board, decisions) /\ ChainedOK(board, decisions) /\ ImprovedOK(board)
  BY <1>5, <1>7 DEF DecidedOK, ChainedOK, ImprovedOK
<1>13. HeldOK(board, registry) /\ Opens
  BY <1>1, <1>6 DEF HeldOK, Opens, InSession
<1>14. Counted
  <2>1. Attempted(decisions) = {}
    BY <1>7 DEF Attempted
  <2>2. Cardinality(Attempted(decisions)) = 0
    BY <2>1, FS_EmptySet
  <2>3. QED
    BY <1>1, <1>6, <2>2 DEF Counted, InSession
<1>15. QED
  BY <1>8, <1>9, <1>10, <1>11, <1>12, <1>13, <1>14 DEF LoopInv

\* Every action keeps it.
LEMMA LoopInvStep ==
  ASSUME LoopInv, [RepairNext]_vars
  PROVE  LoopInv'
<1>1. CASE UNCHANGED vars
  BY <1>1 DEF vars, LoopInv, LoopTypeOK, Places, Useful, Based, Opens, Counted, Reported
<1>2. CASE RepairNext
  BY <1>2, AnalyseChainStep, DispatchStep, EndAnalysisStep, RoundRobinStep, EndOrderStep,
     QueueDrainedStep, BudgetSpentStep, DeferStep, AllDeferredStep, StartAttemptStep,
     ContextFailsStep, ContextUnresolvedStep, ChatFailsStep, RepairRejectedStep,
     GateRaisesStep, SessionExpiresStep,
     RepairAcceptedStep, SupersedeStep, AllSupersededStep DEF RepairNext
<1>3. QED
  BY <1>1, <1>2

\* So it holds always.
LEMMA InvariantOfLoop == RepairSpec => []LoopInv
<1>1. RepairInit => LoopInv
  BY LoopInvInit
<1>2. LoopInv /\ [RepairNext]_vars => LoopInv'
  BY LoopInvStep
<1>3. QED
  BY <1>1, <1>2, PTL DEF RepairSpec

-----------------------------------------------------------------------------
\* At the end no task waits and none is worked at: all are settled, and their decisions
\* are the ones DecidedOK speaks of.
LEMMA LoopSettles ==
  ASSUME LoopInv
  PROVE  SettledWhenDone
<1>1. /\ LoopTypeOK /\ BoardOK(board) /\ RegistryOK(registry) /\ decisions \in Seq(Decision)
      /\ queue \in Seq(Candidates) /\ Places /\ Opens
      /\ StatusOf(board, Waiting(phase, groups, queue, next), Working(phase, queue, next))
      /\ DecidedOK(board, decisions)
  BY DEF LoopInv, LoopTypeOK
<1>2. DOMAIN registry.sessions = 1 .. Len(registry.sessions) /\ DOMAIN decisions = 1 .. Len(decisions)
      /\ DOMAIN board.tasks = 1 .. Len(board.tasks)
  BY <1>1, RegistryTypes, BoardTypes
<1>3. ASSUME phase = "done"
      PROVE  \A s \in DOMAIN registry.sessions : registry.sessions[s].status # "OPEN"
  BY <1>1, <1>2, <1>3 DEF Opens, InSession, Unclosed
<1>4. ASSUME phase = "done", NEW t \in DOMAIN board.tasks
      PROVE  LET about == {d \in DOMAIN decisions : decisions[d].task = t}
             IN  /\ board.tasks[t].status \in Settled
                 /\ Cardinality(about) = 1
                 /\ \A d \in about : decisions[d].status \in DecidedAs[board.tasks[t].status]
  <2> DEFINE about == {d \in DOMAIN decisions : decisions[d].task = t}
  <2>1. next = Len(queue)
    BY <1>1, <1>4 DEF Places
  <2>2. Waiting(phase, groups, queue, next) = {} /\ Working(phase, queue, next) = {}
    BY <1>1, <1>4, <2>1, NobodyWaits DEF Waiting, Working, InSession
  <2>3. board.tasks[t].status # "PENDING" /\ board.tasks[t].status # "ACTIVE"
    BY <1>1, <1>2, <2>2 DEF StatusOf
  <2>4. board.tasks[t].status \in TaskStatus
    <3>1. board.tasks[t] \in Task
      BY <1>1, <1>2, BoardTypes
    <3>2. QED
      BY <3>1 DEF Task
  <2>5. board.tasks[t].status \in Settled
    BY <2>3, <2>4 DEF TaskStatus, Settled
  <2>6. PICK d \in DOMAIN decisions : decisions[d].task = t
    BY <1>1, <1>2, <2>5 DEF DecidedOK
  <2>7. about = {d}
    BY <1>1, <1>2, <2>6 DEF DecidedOK
  <2>8. Cardinality(about) = 1
    BY <2>7, FS_Singleton
  <2>9. \A e \in about : decisions[e].status \in DecidedAs[board.tasks[t].status]
    BY <1>1, <1>2 DEF DecidedOK
  <2>10. QED
    BY <2>5, <2>8, <2>9
<1>5. QED
  BY <1>3, <1>4 DEF SettledWhenDone

\* When it was cut short, the ACTIVE task is the one in work, and the session that was
\* not closed is the last.
LEMMA LoopCutShort ==
  ASSUME LoopInv
  PROVE  OneLeftInProgress
<1> DEFINE held == {s \in DOMAIN registry.sessions :
                      registry.sessions[s].status \in {"OPEN", "EXPIRED"}}
<1>1. /\ BoardOK(board) /\ RegistryOK(registry) /\ Opens
      /\ StatusOf(board, Waiting(phase, groups, queue, next), Working(phase, queue, next))
  BY DEF LoopInv, LoopTypeOK
<1>2. DOMAIN registry.sessions = 1 .. Len(registry.sessions) /\ Len(registry.sessions) \in Nat
      /\ DOMAIN board.tasks = 1 .. Len(board.tasks)
  BY <1>1, RegistryTypes, BoardTypes
<1>3. SUFFICES ASSUME phase \in CutShort
               PROVE  /\ \A t \in DOMAIN board.tasks :
                           board.tasks[t].status = "ACTIVE"
                             <=> t = Candidate.task /\ phase # "aborted"
                      /\ \A s \in held : registry.sessions[s].task = Candidate.task
                      /\ held = IF phase = "unprepared" THEN {} ELSE {Current}
  BY DEF OneLeftInProgress
<1>4. Working(phase, queue, next) = IF phase = "aborted" THEN {} ELSE {Candidate.task}
  BY <1>3 DEF Working, InSession, CutShort, Candidate
<1>5. \A t \in DOMAIN board.tasks :
        board.tasks[t].status = "ACTIVE" <=> t = Candidate.task /\ phase # "aborted"
  BY <1>1, <1>2, <1>4 DEF StatusOf
<1>6. CASE phase = "unprepared"
  <2>1. held = {}
    BY <1>1, <1>2, <1>6 DEF Opens, InSession, Unclosed
  <2>2. QED
    BY <1>5, <1>6, <2>1
<1>7. CASE phase # "unprepared"
  <2>1. /\ Current \in 1 .. Len(registry.sessions)
        /\ registry.sessions[Current].status \in {"OPEN", "EXPIRED"}
        /\ registry.sessions[Current].task = Candidate.task
    BY <1>1, <1>2, <1>3, <1>7
    DEF Opens, AtWork, LastIs, InSession, CutShort, Current, Candidate
  <2>2. \A s \in held : s = Current
    BY <1>1, <1>2 DEF Opens, Unclosed, Current
  <2>3. held = {Current}
    BY <1>2, <2>1, <2>2
  <2>4. QED
    BY <1>5, <1>7, <2>1, <2>3
<1>8. QED
  BY <1>6, <1>7

\* A task with a session was taken up, and so was not BLOCKED unattempted.
LEMMA LoopAccounts ==
  ASSUME LoopInv
  PROVE  AttemptsAccounted
<1>1. /\ LoopTypeOK /\ BoardOK(board) /\ RegistryOK(registry) /\ decisions \in Seq(Decision)
      /\ Counted /\ DecidedOK(board, decisions) /\ HeldOK(board, registry) /\ attempts \in Nat
  BY DEF LoopInv, LoopTypeOK
<1>2. DOMAIN registry.sessions = 1 .. Len(registry.sessions) /\ DOMAIN decisions = 1 .. Len(decisions)
      /\ Len(registry.sessions) \in Nat
  BY <1>1, RegistryTypes
<1>3. ASSUME NEW s \in DOMAIN registry.sessions, NEW d \in DOMAIN decisions,
             registry.sessions[s].task = decisions[d].task
      PROVE  decisions[d].status \in {"ACCEPTED", "REJECTED"}
  <2> DEFINE status == board.tasks[decisions[d].task].status
  <2>1. status \in Settled /\ decisions[d].status \in DecidedAs[status]
    BY <1>1, <1>2 DEF DecidedOK
  <2>2. status \in {"ACTIVE", "REJECTED", "COMPLETED"}
    BY <1>1, <1>2, <1>3 DEF HeldOK
  <2>3. status \in {"REJECTED", "COMPLETED"}
    BY <2>1, <2>2 DEF Settled
  <2>4. DecidedAs["REJECTED"] = {"REJECTED"} /\ DecidedAs["COMPLETED"] = {"ACCEPTED"}
    BY DEF DecidedAs
  <2>5. QED
    BY <2>1, <2>3, <2>4
<1>4. ASSUME phase \notin {"repairing", "unjudged", "aborted"}
      PROVE  Len(registry.sessions) <= attempts
  BY <1>1, <1>2, <1>4 DEF Counted, InSession
<1>5. ASSUME phase \notin {"repairing", "unjudged"}
      PROVE  Cardinality({d \in DOMAIN decisions : decisions[d].status \in {"ACCEPTED", "REJECTED"}})
               = Len(registry.sessions)
  <2>1. Attempted(decisions) = {d \in DOMAIN decisions : decisions[d].status \in {"ACCEPTED", "REJECTED"}}
    BY <1>2 DEF Attempted
  <2>2. QED
    BY <1>1, <1>2, <1>5, <2>1 DEF Counted, InSession
<1>6. QED
  BY <1>3, <1>4, <1>5 DEF AttemptsAccounted

\* Whatever the model replies, all work ends in exactly one disposition, but for one
\* attempt that an exception may leave in progress, and every attempt of the run's
\* budget is one of them.
THEOREM AttemptsAreAccounted == RepairSpec => []WorkAccounted
<1>1. LoopInv => WorkAccounted
  BY LoopSettles, LoopCutShort, LoopAccounts DEF WorkAccounted
<1>2. QED
  BY <1>1, InvariantOfLoop, PTL

-----------------------------------------------------------------------------
\* What waits is on the current model.
LEMMA LoopWaitsCurrent ==
  ASSUME LoopInv
  PROVE  WaitingTasksCurrent
<1>1. /\ BoardOK(board) /\ Based
      /\ StatusOf(board, Waiting(phase, groups, queue, next), Working(phase, queue, next))
  BY DEF LoopInv, LoopTypeOK
<1>2. DOMAIN board.tasks = 1 .. Len(board.tasks)
  BY <1>1, BoardTypes
<1>3. QED
  BY <1>1, <1>2 DEF WaitingTasksCurrent, StatusOf, Based, OnCurrent

\* Each revision has its one accepted decision, made on the revision before.
LEMMA LoopChains ==
  ASSUME LoopInv
  PROVE  AcceptedRepairsChain
<1>1. BoardOK(board) /\ decisions \in Seq(Decision) /\ ChainedOK(board, decisions)
  BY DEF LoopInv, LoopTypeOK
<1>2. DOMAIN decisions = 1 .. Len(decisions)
  BY <1>1
<1>3. ASSUME NEW r \in 1 .. CurrentRevision(board)
      PROVE  LET accepted == {d \in DOMAIN decisions : /\ decisions[d].status = "ACCEPTED"
                                                       /\ decisions[d].committed = r}
             IN  /\ Cardinality(accepted) = 1
                 /\ \A d \in accepted :
                      /\ decisions[d].task = ModelAt(board, r).task
                      /\ board.tasks[decisions[d].task].rev = r - 1
                      /\ board.tasks[decisions[d].task].digest = ModelAt(board, r - 1).text
  <2> DEFINE accepted == {d \in DOMAIN decisions : /\ decisions[d].status = "ACCEPTED"
                                                   /\ decisions[d].committed = r}
  <2>1. PICK d \in 1 .. Len(decisions) : MadeBy(board, decisions, r, d)
    BY <1>1 DEF ChainedOK
  <2>2. accepted = {d}
    BY <1>2, <2>1 DEF MadeBy
  <2>3. Cardinality(accepted) = 1
    BY <2>2, FS_Singleton
  <2>4. QED
    BY <2>1, <2>2, <2>3 DEF MadeBy
<1>4. QED
  BY <1>3 DEF AcceptedRepairsChain

\* The reports of a finished run are about its last model.
LEMMA LoopReports ==
  ASSUME LoopInv
  PROVE  ReportsDescribeTerminalModel
<1>1. ASSUME phase = "done"
      PROVE  Len(groups) = NChains /\ Len(reports) = Len(groups)
  BY <1>1 DEF LoopInv, Places, Reported
<1>2. QED
  BY <1>1 DEF LoopInv, Reported, ReportsDescribeTerminalModel, Chains

\* Every repair works on the model of its time: no commit is refused, waiting work is on
\* the current revision, accepted repairs follow one another without a gap, each improves
\* its chain, and the reports at the end are about the last one.
THEOREM RepairsAreCurrent == RepairSpec => []RepairsFollowModel
<1>1. ASSUME LoopInv
      PROVE  RepairsFollowModel
  <2>1. board.rejected = 0
    BY <1>1, BoardTypes DEF LoopInv, LoopTypeOK
  <2>2. RepairedChainImproves
    BY <1>1 DEF LoopInv, ImprovedOK, Better, RepairedChainImproves
  <2>3. QED
    BY <1>1, <2>1, <2>2, LoopWaitsCurrent, LoopChains, LoopReports DEF RepairsFollowModel
<1>2. QED
  BY <1>1, InvariantOfLoop, PTL
=============================================================================
