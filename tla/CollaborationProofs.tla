------------------------ MODULE CollaborationProofs ------------------------
(***************************************************************************)
(* Proofs about Collaboration, for any texts, requirements, budgets, token *)
(* counts and bounds.  Board methods are described by what a later step    *)
(* reads: Follows says that no revision was added and which topics the new *)
(* records have.  Then every handoff is followed from HandedOver to Settle *)
(* (WorkInv), every commit to its author (AuthorsInv) and every fact to    *)
(* the revision it is about (FactsInv).                                    *)
(***************************************************************************)
EXTENDS Collaboration, FiniteSetTheorems, TLAPS

Revision == [text : Texts, task : Nat]
Topics == {"requirements.authoritative", "task.created", "task.transition",
           "model.committed", "model.terminal.ready", "agent.ag_planning.result",
           "agent.design.result", "agent.design.rejected",
           "agent.verification.result", "analysis.ag_trace"}
Entry == [type : {"SOURCE", "RESULT", "CONTROL", "MODEL"}, topic : Topics,
          reqs : {NoReqs, Requirements}, bound : {TRUE},
          rev : Nat, task : Nat, status : TaskStatus \cup {"NONE"}]
Note == [type : {"SOURCE", "RESULT", "CONTROL"}, topic : Topics,
         reqs : {NoReqs, Requirements}, bound : {TRUE}]
Task == [status : TaskStatus, rev : Nat, digest : Texts]

\* A board as the pipeline leaves it, with some protected blocks.
BoardWith(protected) ==
  [revisions : Seq(Revision), records : Seq(Entry), tasks : Seq(Task),
   protected : {protected}, rejected : {0}, permitted : {0}]

BoardOK(b) ==
  /\ b \in BoardWith(b.protected) /\ b.revisions # <<>>
  /\ \A k \in 1 .. Len(b.records) : b.records[k].rev <= CurrentRevision(b)

\* A set with one topic, opaque to the provers where it is only passed on.
Only(topic) == {topic}

\* From b to c no revision is added, no record lost, and every new record is about
\* the current revision and has one of the topics.
Follows(b, c, topics) ==
  /\ BoardOK(c) /\ c.revisions = b.revisions
  /\ Len(b.records) <= Len(c.records)
  /\ \A k \in 1 .. Len(b.records) : c.records[k] = b.records[k]
  /\ \A k \in 1 .. Len(c.records) :
       k \notin 1 .. Len(b.records) =>
         c.records[k].topic \in topics /\ c.records[k].rev = CurrentRevision(b)

-----------------------------------------------------------------------------
(* The board                                                               *)

\* The record that Log appends.
EntryOf(note, rev, task, status) ==
  [type |-> note.type, topic |-> note.topic, reqs |-> note.reqs,
   bound |-> note.bound, rev |-> rev, task |-> task, status |-> status]

LEMMA AppendItem ==
  ASSUME NEW S, NEW s \in Seq(S), NEW e \in S
  PROVE  /\ Append(s, e) \in Seq(S)
         /\ Len(Append(s, e)) = Len(s) + 1 /\ Len(s) \in Nat
         /\ DOMAIN s = 1 .. Len(s) /\ DOMAIN Append(s, e) = 1 .. Len(s) + 1
         /\ \A k \in 1 .. Len(s) : Append(s, e)[k] = s[k]
         /\ Append(s, e)[Len(s) + 1] = e
OBVIOUS

LEMMA BoardTypes ==
  ASSUME NEW b, BoardOK(b)
  PROVE  /\ CurrentRevision(b) \in Nat /\ CurrentText(b) \in Texts
         /\ b.revisions \in Seq(Revision) /\ DOMAIN b.revisions = 1 .. Len(b.revisions)
         /\ b.records \in Seq(Entry) /\ DOMAIN b.records = 1 .. Len(b.records)
         /\ b.tasks \in Seq(Task) /\ DOMAIN b.tasks = 1 .. Len(b.tasks)
         /\ Len(b.revisions) \in Nat /\ Len(b.records) \in Nat /\ Len(b.tasks) \in Nat
<1>1. /\ b.revisions \in Seq(Revision) /\ b.records \in Seq(Entry) /\ b.tasks \in Seq(Task)
      /\ b.revisions # <<>>
  BY DEF BoardOK, BoardWith
<1>2. Len(b.revisions) \in Nat \ {0}
  BY <1>1
<1>3. CurrentRevision(b) \in Nat /\ CurrentRevision(b) + 1 \in 1 .. Len(b.revisions)
  BY <1>2 DEF CurrentRevision
<1>4. b.revisions[CurrentRevision(b) + 1] \in Revision
  BY <1>1, <1>3
<1>5. CurrentText(b) \in Texts
  BY <1>4 DEF CurrentText, ModelAt, Revision
<1>6. QED
  BY <1>1, <1>2, <1>3, <1>5

\* The board with these tasks and one more record.
Logged(b, tasks, e) == [b EXCEPT !.tasks = tasks, !.records = Append(b.records, e)]

LEMMA LogFollows ==
  ASSUME NEW b, BoardOK(b), NEW tasks \in Seq(Task), NEW e \in Entry,
         e.rev = CurrentRevision(b)
  PROVE  LET c == Logged(b, tasks, e)
         IN  /\ Follows(b, c, Only(e.topic)) /\ c.tasks = tasks
             /\ c.records[Len(b.records) + 1] = e /\ Len(c.records) = Len(b.records) + 1
<1> DEFINE c == Logged(b, tasks, e)
<1>1. b.records \in Seq(Entry) /\ CurrentRevision(b) \in Nat /\ Len(b.records) \in Nat
  BY BoardTypes
<1>2. Append(b.records, e) \in Seq(Entry)
  BY <1>1
<1>3. /\ c.revisions = b.revisions /\ c.tasks = tasks /\ c.protected = b.protected
      /\ c.records = Append(b.records, e) /\ c \in BoardWith(c.protected)
  BY <1>2 DEF BoardOK, BoardWith, Logged
<1> HIDE DEF c
<1>4. /\ Len(c.records) = Len(b.records) + 1 /\ c.records[Len(b.records) + 1] = e
      /\ \A k \in 1 .. Len(b.records) : c.records[k] = b.records[k]
  BY <1>1, <1>3, AppendItem
<1>5. CurrentRevision(c) = CurrentRevision(b)
  BY <1>3 DEF CurrentRevision
<1>6. \A k \in 1 .. Len(c.records) : k \in 1 .. Len(b.records) \/ k = Len(b.records) + 1
  BY <1>1, <1>4
<1>7. \A k \in 1 .. Len(c.records) : c.records[k].rev <= CurrentRevision(c)
  <2>1. \A k \in 1 .. Len(b.records) : b.records[k].rev <= CurrentRevision(b)
    BY DEF BoardOK
  <2>2. CurrentRevision(b) <= CurrentRevision(b)
    BY <1>1
  <2>3. QED
    BY <1>4, <1>5, <1>6, <2>1, <2>2
<1>8. BoardOK(c)
  BY <1>3, <1>7 DEF BoardOK
<1>9. Follows(b, c, Only(e.topic))
  BY <1>1, <1>3, <1>4, <1>6, <1>8 DEF Follows, Only
<1>10. QED
  BY <1>3, <1>4, <1>9 DEF c

\* The board with these tasks.
WithTasks(b, tasks) == [b EXCEPT !.tasks = tasks]

LEMMA NoteFollows ==
  ASSUME NEW b, BoardOK(b), NEW tasks \in Seq(Task), NEW note \in Note,
         NEW task \in Nat, NEW status \in TaskStatus \cup {"NONE"}
  PROVE  LET c == Log(WithTasks(b, tasks), note, CurrentRevision(b), task, status)
         IN  /\ Follows(b, c, Only(note.topic)) /\ c.tasks = tasks
             /\ c.records[Len(b.records) + 1].topic = note.topic
             /\ Len(c.records) = Len(b.records) + 1
<1> DEFINE e == EntryOf(note, CurrentRevision(b), task, status)
           c == Log(WithTasks(b, tasks), note, CurrentRevision(b), task, status)
<1>1. e \in Entry /\ e.rev = CurrentRevision(b) /\ e.topic = note.topic
  BY BoardTypes DEF Entry, EntryOf, Note
<1>2. c = [WithTasks(b, tasks) EXCEPT !.records = Append(@, e)]
  BY DEF Log, EntryOf
<1> HIDE DEF e, c
<1>3. c = Logged(b, tasks, e)
  BY <1>2 DEF BoardOK, BoardWith, Logged, WithTasks
<1>4. /\ Follows(b, c, Only(e.topic)) /\ c.tasks = tasks
      /\ c.records[Len(b.records) + 1] = e /\ Len(c.records) = Len(b.records) + 1
  BY <1>1, <1>3, LogFollows
<1>5. QED
  BY <1>1, <1>4 DEF c

LEMMA SameTasks ==
  ASSUME NEW b, BoardOK(b)
  PROVE  WithTasks(b, b.tasks) = b
BY DEF BoardOK, BoardWith, WithTasks

LEMMA FactPublished ==
  ASSUME NEW b, BoardOK(b), NEW topic \in Topics
  PROVE  LET c == PublishFact(b, topic)
         IN  Follows(b, c, Only(topic)) /\ c.tasks = b.tasks /\ HasFact(c, topic)
<1> DEFINE c == PublishFact(b, topic)
           note == BoardNote("RESULT", topic)
<1>1. c = Log(b, note, CurrentRevision(b), 0, "NONE")
  BY DEF PublishFact, Published
<1>2. note \in Note /\ note.topic = topic
  BY DEF BoardNote, Note
<1> HIDE DEF note, c
<1>3. b.tasks \in Seq(Task) /\ DOMAIN b.records = 1 .. Len(b.records) /\ Len(b.records) \in Nat
  BY BoardTypes
<1>4. /\ Follows(b, c, Only(topic)) /\ c.tasks = b.tasks
      /\ c.records[Len(b.records) + 1].topic = topic
      /\ Len(c.records) = Len(b.records) + 1
  BY <1>1, <1>2, <1>3, SameTasks, NoteFollows
<1>5. /\ Len(b.records) + 1 \in 1 .. Len(c.records)
      /\ Len(b.records) + 1 \notin 1 .. Len(b.records)
  BY <1>3, <1>4
<1>6. c.records[Len(b.records) + 1].rev = CurrentRevision(c)
  BY <1>4, <1>5 DEF Follows, CurrentRevision
<1>7. Len(b.records) + 1 \in DOMAIN c.records
  BY <1>4, <1>5, BoardTypes DEF Follows
<1>8. QED
  BY <1>4, <1>6, <1>7 DEF HasFact, c

LEMMA SourcePublished ==
  ASSUME NEW b, BoardOK(b)
  PROVE  LET c == PublishSource(b)
         IN  Follows(b, c, Only("requirements.authoritative")) /\ c.tasks = b.tasks
<1> DEFINE c == PublishSource(b)
           note == [type |-> "SOURCE", topic |-> "requirements.authoritative",
                    reqs |-> Requirements, bound |-> TRUE]
<1>1. c = Log(b, note, CurrentRevision(b), 0, "NONE")
  BY DEF PublishSource, Published
<1>2. note \in Note /\ note.topic = "requirements.authoritative"
  BY DEF Note, Topics
<1> HIDE DEF note, c
<1>3. b.tasks \in Seq(Task)
  BY BoardTypes
<1>4. QED
  BY <1>1, <1>2, <1>3, SameTasks, NoteFollows DEF c

LEMMA TaskCreated ==
  ASSUME NEW b, BoardOK(b)
  PROVE  LET c == CreatedTask(b)
             n == Len(b.tasks)
         IN  /\ Follows(b, c, Only("task.created"))
             /\ Len(c.tasks) = n + 1 /\ DOMAIN c.tasks = 1 .. n + 1
             /\ c.tasks[n + 1] = [status |-> "PENDING", rev |-> CurrentRevision(b),
                                  digest |-> CurrentText(b)]
             /\ \A t \in 1 .. n : c.tasks[t] = b.tasks[t]
<1> DEFINE task == [status |-> "PENDING", rev |-> CurrentRevision(b),
                    digest |-> CurrentText(b)]
           tasks == Append(b.tasks, task)
           note == BoardNote("CONTROL", "task.created")
           c == CreatedTask(b)
           n == Len(b.tasks)
<1>1. task \in Task
  BY BoardTypes DEF Task, TaskStatus
<1>2. note \in Note /\ note.topic = "task.created"
  BY DEF BoardNote, Note, Topics
<1>3. c = Log([b EXCEPT !.tasks = Append(@, task)], note, CurrentRevision(b), n + 1, "PENDING")
  BY DEF CreatedTask
<1> HIDE DEF task, note, c
<1>4. [b EXCEPT !.tasks = Append(@, task)] = WithTasks(b, tasks)
  BY DEF WithTasks, BoardOK, BoardWith
<1>5. b.tasks \in Seq(Task) /\ n \in Nat
  BY BoardTypes
<1>6. /\ tasks \in Seq(Task) /\ Len(tasks) = n + 1 /\ DOMAIN tasks = 1 .. n + 1
      /\ tasks[n + 1] = task /\ \A t \in 1 .. n : tasks[t] = b.tasks[t]
  BY <1>1, <1>5, AppendItem
<1>7. c = Log(WithTasks(b, tasks), note, CurrentRevision(b), n + 1, "PENDING")
  BY <1>3, <1>4
<1> HIDE DEF tasks, n
<1>8. n + 1 \in Nat /\ "PENDING" \in TaskStatus
  BY <1>5 DEF TaskStatus
<1>9. Follows(b, c, Only("task.created")) /\ c.tasks = tasks
  BY <1>2, <1>6, <1>7, <1>8, NoteFollows
<1>10. QED
  BY <1>6, <1>9 DEF c, n, task

LEMMA TaskMoved ==
  ASSUME NEW b, BoardOK(b), NEW t \in 1 .. Len(b.tasks), NEW status \in TaskStatus
  PROVE  LET c == MovedTask(b, t, status)
         IN  /\ Follows(b, c, Only("task.transition"))
             /\ Len(c.tasks) = Len(b.tasks)
             /\ c.tasks[t].status = status /\ c.tasks[t].rev = b.tasks[t].rev
             /\ c.tasks[t].digest = b.tasks[t].digest
             /\ \A u \in 1 .. Len(b.tasks) : u # t => c.tasks[u] = b.tasks[u]
<1> DEFINE task == [b.tasks[t] EXCEPT !.status = status]
           tasks == [b.tasks EXCEPT ![t] = task]
           note == BoardNote("CONTROL", "task.transition")
           c == MovedTask(b, t, status)
<1>1. note \in Note /\ note.topic = "task.transition"
  BY DEF BoardNote, Note, Topics
<1>2. c = Log([b EXCEPT !.tasks[t].status = status], note, CurrentRevision(b), t, status)
  BY DEF MovedTask
<1> HIDE DEF note, c
<1>3. [b EXCEPT !.tasks[t].status = status] = WithTasks(b, tasks)
  BY DEF WithTasks, BoardOK, BoardWith
<1>4. b.tasks \in Seq(Task) /\ t \in Nat /\ Len(b.tasks) \in Nat
  BY BoardTypes
<1>5. b.tasks[t] \in Task
  BY <1>4
<1>6. /\ task \in Task /\ task.status = status /\ task.rev = b.tasks[t].rev
      /\ task.digest = b.tasks[t].digest
  BY <1>5 DEF Task
<1> HIDE DEF task
<1>7. /\ tasks \in Seq(Task) /\ Len(tasks) = Len(b.tasks) /\ tasks[t] = task
      /\ \A u \in 1 .. Len(b.tasks) : u # t => tasks[u] = b.tasks[u]
  BY <1>4, <1>6
<1>8. c = Log(WithTasks(b, tasks), note, CurrentRevision(b), t, status)
  BY <1>2, <1>3
<1> HIDE DEF tasks
<1>9. Follows(b, c, Only("task.transition")) /\ c.tasks = tasks
  BY <1>1, <1>4, <1>7, <1>8, NoteFollows
<1>10. QED
  BY <1>6, <1>7, <1>9 DEF c

-----------------------------------------------------------------------------
(* What a later step reads of a board                                      *)

LEMMA FollowsSelf ==
  ASSUME NEW b, BoardOK(b), NEW topics
  PROVE  Follows(b, b, topics)
BY BoardTypes DEF Follows

LEMMA FollowsOn ==
  ASSUME NEW b, BoardOK(b), NEW c, NEW d, NEW S, NEW T, Follows(b, c, S), Follows(c, d, T)
  PROVE  Follows(b, d, S \cup T)
<1>1. /\ Len(b.records) \in Nat /\ Len(c.records) \in Nat /\ Len(d.records) \in Nat
  BY BoardTypes DEF Follows
<1>2. CurrentRevision(c) = CurrentRevision(b) /\ d.revisions = b.revisions /\ BoardOK(d)
  BY DEF Follows, CurrentRevision
<1>3. Len(b.records) <= Len(c.records) /\ Len(c.records) <= Len(d.records)
  BY DEF Follows
<1>4. \A k \in 1 .. Len(b.records) : k \in 1 .. Len(c.records)
  BY <1>1, <1>3
<1>5. \A k \in 1 .. Len(b.records) : d.records[k] = b.records[k]
  BY <1>4 DEF Follows
<1>6. ASSUME NEW k \in 1 .. Len(d.records), k \notin 1 .. Len(b.records)
      PROVE  d.records[k].topic \in S \cup T /\ d.records[k].rev = CurrentRevision(b)
  <2>1. CASE k \in 1 .. Len(c.records)
    <3>1. d.records[k] = c.records[k]
      BY <2>1 DEF Follows
    <3>2. c.records[k].topic \in S /\ c.records[k].rev = CurrentRevision(b)
      BY <1>6, <2>1 DEF Follows
    <3>3. QED
      BY <3>1, <3>2
  <2>2. CASE k \notin 1 .. Len(c.records)
    <3>1. d.records[k].topic \in T /\ d.records[k].rev = CurrentRevision(c)
      BY <1>6, <2>2 DEF Follows
    <3>2. QED
      BY <1>2, <3>1
  <2>3. QED
    BY <2>1, <2>2
<1>7. Len(b.records) <= Len(d.records)
  BY <1>1, <1>3
<1>8. QED
  BY <1>2, <1>5, <1>6, <1>7 DEF Follows

\* The model stays, facts are only added, and only about the topics.
LEMMA FollowsFacts ==
  ASSUME NEW b, BoardOK(b), NEW c, NEW S, Follows(b, c, S)
  PROVE  /\ BoardOK(c) /\ c.revisions = b.revisions
         /\ CurrentRevision(c) = CurrentRevision(b) /\ CurrentText(c) = CurrentText(b)
         /\ CurrentBase(c) = CurrentBase(b)
         /\ \A topic : HasFact(b, topic) => HasFact(c, topic)
         /\ \A topic : HasFact(c, topic) => HasFact(b, topic) \/ topic \in S
<1>1. /\ BoardOK(c) /\ c.revisions = b.revisions
      /\ CurrentRevision(c) = CurrentRevision(b) /\ CurrentText(c) = CurrentText(b)
      /\ CurrentBase(c) = CurrentBase(b)
  BY DEF Follows, CurrentRevision, CurrentText, CurrentBase, ModelAt
<1>2. /\ DOMAIN b.records = 1 .. Len(b.records) /\ DOMAIN c.records = 1 .. Len(c.records)
      /\ Len(b.records) \in Nat /\ Len(c.records) \in Nat
  BY <1>1, BoardTypes
<1>3. ASSUME NEW topic, HasFact(b, topic) PROVE HasFact(c, topic)
  <2>1. PICK k \in 1 .. Len(b.records) : /\ b.records[k].topic = topic
                                         /\ b.records[k].rev = CurrentRevision(b)
    BY <1>2, <1>3 DEF HasFact
  <2>2. k \in 1 .. Len(c.records) /\ c.records[k] = b.records[k]
    BY <1>2 DEF Follows
  <2>3. QED
    BY <1>1, <1>2, <2>1, <2>2 DEF HasFact
<1>4. ASSUME NEW topic, HasFact(c, topic), topic \notin S PROVE HasFact(b, topic)
  <2>1. PICK k \in 1 .. Len(c.records) : /\ c.records[k].topic = topic
                                         /\ c.records[k].rev = CurrentRevision(c)
    BY <1>2, <1>4 DEF HasFact
  <2>2. k \in 1 .. Len(b.records)
    BY <1>4, <2>1 DEF Follows
  <2>3. c.records[k] = b.records[k]
    BY <2>2 DEF Follows
  <2>4. QED
    BY <1>1, <1>2, <2>1, <2>2, <2>3 DEF HasFact
<1>5. QED
  BY <1>1, <1>3, <1>4

LEMMA ReadyEnsured ==
  ASSUME NEW b, BoardOK(b)
  PROVE  LET c == EnsureReady(b)
         IN  /\ Follows(b, c, Only("model.terminal.ready")) /\ c.tasks = b.tasks
             /\ HasFact(c, "model.terminal.ready")
<1>1. "model.terminal.ready" \in Topics
  BY DEF Topics
<1>2. CASE HasFact(b, "model.terminal.ready")
  BY <1>2, FollowsSelf DEF EnsureReady
<1>3. CASE ~HasFact(b, "model.terminal.ready")
  BY <1>1, <1>3, FactPublished DEF EnsureReady
<1>4. QED
  BY <1>2, <1>3

\* A revision was added and no fact but its own is about it.
Advances(b, c, text, task) ==
  /\ BoardOK(c) /\ c.tasks = b.tasks
  /\ c.revisions = Append(b.revisions, [text |-> text, task |-> task])
  /\ CurrentRevision(c) = CurrentRevision(b) + 1 /\ CurrentText(c) = text
  /\ \A topic : HasFact(c, topic) => topic = "model.committed"

LEMMA ModelCommitted ==
  ASSUME NEW b, BoardOK(b), NEW text \in Texts, NEW task \in Nat
  PROVE  Advances(b, CommittedModel(b, text, task), text, task)
<1> DEFINE r == [text |-> text, task |-> task]
           p == Protect(b.protected, text)
           note == BoardNote("MODEL", "model.committed")
           rev == CurrentRevision(b) + 1
           e == EntryOf(note, rev, task, "NONE")
           c == CommittedModel(b, text, task)
<1>1. CurrentRevision(b) \in Nat /\ rev \in Nat /\ Len(b.records) \in Nat
  BY BoardTypes
<1>2. /\ b.revisions \in Seq(Revision) /\ b.records \in Seq(Entry)
      /\ DOMAIN b.records = 1 .. Len(b.records)
  BY BoardTypes
<1>3. r \in Revision /\ r.text = text
  BY DEF Revision
<1>4. e \in Entry /\ e.topic = "model.committed" /\ e.rev = rev
  BY <1>1 DEF Entry, EntryOf, BoardNote, Topics
<1>5. c = [b EXCEPT !.revisions = Append(@, r), !.protected = Protect(@, text),
                    !.records = Append(@, e)]
  BY DEF CommittedModel, Log, EntryOf, BoardNote, BoardOK, BoardWith
<1> HIDE DEF r, p, e, note
<1>6. c = [b EXCEPT !.revisions = Append(b.revisions, r), !.protected = p,
                    !.records = Append(b.records, e)]
  BY <1>5 DEF BoardOK, BoardWith, p
<1> HIDE DEF c
<1>7. /\ Append(b.revisions, r) \in Seq(Revision) /\ Append(b.records, e) \in Seq(Entry)
      /\ Len(Append(b.revisions, r)) = Len(b.revisions) + 1
      /\ Append(b.revisions, r)[Len(b.revisions) + 1] = r
      /\ Len(Append(b.records, e)) = Len(b.records) + 1
      /\ Append(b.records, e)[Len(b.records) + 1] = e
      /\ \A k \in 1 .. Len(b.records) : Append(b.records, e)[k] = b.records[k]
  BY <1>2, <1>3, <1>4, AppendItem
<1>8. /\ c \in BoardWith(c.protected) /\ c.tasks = b.tasks
      /\ c.revisions = Append(b.revisions, r) /\ c.records = Append(b.records, e)
  BY <1>6, <1>7 DEF BoardOK, BoardWith
<1>9. /\ CurrentRevision(c) = rev /\ CurrentRevision(c) + 1 = Len(b.revisions) + 1
      /\ c.revisions # <<>>
  BY <1>1, <1>2, <1>7, <1>8 DEF CurrentRevision
<1>10. CurrentText(c) = text
  BY <1>3, <1>7, <1>8, <1>9 DEF CurrentText, ModelAt
<1>11. \A k \in 1 .. Len(c.records) : k \in 1 .. Len(b.records) \/ k = Len(b.records) + 1
  BY <1>1, <1>7, <1>8
<1>12. ASSUME NEW k \in 1 .. Len(b.records)
       PROVE  c.records[k].rev \in Nat /\ c.records[k].rev < rev
  <2>1. b.records[k] \in Entry
    BY <1>2
  <2>2. b.records[k].rev <= CurrentRevision(b)
    BY DEF BoardOK
  <2>3. c.records[k].rev \in Nat /\ c.records[k].rev <= CurrentRevision(b)
    BY <1>7, <1>8, <2>1, <2>2 DEF Entry
  <2>4. QED
    BY <1>1, <2>3
<1>13. c.records[Len(b.records) + 1] = e
  BY <1>7, <1>8
<1> HIDE DEF rev
<1>14. rev <= rev
  BY <1>1
<1>15. \A k \in 1 .. Len(c.records) : c.records[k].rev <= rev
  <2>1. \A k \in 1 .. Len(b.records) : c.records[k].rev <= rev
    BY <1>1, <1>12
  <2>2. QED
    BY <1>4, <1>11, <1>13, <1>14, <2>1
<1>16. BoardOK(c)
  BY <1>8, <1>9, <1>15 DEF BoardOK
<1>17. ASSUME NEW topic, HasFact(c, topic) PROVE topic = "model.committed"
  <2>1. PICK k \in 1 .. Len(c.records) : c.records[k].topic = topic /\ c.records[k].rev = rev
    BY <1>9, <1>16, <1>17, BoardTypes DEF HasFact
  <2>2. k \notin 1 .. Len(b.records)
    BY <1>1, <1>12, <2>1
  <2>3. QED
    BY <1>4, <1>11, <1>13, <2>1, <2>2
<1>18. QED
  BY <1>8, <1>9, <1>10, <1>16, <1>17 DEF Advances, c, r, rev

\* A commit on the current revision is never refused as stale.
LEMMA CommitOutcome ==
  ASSUME NEW b, BoardOK(b), NEW text \in Texts, NEW task \in Nat
  PROVE  LET c == Commit(b, text, CurrentRevision(b), CurrentText(b), task)
         IN  c = b \/ Advances(b, c, text, task)
BY ModelCommitted DEF Commit, StaleBase

-----------------------------------------------------------------------------
(* Sessions                                                                *)

Roles == {"AGPlanningAgent", "DesignAgent", "VerificationAgent"}
Message == [role : MessageRoles, tokens : Nat]
Session == [task : Nat, role : Roles, base : [rev : Nat, digest : Texts],
            budget : {SessionBudget}, status : SessionStatus,
            messages : Seq(Message), from : {0}]

RegistryWith(roles) == [sessions : Seq(Session), roles : {roles}]
RegistryOK(reg) == reg \in RegistryWith(reg.roles)

LEMMA RegistryTypes ==
  ASSUME NEW reg, RegistryOK(reg)
  PROVE  /\ reg.sessions \in Seq(Session) /\ Len(reg.sessions) \in Nat
         /\ DOMAIN reg.sessions = 1 .. Len(reg.sessions)
         /\ \A s \in 1 .. Len(reg.sessions) : reg.sessions[s] \in Session
BY DEF RegistryOK, RegistryWith

\* A session is written to: it goes on, or it expires.
Written(old, new) ==
  /\ new \in Session /\ new.task = old.task /\ new.role = old.role /\ new.base = old.base
  /\ new.status = old.status \/ (old.status = "OPEN" /\ new.status = "EXPIRED")

LEMMA AppendWrites ==
  ASSUME NEW s \in Session, NEW role \in MessageRoles, NEW tokens \in Nat
  PROVE  Written(s, Appended(s, role, tokens))
<1>1. [role |-> role, tokens |-> tokens] \in Message
  BY DEF Message
<1>2. Append(s.messages, [role |-> role, tokens |-> tokens]) \in Seq(Message)
  BY <1>1 DEF Session
<1>3. CASE s.status # "OPEN"
  BY <1>3 DEF Appended, Written
<1>4. CASE s.status = "OPEN" /\ ~Fits(s, tokens)
  BY <1>4 DEF Appended, Written, Session, SessionStatus
<1>5. CASE s.status = "OPEN" /\ Fits(s, tokens)
  BY <1>2, <1>5 DEF Appended, Written, Session
<1>6. QED
  BY <1>3, <1>4, <1>5

LEMMA ArchiveWrites ==
  ASSUME NEW s \in Session, NEW prompt \in TokenCounts, NEW reply \in TokenCounts
  PROVE  Written(s, Archived(s, prompt, reply))
<1>1. prompt \in Nat /\ reply \in Nat
  BY CollaborationAssumption
<1>2. "user" \in MessageRoles /\ "assistant" \in MessageRoles
  BY DEF MessageRoles
<1> DEFINE t == Appended(s, "user", prompt)
           u == Appended(t, "assistant", reply)
<1>3. Written(s, t)
  BY <1>1, <1>2, AppendWrites
<1> HIDE DEF t
<1>4. Written(t, u)
  BY <1>1, <1>2, <1>3, AppendWrites DEF Written
<1> HIDE DEF u
<1>5. Written(s, u)
  BY <1>3, <1>4 DEF Written
<1>6. QED
  BY <1>5 DEF Archived, t, u

LEMMA SessionReplaced ==
  ASSUME NEW reg, RegistryOK(reg), NEW k \in 1 .. Len(reg.sessions), NEW new \in Session
  PROVE  LET r == WithSession(reg, k, new)
         IN  /\ RegistryOK(r) /\ Len(r.sessions) = Len(reg.sessions)
             /\ r.sessions[k] = new
             /\ \A s \in 1 .. Len(reg.sessions) : s # k => r.sessions[s] = reg.sessions[s]
<1> DEFINE r == WithSession(reg, k, new)
           sessions == [reg.sessions EXCEPT ![k] = new]
<1>1. r = [reg EXCEPT !.sessions = sessions]
  BY DEF WithSession, RegistryOK, RegistryWith
<1>2. reg.sessions \in Seq(Session)
  BY RegistryTypes
<1>3. /\ sessions \in Seq(Session) /\ Len(sessions) = Len(reg.sessions) /\ sessions[k] = new
      /\ \A s \in 1 .. Len(reg.sessions) : s # k => sessions[s] = reg.sessions[s]
  BY <1>2
<1> HIDE DEF sessions, r
<1>4. RegistryOK(r) /\ r.sessions = sessions
  BY <1>1, <1>3 DEF RegistryOK, RegistryWith
<1>5. QED
  BY <1>3, <1>4 DEF r

LEMMA SessionOpened ==
  ASSUME NEW reg, RegistryOK(reg), NEW task \in Nat, NEW role \in Roles,
         NEW base \in [rev : Nat, digest : Texts]
  PROVE  LET r == Opened(reg, task, role, base, SessionBudget, 0)
             n == Len(reg.sessions)
         IN  /\ RegistryOK(r) /\ Len(r.sessions) = n + 1
             /\ \A s \in 1 .. n : r.sessions[s] = reg.sessions[s]
             /\ r.sessions[n + 1] \in Session
             /\ r.sessions[n + 1].task = task /\ r.sessions[n + 1].role = role
             /\ r.sessions[n + 1].base = base /\ r.sessions[n + 1].status = "OPEN"
<1> DEFINE new == NewSession(task, role, base, SessionBudget, 0)
           r == Opened(reg, task, role, base, SessionBudget, 0)
           sessions == Append(reg.sessions, new)
           roles == Assigned(reg.roles, task, role)
           n == Len(reg.sessions)
<1>1. /\ new \in Session /\ new.task = task /\ new.role = role /\ new.base = base
      /\ new.status = "OPEN"
  BY DEF NewSession, Session, SessionStatus
<1>2. r = [sessions |-> sessions, roles |-> roles]
  BY DEF Opened
<1>3. reg.sessions \in Seq(Session)
  BY RegistryTypes
<1> HIDE DEF new, roles, r
<1>4. /\ sessions \in Seq(Session) /\ Len(sessions) = n + 1 /\ sessions[n + 1] = new
      /\ \A s \in 1 .. n : sessions[s] = reg.sessions[s]
  BY <1>1, <1>3, AppendItem
<1> HIDE DEF sessions, n
<1>5. RegistryOK(r) /\ r.sessions = sessions
  BY <1>2, <1>4 DEF RegistryOK, RegistryWith
<1>6. QED
  BY <1>1, <1>4, <1>5 DEF r, n

\* A commit is announced when no session is OPEN, and so to nobody.
LEMMA NobodyStale ==
  ASSUME NEW reg, RegistryOK(reg), NEW base,
         \A s \in 1 .. Len(reg.sessions) : reg.sessions[s].status # "OPEN"
  PROVE  StaleAfterCommit(reg, base, 0) = reg
<1> DEFINE stale == [s \in DOMAIN reg.sessions |->
     IF reg.sessions[s].status = "OPEN" /\ s # 0 /\ reg.sessions[s].base # base
     THEN [reg.sessions[s] EXCEPT !.status = "STALE"] ELSE reg.sessions[s]]
<1>1. StaleAfterCommit(reg, base, 0) = [reg EXCEPT !.sessions = stale]
  BY DEF StaleAfterCommit, RegistryOK, RegistryWith
<1>2. stale = [s \in DOMAIN reg.sessions |-> reg.sessions[s]]
  BY RegistryTypes
<1>3. stale = reg.sessions
  BY <1>2, RegistryTypes
<1> HIDE DEF stale
<1>4. [reg EXCEPT !.sessions = stale] = reg
  BY <1>3 DEF RegistryOK, RegistryWith
<1>5. QED
  BY <1>1, <1>4

-----------------------------------------------------------------------------
(* Handoffs                                                                *)

Handoff == [task : Nat, session : Nat, status : {"NONE", "ACTIVE", "COMPLETED", "REJECTED"},
            calls : Nat, errors : BOOLEAN]

LEMMA CallNoted ==
  ASSUME NEW h \in Handoff, NEW broken \in BOOLEAN
  PROVE  LET noted == [h EXCEPT !.calls = @ + 1, !.errors = broken]
         IN  /\ noted \in Handoff /\ noted.task = h.task /\ noted.session = h.session
             /\ noted.status = h.status
<1> DEFINE n == h.calls + 1
           noted == [h EXCEPT !.calls = n, !.errors = broken]
<1>1. n \in Nat
  BY DEF Handoff
<1>2. [h EXCEPT !.calls = @ + 1, !.errors = broken] = noted
  BY DEF Handoff
<1> HIDE DEF n
<1>3. noted \in Handoff
  BY <1>1, Zenon DEF Handoff
<1>4. noted.task = h.task /\ noted.session = h.session /\ noted.status = h.status
  BY DEF Handoff
<1>5. QED
  BY <1>2, <1>3, <1>4

\* Every task has its session.
Paired(b, reg) ==
  /\ Len(b.tasks) = Len(reg.sessions)
  /\ \A s \in 1 .. Len(reg.sessions) : reg.sessions[s].task = s

\* Design and verification count as COMPLETED only with a complete transcript.
Accepted(b, reg, s) ==
  reg.sessions[s].role # "AGPlanningAgent" /\ b.tasks[s].status = "COMPLETED" =>
    reg.sessions[s].status = "COMPLETED"

\* Task s and its session have ended.
Done(b, reg, s) ==
  /\ reg.sessions[s].status # "OPEN" /\ b.tasks[s].status \in {"COMPLETED", "REJECTED"}
  /\ Accepted(b, reg, s)

\* The agent of task s, the last one, is at work, maybe with an expired session.
AtWork(b, reg, s, role) ==
  /\ s \in 1 .. Len(reg.sessions) /\ s = Len(reg.sessions) /\ b.tasks[s].status = "ACTIVE"
  /\ reg.sessions[s].role = role /\ reg.sessions[s].status \in {"OPEN", "EXPIRED"}
  /\ reg.sessions[s].base = CurrentBase(b)

\* Between two handoffs.
Rest(b, reg) ==
  /\ BoardOK(b) /\ RegistryOK(reg) /\ Paired(b, reg)
  /\ \A s \in 1 .. Len(reg.sessions) : Done(b, reg, s)

\* During the handoff of session s.
Work(b, reg, s, role) ==
  /\ BoardOK(b) /\ RegistryOK(reg) /\ Paired(b, reg) /\ AtWork(b, reg, s, role)
  /\ \A t \in 1 .. Len(reg.sessions) : t # s => Done(b, reg, t)

\* Task s is the last, and its session expired while it was ACTIVE.
Abandoned(b, reg, s) ==
  /\ s = Len(b.tasks) /\ b.tasks[s].status = "ACTIVE"
  /\ reg.sessions[s].status = "EXPIRED"

\* What an aborted call leaves: every task has ended, except for the last one when its
\* session expired or its context could not be built, and then it has no session.
Broken(b, reg) ==
  /\ BoardOK(b) /\ RegistryOK(reg) /\ Len(reg.sessions) <= Len(b.tasks)
  /\ \A s \in 1 .. Len(reg.sessions) :
       reg.sessions[s].task = s /\ (Done(b, reg, s) \/ Abandoned(b, reg, s))
  /\ \A t \in 1 .. Len(b.tasks) :
       t \in 1 .. Len(reg.sessions) \/ (t = Len(b.tasks) /\ b.tasks[t].status = "ACTIVE")

\* No COMPLETED task is touched.
TasksStay(b, c) ==
  /\ Len(b.tasks) <= Len(c.tasks)
  /\ \A t \in 1 .. Len(b.tasks) : b.tasks[t].status = "COMPLETED" => c.tasks[t].status = "COMPLETED"

LEMMA RestStays ==
  ASSUME NEW b, NEW reg, NEW c, Rest(b, reg), BoardOK(c), c.tasks = b.tasks
  PROVE  Rest(c, reg)
BY DEF Rest, Paired, Done, Accepted

LEMMA WorkStays ==
  ASSUME NEW b, NEW reg, NEW s, NEW role, Work(b, reg, s, role),
         NEW c, NEW S, Follows(b, c, S), c.tasks = b.tasks
  PROVE  Work(c, reg, s, role)
<1>1. BoardOK(c) /\ CurrentBase(c) = CurrentBase(b)
  BY FollowsFacts DEF Work
<1>2. QED
  BY <1>1 DEF Work, Paired, Done, Accepted, AtWork

LEMMA RestIsBroken ==
  ASSUME NEW b, NEW reg, Rest(b, reg)
  PROVE  Broken(b, reg)
BY BoardTypes DEF Rest, Broken, Paired

LEMMA ExpiredIsBroken ==
  ASSUME NEW b, NEW reg, NEW s, NEW role, Work(b, reg, s, role),
         reg.sessions[s].status # "OPEN"
  PROVE  Broken(b, reg)
<1>1. Len(reg.sessions) = Len(b.tasks) /\ Len(b.tasks) \in Nat
  BY BoardTypes DEF Work, Paired
<1>2. Abandoned(b, reg, s)
  BY <1>1 DEF Work, AtWork, Abandoned
<1>3. QED
  BY <1>1, <1>2 DEF Work, Broken, Paired

HandoverTopics == Only("task.created") \cup Only("task.transition")

\* A task that was started is ACTIVE and on the current revision; the others stay.
LEMMA StartedTask ==
  ASSUME NEW b, BoardOK(b)
  PROVE  LET c == Started(b)
             n == Len(b.tasks)
         IN  /\ Follows(b, c, HandoverTopics) /\ TasksStay(b, c)
             /\ n \in Nat /\ Len(c.tasks) = n + 1 /\ c.tasks[n + 1].status = "ACTIVE"
             /\ TaskBase(c, n + 1) = CurrentBase(b)
             /\ \A t \in 1 .. n : c.tasks[t] = b.tasks[t]
<1> DEFINE n == Len(b.tasks)
           created == CreatedTask(b)
           c == MovedTask(created, n + 1, "ACTIVE")
<1>1. n \in Nat
  BY BoardTypes
<1>2. /\ Follows(b, created, Only("task.created")) /\ Len(created.tasks) = n + 1
      /\ created.tasks[n + 1] = [status |-> "PENDING", rev |-> CurrentRevision(b),
                                 digest |-> CurrentText(b)]
      /\ \A t \in 1 .. n : created.tasks[t] = b.tasks[t]
  BY TaskCreated
<1>3. BoardOK(created) /\ n + 1 \in 1 .. Len(created.tasks) /\ "ACTIVE" \in TaskStatus
  BY <1>1, <1>2 DEF Follows, TaskStatus
<1> HIDE DEF created
<1>4. /\ Follows(created, c, Only("task.transition")) /\ Len(c.tasks) = n + 1
      /\ c.tasks[n + 1].status = "ACTIVE"
      /\ c.tasks[n + 1].rev = created.tasks[n + 1].rev
      /\ c.tasks[n + 1].digest = created.tasks[n + 1].digest
      /\ \A t \in 1 .. Len(created.tasks) : t # n + 1 => c.tasks[t] = created.tasks[t]
  BY <1>2, <1>3, TaskMoved
<1> HIDE DEF c
<1>5. Follows(b, c, HandoverTopics)
  BY <1>2, <1>4, FollowsOn DEF HandoverTopics
<1>6. \A t \in 1 .. n : c.tasks[t] = b.tasks[t]
  BY <1>1, <1>2, <1>4
<1>7. TaskBase(c, n + 1) = CurrentBase(b)
  BY <1>2, <1>4 DEF TaskBase, CurrentBase
<1>8. TasksStay(b, c)
  BY <1>1, <1>4, <1>6 DEF TasksStay
<1>9. c = Started(b)
  BY DEF Started, created, c
<1>10. QED
  BY <1>1, <1>4, <1>5, <1>6, <1>7, <1>8, <1>9

\* Where its context fails, the task that was started is left without a session.
LEMMA StartedIsBroken ==
  ASSUME NEW b, NEW reg, Rest(b, reg)
  PROVE  Broken(Started(b), reg)
<1> DEFINE n == Len(b.tasks)
           c == Started(b)
<1>1. BoardOK(b) /\ RegistryOK(reg) /\ Paired(b, reg) /\ Len(reg.sessions) = n
  BY DEF Rest, Paired
<1>2. /\ BoardOK(c) /\ n \in Nat /\ Len(c.tasks) = n + 1
      /\ c.tasks[n + 1].status = "ACTIVE" /\ \A t \in 1 .. n : c.tasks[t] = b.tasks[t]
  BY <1>1, StartedTask DEF Follows
<1> HIDE DEF c
<1>3. \A s \in 1 .. n : reg.sessions[s].task = s /\ Done(c, reg, s)
  BY <1>1, <1>2 DEF Rest, Paired, Done, Accepted
<1>4. \A t \in 1 .. n + 1 : t \in 1 .. n \/ t = n + 1
  BY <1>2
<1>5. n <= n + 1
  BY <1>2
<1> HIDE DEF n
<1>6. QED
  BY <1>1, <1>2, <1>3, <1>4, <1>5 DEF Broken, c

LEMMA HandoverWorks ==
  ASSUME NEW b, NEW reg, Rest(b, reg), NEW role \in Roles
  PROVE  LET h == HandedOver(b, reg, role)
             s == h.handoff.session
         IN  /\ Work(h.board, h.registry, s, role)
             /\ Follows(b, h.board, HandoverTopics) /\ TasksStay(b, h.board)
             /\ h.handoff \in Handoff /\ h.handoff.task = s
             /\ h.handoff.status = "ACTIVE"
             /\ h.registry.sessions[s].status = "OPEN"
<1> DEFINE n == Len(b.tasks)
           started == Started(b)
           base == TaskBase(started, n + 1)
           opened == Opened(reg, n + 1, role, base, SessionBudget, 0)
           handoff == [NoHandoff EXCEPT !.task = n + 1, !.status = "ACTIVE",
                                        !.session = Len(reg.sessions) + 1]
           h == HandedOver(b, reg, role)
<1>1. BoardOK(b) /\ RegistryOK(reg) /\ Paired(b, reg) /\ Len(reg.sessions) = n /\ n \in Nat
  BY BoardTypes DEF Rest, Paired
<1>2. h = [board |-> started, registry |-> opened, handoff |-> handoff]
  BY DEF HandedOver
<1>3. /\ handoff \in Handoff /\ handoff.task = n + 1 /\ handoff.session = n + 1
      /\ handoff.status = "ACTIVE"
  <2>1. NoHandoff \in Handoff
    BY DEF NoHandoff, Handoff
  <2>2. n + 1 \in Nat /\ Len(reg.sessions) + 1 = n + 1
    BY <1>1
  <2> HIDE DEF n
  <2>3. QED
    BY <2>1, <2>2 DEF Handoff
<1> HIDE DEF handoff, h
<1>4. /\ Follows(b, started, HandoverTopics) /\ TasksStay(b, started)
      /\ Len(started.tasks) = n + 1 /\ started.tasks[n + 1].status = "ACTIVE"
      /\ base = CurrentBase(b)
      /\ \A t \in 1 .. n : started.tasks[t] = b.tasks[t]
  BY <1>1, StartedTask
<1> HIDE DEF started, base
<1>8. BoardOK(started) /\ CurrentBase(started) = CurrentBase(b)
  BY <1>1, <1>4, FollowsFacts
<1>10. base \in [rev : Nat, digest : Texts]
  BY <1>1, <1>4, BoardTypes DEF CurrentBase
<1>11. /\ RegistryOK(opened) /\ Len(opened.sessions) = n + 1
       /\ \A s \in 1 .. n : opened.sessions[s] = reg.sessions[s]
       /\ opened.sessions[n + 1].task = n + 1 /\ opened.sessions[n + 1].role = role
       /\ opened.sessions[n + 1].base = base /\ opened.sessions[n + 1].status = "OPEN"
  <2>1. n + 1 \in Nat /\ RegistryOK(reg) /\ Len(reg.sessions) = n
    BY <1>1
  <2> HIDE DEF n
  <2>2. QED
    BY <1>10, <2>1, SessionOpened, SMTT(30)
<1> HIDE DEF opened
<1>12. \A s \in 1 .. n + 1 : s \in 1 .. n \/ s = n + 1
  BY <1>1
<1>13. Paired(started, opened)
  BY <1>1, <1>4, <1>11, <1>12 DEF Paired
<1>14. \A t \in 1 .. n : Done(started, opened, t)
  BY <1>1, <1>4, <1>11 DEF Rest, Done, Accepted
<1>15. n + 1 \in 1 .. n + 1
  BY <1>1
<1>16. AtWork(started, opened, n + 1, role)
  BY <1>4, <1>8, <1>11, <1>15 DEF AtWork
<1>17. Work(started, opened, n + 1, role)
  BY <1>8, <1>11, <1>12, <1>13, <1>14, <1>16 DEF Work
<1>18. QED
  BY <1>2, <1>3, <1>4, <1>11, <1>17 DEF h

\* The session of the task in hand is written to.
LEMMA WriteWorks ==
  ASSUME NEW b, NEW reg, NEW s, NEW role, Work(b, reg, s, role),
         NEW new, Written(reg.sessions[s], new)
  PROVE  LET r == WithSession(reg, s, new)
         IN  Work(b, r, s, role) /\ r.sessions[s] = new
<1> DEFINE r == WithSession(reg, s, new)
<1>1. /\ RegistryOK(reg) /\ s \in 1 .. Len(reg.sessions) /\ new \in Session
      /\ BoardOK(b) /\ Paired(b, reg) /\ AtWork(b, reg, s, role)
  BY DEF Work, AtWork, Written
<1>2. /\ RegistryOK(r) /\ Len(r.sessions) = Len(reg.sessions) /\ r.sessions[s] = new
      /\ \A t \in 1 .. Len(reg.sessions) : t # s => r.sessions[t] = reg.sessions[t]
  BY <1>1, SessionReplaced
<1> HIDE DEF r
<1>3. AtWork(b, r, s, role)
  BY <1>1, <1>2 DEF AtWork, Written
<1>4. Paired(b, r)
  BY <1>1, <1>2 DEF Paired, Written
<1>5. \A t \in 1 .. Len(r.sessions) : t # s => Done(b, r, t)
  BY <1>2 DEF Work, Done, Accepted
<1>6. QED
  BY <1>1, <1>2, <1>3, <1>4, <1>5 DEF Work, r

\* The outcome of Settle agrees with the status it was asked for.
SettledAs(end, handoff, status) ==
  /\ end.board.tasks[handoff.task].status = status
  /\ end.handoff \in Handoff /\ end.handoff.task = handoff.task
  /\ end.handoff.status = status

\* The task in hand ends, and with it its session.
LEMMA SettleRests ==
  ASSUME NEW b, NEW reg, NEW handoff \in Handoff, NEW role,
         Work(b, reg, handoff.session, role), handoff.task = handoff.session,
         NEW status \in {"COMPLETED", "REJECTED"},
         status = "COMPLETED" /\ role # "AGPlanningAgent" =>
           reg.sessions[handoff.session].status = "OPEN"
  PROVE  LET end == Settle(b, reg, handoff, status)
         IN  /\ Rest(end.board, end.registry) /\ TasksStay(b, end.board)
             /\ Follows(b, end.board, Only("task.transition"))
             /\ SettledAs(end, handoff, status)
<1> DEFINE ended == [handoff EXCEPT !.status = status]
           s == handoff.session
           c == MovedTask(b, s, status)
           closed == Closed(reg.sessions[s], status)
           r == IF reg.sessions[s].status = "OPEN" THEN WithSession(reg, s, closed) ELSE reg
<1>1. /\ BoardOK(b) /\ RegistryOK(reg) /\ Paired(b, reg) /\ AtWork(b, reg, s, role)
      /\ s \in 1 .. Len(reg.sessions) /\ s \in 1 .. Len(b.tasks)
      /\ Len(b.tasks) = Len(reg.sessions) /\ b.tasks[s].status = "ACTIVE"
      /\ reg.sessions[s].status \in {"OPEN", "EXPIRED"} /\ status \in TaskStatus
      /\ Len(b.tasks) \in Nat
  BY BoardTypes DEF Work, AtWork, Paired, TaskStatus
<1>2. Settle(b, reg, handoff, status)
        = [board |-> c, registry |-> r, handoff |-> ended]
  BY <1>1 DEF Settle
<1>12. ended \in Handoff /\ ended.task = handoff.task /\ ended.status = status
  BY DEF Handoff
<1> HIDE DEF ended
<1>3. reg.sessions[s] \in Session
  BY <1>1, RegistryTypes
<1>4. /\ closed \in Session /\ closed.task = reg.sessions[s].task
      /\ closed.role = reg.sessions[s].role /\ closed.status = status
  BY <1>3 DEF Closed, Session, SessionStatus
<1>5. /\ Follows(b, c, Only("task.transition")) /\ Len(c.tasks) = Len(b.tasks)
      /\ c.tasks[s].status = status
      /\ \A t \in 1 .. Len(b.tasks) : t # s => c.tasks[t] = b.tasks[t]
  BY <1>1, TaskMoved, SMTT(30)
<1> HIDE DEF c, closed
<1>6. /\ RegistryOK(r) /\ Len(r.sessions) = Len(reg.sessions)
      /\ r.sessions[s].task = reg.sessions[s].task /\ r.sessions[s].role = reg.sessions[s].role
      /\ r.sessions[s].status # "OPEN"
      /\ status = "COMPLETED" /\ role # "AGPlanningAgent" => r.sessions[s].status = "COMPLETED"
      /\ \A t \in 1 .. Len(reg.sessions) : t # s => r.sessions[t] = reg.sessions[t]
  <2>1. CASE reg.sessions[s].status = "OPEN"
    <3>1. RegistryOK(reg) /\ s \in 1 .. Len(reg.sessions)
      BY <1>1
    <3>2. r = WithSession(reg, s, closed)
      BY <2>1
    <3>3. closed.status # "OPEN"
          /\ (status = "COMPLETED" => closed.status = "COMPLETED")
      BY <1>4
    <3> HIDE DEF r, s
    <3>4. QED
      BY <1>4, <3>1, <3>2, <3>3, SessionReplaced, SMTT(30)
  <2>2. CASE reg.sessions[s].status # "OPEN"
    BY <1>1, <2>2
  <2>3. QED
    BY <2>1, <2>2
<1> HIDE DEF r
<1>7. Paired(c, r)
  BY <1>1, <1>5, <1>6 DEF Paired
<1>8. \A t \in 1 .. Len(r.sessions) : Done(c, r, t)
  <2>1. Done(c, r, s)
    BY <1>1, <1>5, <1>6 DEF Done, Accepted, AtWork
  <2>2. ASSUME NEW t \in 1 .. Len(r.sessions), t # s PROVE Done(c, r, t)
    <3>1. t \in 1 .. Len(reg.sessions) /\ t \in 1 .. Len(b.tasks)
      BY <1>1, <1>6
    <3>2. Done(b, reg, t)
      BY <2>2, <3>1 DEF Work
    <3>3. r.sessions[t] = reg.sessions[t] /\ c.tasks[t] = b.tasks[t]
      BY <1>5, <1>6, <2>2, <3>1
    <3>4. QED
      BY <3>2, <3>3 DEF Done, Accepted
  <2>3. QED
    BY <2>1, <2>2
<1>9. TasksStay(b, c)
  BY <1>1, <1>5 DEF TasksStay
<1>10. BoardOK(c)
  BY <1>5 DEF Follows
<1>11. QED
  BY <1>2, <1>5, <1>6, <1>7, <1>8, <1>9, <1>10, <1>12 DEF Rest, SettledAs

VerificationTopics == Only("requirements.authoritative") \cup HandoverTopics
                        \cup Only("agent.verification.result") \cup Only("task.transition")

LEMMA VerifiedRests ==
  ASSUME NEW b, NEW reg, Rest(b, reg), NEW prompt \in TokenCounts, NEW reply \in TokenCounts
  PROVE  LET end == Verified(b, reg, prompt, reply)
         IN  /\ Follows(b, end.board, VerificationTopics) /\ TasksStay(b, end.board)
             /\ end.ok \in BOOLEAN
             /\ end.ok => /\ Rest(end.board, end.registry)
                          /\ HasFact(end.board, "agent.verification.result")
             /\ ~end.ok => /\ Broken(end.board, end.registry)
                           /\ HasFact(end.board, "agent.verification.result") =>
                                HasFact(b, "agent.verification.result")
<1> DEFINE c == PublishSource(b)
           opened == HandedOver(c, reg, "VerificationAgent")
           s == opened.handoff.session
           session == Archived(opened.registry.sessions[s], prompt, reply)
           noted == WithSession(opened.registry, s, session)
           d == PublishFact(opened.board, "agent.verification.result")
           closed == Settle(d, noted, opened.handoff, "COMPLETED")
           end == Verified(b, reg, prompt, reply)
<1>1. end = IF session.status = "OPEN"
            THEN [board |-> closed.board, registry |-> closed.registry, ok |-> TRUE]
            ELSE [board |-> opened.board, registry |-> noted, ok |-> FALSE]
  BY DEF Verified
<1> HIDE DEF end
<1>2. BoardOK(b)
  BY DEF Rest
<1>3. Follows(b, c, Only("requirements.authoritative")) /\ c.tasks = b.tasks
  BY <1>2, SourcePublished
<1>4. Rest(c, reg) /\ "VerificationAgent" \in Roles /\ BoardOK(c)
  BY <1>3, RestStays DEF Follows, Roles
<1> HIDE DEF c
<1>5. /\ Work(opened.board, opened.registry, s, "VerificationAgent")
      /\ Follows(c, opened.board, HandoverTopics) /\ TasksStay(c, opened.board)
      /\ opened.handoff \in Handoff /\ opened.handoff.task = s
  BY <1>4, HandoverWorks
<1>6. Follows(b, opened.board, Only("requirements.authoritative") \cup HandoverTopics)
  BY <1>2, <1>3, <1>5, FollowsOn
<1>7. TasksStay(b, opened.board)
  BY <1>3, <1>5 DEF TasksStay
<1> HIDE DEF opened
<1>8. opened.registry.sessions[s] \in Session /\ BoardOK(opened.board)
  BY <1>5, RegistryTypes DEF Work, AtWork
<1>9. Written(opened.registry.sessions[s], session)
  BY <1>8, ArchiveWrites
<1> HIDE DEF session
<1>10. Work(opened.board, noted, s, "VerificationAgent") /\ noted.sessions[s] = session
  BY <1>5, <1>9, WriteWorks
<1> HIDE DEF noted
<1>11. CASE session.status # "OPEN"
  <2>1. end.board = opened.board /\ end.registry = noted /\ end.ok = FALSE
    BY <1>1, <1>11
  <2>2. Broken(opened.board, noted)
    BY <1>10, <1>11, ExpiredIsBroken
  <2>3. Follows(b, opened.board, VerificationTopics)
    BY <1>6 DEF Follows, VerificationTopics
  <2>4. HasFact(opened.board, "agent.verification.result") => HasFact(b, "agent.verification.result")
    <3>1. "agent.verification.result" \notin Only("requirements.authoritative") \cup HandoverTopics
      BY DEF Only, HandoverTopics
    <3>2. QED
      BY <1>2, <1>6, <3>1, FollowsFacts
  <2>5. QED
    BY <1>7, <2>1, <2>2, <2>3, <2>4 DEF end
<1>12. CASE session.status = "OPEN"
  <2>1. end.board = closed.board /\ end.registry = closed.registry /\ end.ok = TRUE
    BY <1>1, <1>12
  <2>2. "agent.verification.result" \in Topics
    BY DEF Topics
  <2>3. /\ Follows(opened.board, d, Only("agent.verification.result"))
        /\ d.tasks = opened.board.tasks /\ HasFact(d, "agent.verification.result")
    BY <1>8, <2>2, FactPublished
  <2> HIDE DEF d
  <2>4. Work(d, noted, s, "VerificationAgent")
    BY <1>10, <2>3, WorkStays
  <2>5. /\ Rest(closed.board, closed.registry) /\ TasksStay(d, closed.board)
        /\ Follows(d, closed.board, Only("task.transition"))
    BY <1>5, <1>10, <1>12, <2>4, SettleRests
  <2> HIDE DEF closed
  <2>6. BoardOK(d)
    BY <2>3 DEF Follows
  <2>7. HasFact(closed.board, "agent.verification.result")
    BY <2>3, <2>5, <2>6, FollowsFacts
  <2>8. Follows(b, closed.board, VerificationTopics)
    <3>1. Follows(b, d, Only("requirements.authoritative") \cup HandoverTopics
                          \cup Only("agent.verification.result"))
      BY <1>2, <1>6, <2>3, FollowsOn
    <3>2. QED
      BY <1>2, <2>5, <3>1, FollowsOn DEF VerificationTopics
  <2>9. TasksStay(b, closed.board)
    <3>1. TasksStay(b, d)
      BY <1>7, <2>3 DEF TasksStay
    <3>2. Len(b.tasks) \in Nat /\ Len(d.tasks) \in Nat /\ Len(closed.board.tasks) \in Nat
      BY <1>2, <2>5, <2>6, BoardTypes DEF Rest
    <3>3. QED
      BY <2>5, <3>1, <3>2 DEF TasksStay
  <2>10. QED
    BY <2>1, <2>5, <2>7, <2>8, <2>9 DEF end
<1>13. QED
  BY <1>11, <1>12

-----------------------------------------------------------------------------
(* The invariant                                                           *)

PipelineOK ==
  /\ arm \in {"R1", "R2"} /\ goal \in {"assured", "generated", "done"}
  /\ planning \in Handoff /\ design \in Handoff

\* At most one agent is at work, on the current model, and only while its handoff is
\* in progress.
WorkInv ==
  /\ phase = "planning" => /\ Work(board, registry, planning.session, "AGPlanningAgent")
                           /\ planning.task = planning.session
  /\ phase = "designing" => /\ Work(board, registry, design.session, "DesignAgent")
                            /\ design.task = design.session
  /\ phase = "aborted" => Broken(board, registry)
  /\ phase \notin {"planning", "designing", "aborted"} => Rest(board, registry)

\* Every author is a task that was COMPLETED.
AuthorsOK(b) ==
  \A i \in 1 .. Len(b.revisions) :
    b.revisions[i].task # 0 =>
      /\ b.revisions[i].task \in 1 .. Len(b.tasks)
      /\ b.tasks[b.revisions[i].task].status = "COMPLETED"

NoAuthor(b, task) ==
  \A i \in 1 .. Len(b.revisions) : b.revisions[i].task # task

\* The task is the author of exactly one revision.
SoleAuthor(b, task) ==
  /\ task # 0
  /\ \E i \in 1 .. Len(b.revisions) :
       /\ b.revisions[i].task = task
       /\ \A j \in 1 .. Len(b.revisions) : b.revisions[j].task = task => j = i

AuthorsInv ==
  /\ AuthorsOK(board)
  /\ design.status = "COMPLETED" => SoleAuthor(board, design.task)

\* What the facts on the board say of the current revision: whoever published that it
\* is verified made the plan for it, and assurance is never repeated on the way to
\* what generate returns.
FactsInv ==
  /\ HasFact(board, "agent.verification.result") => planned = CurrentRevision(board)
  /\ phase \in {"committed", "verified", "explored"} => HasFact(board, "model.terminal.ready")
  /\ phase = "generated" => HasFact(board, "agent.verification.result")
  /\ phase \in {"assured", "generated", "done"} /\ arm = "R2" => HasFact(board, "analysis.ag_trace")
  /\ phase = "assuring" => goal # "generated"
  /\ ReturnedIsCommitted

CollaborationInv == PipelineOK /\ WorkInv /\ AuthorsInv /\ FactsInv

LEMMA InvBoard ==
  ASSUME WorkInv
  PROVE  /\ BoardOK(board) /\ RegistryOK(registry)
         /\ \A s \in 1 .. Len(registry.sessions) : registry.sessions[s].task = s
BY DEF WorkInv, Work, Broken, Rest, Paired

-----------------------------------------------------------------------------
(* Authors                                                                 *)

LEMMA AuthorsStay ==
  ASSUME NEW b, NEW c, BoardOK(b), BoardOK(c), c.revisions = b.revisions,
         TasksStay(b, c), AuthorsOK(b)
  PROVE  AuthorsOK(c) /\ \A task : SoleAuthor(b, task) => SoleAuthor(c, task)
<1>1. Len(b.tasks) \in Nat /\ Len(c.tasks) \in Nat /\ Len(b.tasks) <= Len(c.tasks)
  BY BoardTypes DEF TasksStay
<1>2. \A t \in 1 .. Len(b.tasks) : t \in 1 .. Len(c.tasks)
  BY <1>1
<1>3. AuthorsOK(c)
  BY <1>2 DEF AuthorsOK, TasksStay
<1>4. QED
  BY <1>3 DEF SoleAuthor

LEMMA AdvanceAuthors ==
  ASSUME NEW b, NEW c, BoardOK(b), NEW text \in Texts, NEW task \in Nat,
         Advances(b, c, text, task), AuthorsOK(b),
         task # 0 => task \in 1 .. Len(b.tasks) /\ b.tasks[task].status = "COMPLETED"
  PROVE  /\ AuthorsOK(c)
         /\ \A t : SoleAuthor(b, t) /\ t # task => SoleAuthor(c, t)
         /\ task # 0 /\ NoAuthor(b, task) => SoleAuthor(c, task)
<1> DEFINE n == Len(b.revisions)
           r == [text |-> text, task |-> task]
<1>1. b.revisions \in Seq(Revision) /\ r \in Revision /\ r.task = task /\ n \in Nat
  BY BoardTypes DEF Revision
<1>2. c.revisions = Append(b.revisions, r) /\ c.tasks = b.tasks
  BY DEF Advances
<1> HIDE DEF r
<1>3. /\ Len(c.revisions) = n + 1 /\ c.revisions[n + 1].task = task
      /\ \A i \in 1 .. n : c.revisions[i] = b.revisions[i]
  BY <1>1, <1>2, AppendItem
<1>4. \A i \in 1 .. n + 1 : i \in 1 .. n \/ i = n + 1
  BY <1>1
<1>5. n + 1 \in 1 .. n + 1 /\ \A i \in 1 .. n : i \in 1 .. n + 1
  BY <1>1
<1> HIDE DEF n
<1>6. AuthorsOK(c)
  <2>1. \A i \in 1 .. n : b.revisions[i].task # 0 =>
          /\ b.revisions[i].task \in 1 .. Len(b.tasks)
          /\ b.tasks[b.revisions[i].task].status = "COMPLETED"
    BY DEF AuthorsOK, n
  <2>2. QED
    BY <1>2, <1>3, <1>4, <2>1 DEF AuthorsOK
<1>7. ASSUME NEW t, SoleAuthor(b, t), t # task PROVE SoleAuthor(c, t)
  <2>1. PICK i \in 1 .. n : /\ b.revisions[i].task = t
                            /\ \A j \in 1 .. n : b.revisions[j].task = t => j = i
    BY <1>7 DEF SoleAuthor, n
  <2>2. \A j \in 1 .. n + 1 : c.revisions[j].task = t => j = i
    BY <1>3, <1>4, <1>7, <2>1
  <2>3. QED
    BY <1>3, <1>5, <1>7, <2>1, <2>2 DEF SoleAuthor
<1>8. ASSUME task # 0, NoAuthor(b, task)
      PROVE  SoleAuthor(c, task)
  <2>1. \A j \in 1 .. n + 1 : c.revisions[j].task = task => j = n + 1
    BY <1>3, <1>4, <1>8 DEF NoAuthor, n
  <2>2. QED
    BY <1>3, <1>5, <1>8, <2>1 DEF SoleAuthor
<1>9. QED
  BY <1>6, <1>7, <1>8 DEF n

-----------------------------------------------------------------------------
(* Steps                                                                   *)

LEMMA InitInv == CollaborationInit => CollaborationInv
<1> SUFFICES ASSUME CollaborationInit PROVE CollaborationInv
  OBVIOUS
<1> DEFINE p == Protect(NoReqs, InitialText)
           r == [text |-> InitialText, task |-> 0]
<1>1. board = [revisions |-> <<r>>, records |-> <<>>, tasks |-> <<>>,
               protected |-> p, rejected |-> 0, permitted |-> 0]
  BY DEF CollaborationInit, NewBoard
<1>2. r \in Revision /\ r.task = 0
  BY CollaborationAssumption DEF Revision
<1> HIDE DEF p, r
<1>3. /\ board \in BoardWith(board.protected) /\ board.records = <<>> /\ board.tasks = <<>>
      /\ board.revisions = <<r>>
  BY <1>1, <1>2 DEF BoardWith
<1>4. BoardOK(board)
  BY <1>3 DEF BoardOK
<1>5. RegistryOK(registry) /\ registry.sessions = <<>>
  BY DEF CollaborationInit, EmptyRegistry, RegistryOK, RegistryWith
<1>6. Rest(board, registry)
  BY <1>3, <1>4, <1>5 DEF Rest, Paired
<1>7. phase = "start" /\ arm \in {"R1", "R2"} /\ goal = "assured"
  BY DEF CollaborationInit
<1>8. NoHandoff \in Handoff /\ NoHandoff.status = "NONE"
  BY DEF NoHandoff, Handoff
<1>9. PipelineOK /\ WorkInv
  BY <1>6, <1>7, <1>8 DEF CollaborationInit, PipelineOK, WorkInv
<1>10. AuthorsInv
  <2>1. Len(board.revisions) = 1 /\ board.revisions[1].task = 0
    BY <1>2, <1>3
  <2>2. design.status # "COMPLETED"
    BY <1>8 DEF CollaborationInit
  <2>3. QED
    BY <2>1, <2>2 DEF AuthorsInv, AuthorsOK
<1>11. FactsInv
  BY <1>3, <1>7 DEF FactsInv, HasFact, ReturnedIsCommitted
<1>12. QED
  BY <1>9, <1>10, <1>11 DEF CollaborationInv

\* A step of a handoff: no revision is added, nothing is claimed to be verified, and
\* no phase is reached in which something is.
LEMMA HandoffStep ==
  ASSUME CollaborationInv, PipelineOK', WorkInv',
         NEW S, Follows(board, board', S), "agent.verification.result" \notin S,
         TasksStay(board, board'),
         phase' \in {"opened", "planning", "planned", "designing", "aborted"},
         planned' = planned,
         design'.status = "COMPLETED" => UNCHANGED design
  PROVE  CollaborationInv'
<1>1. BoardOK(board) /\ AuthorsInv /\ FactsInv
  BY InvBoard DEF CollaborationInv
<1>2. /\ BoardOK(board') /\ board'.revisions = board.revisions
      /\ CurrentRevision(board') = CurrentRevision(board)
      /\ HasFact(board', "agent.verification.result")
           => HasFact(board, "agent.verification.result")
  BY <1>1, FollowsFacts
<1>3. AuthorsOK(board') /\ \A t : SoleAuthor(board, t) => SoleAuthor(board', t)
  BY <1>1, <1>2, AuthorsStay DEF AuthorsInv
<1>4. AuthorsInv'
  BY <1>1, <1>3 DEF AuthorsInv
<1>5. FactsInv'
  BY <1>1, <1>2 DEF FactsInv, ReturnedIsCommitted
<1>6. QED
  BY <1>4, <1>5 DEF CollaborationInv

LEMMA Unmoved ==
  ASSUME NEW b, NEW c, BoardOK(b), c.tasks = b.tasks
  PROVE  TasksStay(b, c)
BY BoardTypes DEF TasksStay

\* The context fails between two handoffs.
LEMMA ContextFailsStep ==
  ASSUME CollaborationInv, ContextFails(board),
         phase \notin {"planning", "designing", "aborted"}
  PROVE  CollaborationInv'
<1>1. /\ phase' = "aborted" /\ board' = Started(board)
      /\ UNCHANGED <<registry, arm, planning, design, carried, planned, goal>>
  BY DEF ContextFails, assurance
<1>2. BoardOK(board) /\ PipelineOK /\ Rest(board, registry)
  BY DEF CollaborationInv, WorkInv, Rest
<1>3. Follows(board, board', HandoverTopics) /\ TasksStay(board, board')
  BY <1>1, <1>2, StartedTask
<1>4. PipelineOK' /\ WorkInv'
  BY <1>1, <1>2, StartedIsBroken DEF PipelineOK, WorkInv
<1>5. "agent.verification.result" \notin HandoverTopics
  BY DEF Only, HandoverTopics
<1>6. QED
  BY <1>1, <1>3, <1>4, <1>5, HandoffStep

LEMMA PlanningSteps ==
  ASSUME CollaborationInv,
         \/ OpenBoard \/ NoChainSelected
         \/ OpenPlanning \/ PlanningContextFails \/ PlanningCall \/ ClosePlanning
  PROVE  CollaborationInv'
<1>1. BoardOK(board) /\ RegistryOK(registry) /\ PipelineOK /\ WorkInv
  BY InvBoard DEF CollaborationInv
<1>2. CASE OpenBoard
  <2>1. /\ Follows(board, board', Only("requirements.authoritative"))
        /\ board'.tasks = board.tasks /\ Rest(board, registry)
    BY <1>1, <1>2, SourcePublished DEF OpenBoard, WorkInv
  <2>2. BoardOK(board') /\ TasksStay(board, board')
    BY <1>1, <2>1, Unmoved DEF Follows
  <2>3. Rest(board', registry)
    BY <2>1, <2>2, RestStays
  <2>4. PipelineOK' /\ WorkInv'
    BY <1>1, <1>2, <2>3 DEF OpenBoard, PipelineOK, WorkInv, assurance
  <2>5. "agent.verification.result" \notin Only("requirements.authoritative")
    BY DEF Only
  <2>6. QED
    BY <1>2, <2>1, <2>2, <2>4, <2>5, HandoffStep DEF OpenBoard
<1>3. CASE NoChainSelected
  <2>1. Follows(board, board', {}) /\ TasksStay(board, board')
    BY <1>1, <1>3, FollowsSelf, Unmoved DEF NoChainSelected
  <2>2. Broken(board, registry)
    BY <1>1, <1>3, RestIsBroken DEF NoChainSelected, WorkInv
  <2>3. PipelineOK' /\ WorkInv'
    BY <1>1, <1>3, <2>2 DEF NoChainSelected, PipelineOK, WorkInv, assurance
  <2>4. QED
    BY <1>3, <2>1, <2>3, HandoffStep DEF NoChainSelected
<1>4. CASE OpenPlanning
  <2> DEFINE h == HandedOver(board, registry, "AGPlanningAgent")
  <2>1. Rest(board, registry) /\ "AGPlanningAgent" \in Roles
    BY <1>1, <1>4 DEF OpenPlanning, WorkInv, Roles
  <2>2. /\ Work(h.board, h.registry, h.handoff.session, "AGPlanningAgent")
        /\ Follows(board, h.board, HandoverTopics) /\ TasksStay(board, h.board)
        /\ h.handoff \in Handoff /\ h.handoff.task = h.handoff.session
    BY <2>1, HandoverWorks
  <2>3. /\ board' = h.board /\ registry' = h.registry /\ planning' = h.handoff
        /\ phase' = "planning" /\ UNCHANGED <<arm, design, carried, planned, goal>>
    BY <1>4 DEF OpenPlanning, assurance
  <2> HIDE DEF h
  <2>4. PipelineOK' /\ WorkInv'
    BY <1>1, <2>2, <2>3 DEF PipelineOK, WorkInv
  <2>5. "agent.verification.result" \notin HandoverTopics
    BY DEF Only, HandoverTopics
  <2>6. QED
    BY <2>2, <2>3, <2>4, <2>5, HandoffStep
<1>5. CASE PlanningCall
  <2>1. PICK prompt \in TokenCounts, reply \in TokenCounts :
          /\ registry' = Observed(planning, prompt, reply).registry
          /\ planning' = Observed(planning, prompt, reply).handoff
    BY <1>5 DEF PlanningCall
  <2> DEFINE s == planning.session
             new == Archived(registry.sessions[s], prompt, reply)
             broken == planning.errors \/ new.status # "OPEN"
  <2>2. Work(board, registry, s, "AGPlanningAgent") /\ planning.task = s
    BY <1>1, <1>5 DEF PlanningCall, WorkInv
  <2>3. registry.sessions[s] \in Session
    BY <1>1, <2>2, RegistryTypes DEF Work, AtWork
  <2>4. Written(registry.sessions[s], new)
    BY <2>3, ArchiveWrites
  <2>5. Work(board, WithSession(registry, s, new), s, "AGPlanningAgent")
    BY <2>2, <2>4, WriteWorks
  <2>6. /\ registry' = WithSession(registry, s, new)
        /\ planning' = [planning EXCEPT !.calls = @ + 1, !.errors = broken]
    BY <2>1 DEF Observed
  <2>7. planning \in Handoff
    BY <1>1 DEF PipelineOK
  <2>12. broken \in BOOLEAN
    OBVIOUS
  <2> HIDE DEF new, broken
  <2>8. /\ planning' \in Handoff /\ planning'.task = planning.task
        /\ planning'.session = planning.session
    BY <2>6, <2>7, <2>12, CallNoted
  <2>9. PipelineOK' /\ WorkInv'
    BY <1>1, <1>5, <2>2, <2>5, <2>6, <2>8 DEF PlanningCall, PipelineOK, WorkInv, assurance
  <2>10. Follows(board, board', {}) /\ TasksStay(board, board')
    BY <1>1, <1>5, FollowsSelf, Unmoved DEF PlanningCall
  <2>11. QED
    BY <1>5, <2>9, <2>10, HandoffStep DEF PlanningCall
<1>6. CASE ClosePlanning
  <2>1. PICK success \in BOOLEAN :
          LET closed == Settle(PublishFact(board, "agent.ag_planning.result"), registry,
                               planning, IF success THEN "COMPLETED" ELSE "REJECTED")
          IN  /\ board' = closed.board /\ registry' = closed.registry
              /\ planning' = closed.handoff
              /\ phase' = IF success THEN "planned" ELSE "aborted"
    BY <1>6 DEF ClosePlanning
  <2> DEFINE c == PublishFact(board, "agent.ag_planning.result")
             status == IF success THEN "COMPLETED" ELSE "REJECTED"
             closed == Settle(c, registry, planning, status)
  <2>2. /\ Work(board, registry, planning.session, "AGPlanningAgent")
        /\ planning.task = planning.session /\ planning \in Handoff
    BY <1>1, <1>6 DEF ClosePlanning, WorkInv, PipelineOK
  <2>3. "agent.ag_planning.result" \in Topics
    BY DEF Topics
  <2>4. Follows(board, c, Only("agent.ag_planning.result")) /\ c.tasks = board.tasks
    BY <1>1, <2>3, FactPublished
  <2>5. Work(c, registry, planning.session, "AGPlanningAgent")
    BY <2>2, <2>4, WorkStays
  <2>6. status \in {"COMPLETED", "REJECTED"}
    OBVIOUS
  <2>7. board' = closed.board /\ registry' = closed.registry /\ planning' = closed.handoff
    BY <2>1
  <2> HIDE DEF c, status
  <2>8. /\ Rest(closed.board, closed.registry) /\ TasksStay(c, closed.board)
        /\ Follows(c, closed.board, Only("task.transition"))
        /\ closed.handoff \in Handoff
    BY <2>2, <2>5, <2>6, SettleRests DEF SettledAs
  <2> HIDE DEF closed
  <2>9. planning' \in Handoff
    BY <2>7, <2>8
  <2>10. phase' \in {"planned", "aborted"} /\ UNCHANGED <<arm, design, carried, planned, goal>>
    BY <1>6, <2>1 DEF ClosePlanning, assurance
  <2>11. PipelineOK' /\ WorkInv'
    BY <1>1, <2>7, <2>8, <2>9, <2>10, RestIsBroken DEF PipelineOK, WorkInv
  <2>12. Follows(board, board', Only("agent.ag_planning.result") \cup Only("task.transition"))
    BY <1>1, <2>4, <2>7, <2>8, FollowsOn
  <2>13. TasksStay(board, board')
    BY <2>4, <2>7, <2>8 DEF TasksStay
  <2>14. "agent.verification.result"
           \notin Only("agent.ag_planning.result") \cup Only("task.transition")
    BY DEF Only
  <2>15. QED
    BY <2>10, <2>11, <2>12, <2>13, <2>14, HandoffStep
<1>7. CASE PlanningContextFails
  BY <1>7, ContextFailsStep DEF PlanningContextFails
<1>8. QED
  BY <1>2, <1>3, <1>4, <1>5, <1>6, <1>7

LEMMA RejectedStep ==
  ASSUME CollaborationInv, NEW reg, Work(board, reg, design.session, "DesignAgent"),
         phase = "designing", RejectedDesign(reg)
  PROVE  CollaborationInv'
<1>1. BoardOK(board) /\ PipelineOK /\ WorkInv /\ design \in Handoff /\ design.task = design.session
  BY InvBoard DEF CollaborationInv, PipelineOK, WorkInv
<1> DEFINE c == PublishFact(board, "agent.design.rejected")
           end == Settle(c, reg, design, "REJECTED")
<1>2. /\ board' = end.board /\ registry' = end.registry /\ design' = end.handoff
      /\ phase' = "aborted" /\ UNCHANGED <<arm, planning, carried, planned, goal>>
  BY DEF RejectedDesign, assurance
<1>3. "agent.design.rejected" \in Topics
  BY DEF Topics
<1>4. Follows(board, c, Only("agent.design.rejected")) /\ c.tasks = board.tasks
  BY <1>1, <1>3, FactPublished
<1> HIDE DEF c
<1>5. Work(c, reg, design.session, "DesignAgent")
  BY <1>4, WorkStays
<1>6. /\ Rest(end.board, end.registry) /\ TasksStay(c, end.board)
      /\ Follows(c, end.board, Only("task.transition"))
      /\ end.handoff \in Handoff /\ end.handoff.status = "REJECTED"
  BY <1>1, <1>5, SettleRests DEF SettledAs
<1> HIDE DEF end
<1>7. PipelineOK' /\ WorkInv'
  BY <1>1, <1>2, <1>6, RestIsBroken DEF PipelineOK, WorkInv
<1>8. Follows(board, board', Only("agent.design.rejected") \cup Only("task.transition"))
  BY <1>1, <1>2, <1>4, <1>6, FollowsOn
<1>9. TasksStay(board, board')
  BY <1>2, <1>4, <1>6 DEF TasksStay
<1>10. "agent.verification.result"
         \notin Only("agent.design.rejected") \cup Only("task.transition")
  BY DEF Only
<1>11. QED
  BY <1>2, <1>6, <1>7, <1>8, <1>9, <1>10, HandoffStep

LEMMA DesignSteps ==
  ASSUME CollaborationInv,
         \/ PrepareDesign \/ DesignContextFails \/ DesignCall
         \/ DesignRaises \/ FinalizeIncomplete \/ FinalizeExpires
  PROVE  CollaborationInv'
<1>1. BoardOK(board) /\ RegistryOK(registry) /\ PipelineOK /\ WorkInv
  BY InvBoard DEF CollaborationInv
<1> DEFINE s == design.session
<1>2. phase = "designing" =>
        /\ Work(board, registry, s, "DesignAgent") /\ design.task = s
        /\ registry.sessions[s] \in Session
  BY <1>1, RegistryTypes DEF WorkInv, Work, AtWork
<1>3. CASE PrepareDesign
  <2> DEFINE h == HandedOver(board, registry, "DesignAgent")
  <2>1. Rest(board, registry) /\ "DesignAgent" \in Roles
    BY <1>1, <1>3 DEF PrepareDesign, DesignNext, WorkInv, Roles
  <2>2. /\ Work(h.board, h.registry, h.handoff.session, "DesignAgent")
        /\ Follows(board, h.board, HandoverTopics) /\ TasksStay(board, h.board)
        /\ h.handoff \in Handoff /\ h.handoff.task = h.handoff.session
        /\ h.handoff.status = "ACTIVE"
    BY <2>1, HandoverWorks
  <2>3. /\ board' = h.board /\ registry' = h.registry /\ design' = h.handoff
        /\ phase' = "designing" /\ UNCHANGED <<arm, planning, carried, planned, goal>>
    BY <1>3 DEF PrepareDesign, assurance
  <2> HIDE DEF h
  <2>4. PipelineOK' /\ WorkInv'
    BY <1>1, <2>2, <2>3 DEF PipelineOK, WorkInv
  <2>5. "agent.verification.result" \notin HandoverTopics
    BY DEF Only, HandoverTopics
  <2>6. QED
    BY <2>2, <2>3, <2>4, <2>5, HandoffStep
<1>4. CASE DesignCall
  <2>1. PICK prompt \in TokenCounts, reply \in TokenCounts :
          /\ registry' = Observed(design, prompt, reply).registry
          /\ design' = Observed(design, prompt, reply).handoff
    BY <1>4 DEF DesignCall
  <2> DEFINE new == Archived(registry.sessions[s], prompt, reply)
             broken == design.errors \/ new.status # "OPEN"
  <2>2. Work(board, registry, s, "DesignAgent") /\ design.task = s
    BY <1>2, <1>4 DEF DesignCall
  <2>3. Written(registry.sessions[s], new)
    BY <1>2, <1>4, ArchiveWrites DEF DesignCall
  <2>4. Work(board, WithSession(registry, s, new), s, "DesignAgent")
    BY <2>2, <2>3, WriteWorks
  <2>5. /\ registry' = WithSession(registry, s, new)
        /\ design' = [design EXCEPT !.calls = @ + 1, !.errors = broken]
    BY <2>1 DEF Observed
  <2>6. design \in Handoff /\ broken \in BOOLEAN
    BY <1>1 DEF PipelineOK
  <2> HIDE DEF new, broken
  <2>7. /\ design' \in Handoff /\ design'.task = design.task
        /\ design'.session = design.session /\ design'.status = design.status
    BY <2>5, <2>6, CallNoted
  <2>8. PipelineOK' /\ WorkInv'
    BY <1>1, <1>4, <2>2, <2>4, <2>5, <2>7 DEF DesignCall, PipelineOK, WorkInv, assurance
  <2>9. AuthorsInv' /\ FactsInv'
    BY <1>4, <2>7 DEF DesignCall, CollaborationInv, AuthorsInv, FactsInv, ReturnedIsCommitted,
                      assurance
  <2>10. QED
    BY <2>8, <2>9 DEF CollaborationInv
<1>5. CASE DesignRaises
  BY <1>2, <1>5, RejectedStep DEF DesignRaises
<1>6. CASE FinalizeIncomplete
  BY <1>2, <1>6, RejectedStep DEF FinalizeIncomplete
<1>7. CASE FinalizeExpires
  <2>1. PICK session \in Transcripts : RejectedDesign(WithSession(registry, s, session))
    BY <1>7 DEF FinalizeExpires
  <2>2. design.calls = 0 /\ phase = "designing"
    BY <1>7 DEF FinalizeExpires
  <2>3. PICK prompt \in TokenCounts, reply \in TokenCounts :
          session = Archived(registry.sessions[s], prompt, reply)
    BY <2>2 DEF Transcripts
  <2>4. Written(registry.sessions[s], session)
    BY <1>2, <2>2, <2>3, ArchiveWrites
  <2>5. Work(board, WithSession(registry, s, session), s, "DesignAgent")
    BY <1>2, <2>2, <2>4, WriteWorks
  <2>6. QED
    BY <2>1, <2>2, <2>5, RejectedStep
<1>8. CASE DesignContextFails
  BY <1>8, ContextFailsStep DEF DesignContextFails, DesignNext
<1>9. QED
  BY <1>3, <1>4, <1>5, <1>6, <1>7, <1>8

\* A commit between two handoffs.
LEMMA CommitEnds ==
  ASSUME NEW b, NEW reg, Rest(b, reg), NEW text \in Texts, NEW task \in Nat
  PROVE  LET end == CommitAndAnnounce(b, reg, text, task)
         IN  /\ end.registry = reg /\ end.ok \in BOOLEAN
             /\ end.ok => Advances(b, end.board, text, task) /\ Rest(end.board, reg)
             /\ ~end.ok => end.board = b
<1> DEFINE c == Commit(b, text, CurrentRevision(b), CurrentText(b), task)
           ok == CurrentRevision(c) > CurrentRevision(b)
           end == CommitAndAnnounce(b, reg, text, task)
<1>1. end = [board |-> c, ok |-> ok,
             registry |-> IF ok THEN StaleAfterCommit(reg, CurrentBase(c), 0) ELSE reg]
  BY DEF CommitAndAnnounce
<1>2. BoardOK(b) /\ RegistryOK(reg) /\ CurrentRevision(b) \in Nat
      /\ \A s \in 1 .. Len(reg.sessions) : reg.sessions[s].status # "OPEN"
  BY BoardTypes DEF Rest, Done
<1>3. c = b \/ Advances(b, c, text, task)
  BY <1>2, CommitOutcome
<1> HIDE DEF c, end
<1>4. ok \in BOOLEAN
  OBVIOUS
<1>5. ok => Advances(b, c, text, task) /\ Rest(c, reg)
  <2>1. c = b => ~ok
    BY <1>2
  <2>2. Advances(b, c, text, task) => Rest(c, reg)
    BY RestStays DEF Advances
  <2>3. QED
    BY <1>3, <2>1, <2>2
<1>6. ~ok => c = b
  <2>1. Advances(b, c, text, task) => ok
    BY <1>2 DEF Advances
  <2>2. QED
    BY <1>3, <2>1
<1>7. end.registry = reg
  BY <1>1, <1>2, NobodyStale
<1>8. end.board = c /\ end.ok = ok
  BY <1>1
<1> HIDE DEF ok
<1>9. QED
  BY <1>4, <1>5, <1>6, <1>7, <1>8 DEF end

\* The design is committed by the task that was just COMPLETED, or by nobody.
LEMMA FinalizeDesignStep == CollaborationInv /\ FinalizeDesign => CollaborationInv'
<1> SUFFICES ASSUME CollaborationInv, FinalizeDesign PROVE CollaborationInv'
  OBVIOUS
<1>1. BoardOK(board) /\ PipelineOK /\ WorkInv /\ AuthorsInv /\ design \in Handoff
  BY InvBoard DEF CollaborationInv, PipelineOK
<1> DEFINE s == design.session
           c == PublishFact(board, "agent.design.result")
<1>2. /\ Work(board, registry, s, "DesignAgent") /\ design.task = s
      /\ registry.sessions[s] \in Session /\ registry.sessions[s].status = "OPEN"
      /\ s \in 1 .. Len(registry.sessions)
  BY <1>1, RegistryTypes DEF FinalizeDesign, TranscriptBroken, WorkInv, Work, AtWork
<1>3. PICK session \in Transcripts, success \in BOOLEAN, text \in Texts :
        LET status == IF success THEN "COMPLETED" ELSE "REJECTED"
            settled == Settle(PublishFact(board, "agent.design.result"),
                              WithSession(registry, design.session, session),
                              design, status)
            end == CommitAndAnnounce(settled.board, settled.registry, text,
                                     Author(success))
        IN  /\ design.calls = 0 => session.status = "OPEN"
            /\ board' = end.board /\ registry' = end.registry
            /\ IF end.ok
               THEN phase' = "designed" /\ design' = settled.handoff /\ carried' = text
               ELSE phase' = "aborted" /\ UNCHANGED <<design, carried>>
  BY DEF FinalizeDesign
<1> DEFINE r == WithSession(registry, s, session)
           status == IF success THEN "COMPLETED" ELSE "REJECTED"
           settled == Settle(c, r, design, status)
           author == Author(success)
           end == CommitAndAnnounce(settled.board, settled.registry, text, author)
<1>4. /\ board' = end.board /\ registry' = end.registry
      /\ end.ok => phase' = "designed" /\ design' = settled.handoff
      /\ ~end.ok => phase' = "aborted" /\ design' = design
      /\ UNCHANGED <<arm, planning, planned, goal>>
  BY <1>3 DEF FinalizeDesign, assurance
<1>5. Written(registry.sessions[s], session) /\ session.status = "OPEN"
  <2>1. CASE design.calls > 0
    <3>1. session = registry.sessions[s]
      BY <1>3, <2>1 DEF Transcripts
    <3>2. QED
      BY <1>2, <3>1 DEF Written
  <2>2. CASE ~(design.calls > 0)
    <3>1. session.status = "OPEN"
      BY <1>1, <1>3, <2>2 DEF Handoff
    <3>2. PICK prompt \in TokenCounts, reply \in TokenCounts :
            session = Archived(registry.sessions[s], prompt, reply)
      BY <1>3, <2>2 DEF Transcripts
    <3>3. QED
      BY <1>2, <3>1, <3>2, ArchiveWrites
  <2>3. QED
    BY <2>1, <2>2
<1>6. Work(board, r, s, "DesignAgent") /\ r.sessions[s] = session
  BY <1>2, <1>5, WriteWorks
<1> HIDE DEF r
<1>7. "agent.design.result" \in Topics
  BY DEF Topics
<1>8. Follows(board, c, Only("agent.design.result")) /\ c.tasks = board.tasks
  BY <1>1, <1>7, FactPublished
<1> HIDE DEF c
<1>9. Work(c, r, s, "DesignAgent")
  BY <1>6, <1>8, WorkStays
<1>10. status \in {"COMPLETED", "REJECTED"}
  OBVIOUS
<1>11. author = IF status = "COMPLETED" THEN design.task ELSE 0
  BY DEF Author
<1> HIDE DEF status, author
<1>12. /\ Rest(settled.board, settled.registry) /\ TasksStay(c, settled.board)
       /\ Follows(c, settled.board, Only("task.transition"))
       /\ settled.board.tasks[design.task].status = status
       /\ settled.handoff \in Handoff /\ settled.handoff.task = design.task
       /\ settled.handoff.status = status
  <2>1. r.sessions[design.session].status = "OPEN"
    BY <1>5, <1>6
  <2>2. Work(c, r, design.session, "DesignAgent") /\ design.task = design.session
    BY <1>2, <1>9
  <2>3. design \in Handoff
    BY <1>1
  <2>4. /\ Rest(settled.board, settled.registry) /\ TasksStay(c, settled.board)
        /\ Follows(c, settled.board, Only("task.transition"))
        /\ SettledAs(settled, design, status)
    BY <1>10, <2>1, <2>2, <2>3, SettleRests
  <2> HIDE DEF settled
  <2>5. QED
    BY <2>4 DEF SettledAs
<1> HIDE DEF settled
<1> DEFINE topics == Only("agent.design.result") \cup Only("task.transition")
<1>13. Follows(board, settled.board, topics) /\ TasksStay(board, settled.board)
  BY <1>1, <1>8, <1>12, FollowsOn DEF TasksStay
<1>14. /\ BoardOK(settled.board) /\ settled.board.revisions = board.revisions
       /\ AuthorsOK(settled.board)
  BY <1>1, <1>13, FollowsFacts, AuthorsStay DEF AuthorsInv
<1>15. design.task \in 1 .. Len(board.tasks) /\ board.tasks[design.task].status = "ACTIVE"
  BY <1>2 DEF Work, Paired, AtWork
<1>16. design.task \in 1 .. Len(settled.board.tasks) /\ design.task # 0
  BY <1>1, <1>13, <1>14, <1>15, BoardTypes DEF TasksStay
<1>17. author \in Nat
  BY <1>11, <1>16
<1>18. /\ end.registry = settled.registry /\ end.ok \in BOOLEAN
       /\ end.ok => /\ Advances(settled.board, end.board, text, author)
                    /\ Rest(end.board, settled.registry)
       /\ ~end.ok => end.board = settled.board
  BY <1>12, <1>17, CommitEnds
<1> HIDE DEF end
<1>19. CASE ~end.ok
  <2>1. board' = settled.board /\ phase' = "aborted" /\ design' = design
    BY <1>4, <1>18, <1>19
  <2>2. PipelineOK' /\ WorkInv'
    BY <1>1, <1>4, <1>12, <1>18, <2>1, RestIsBroken DEF PipelineOK, WorkInv
  <2>3. "agent.verification.result" \notin topics
    BY DEF Only
  <2> HIDE DEF topics
  <2>4. QED
    BY <1>4, <1>13, <2>1, <2>2, <2>3, HandoffStep
<1>20. CASE end.ok
  <2>1. /\ phase' = "designed" /\ design' = settled.handoff
        /\ Advances(settled.board, board', text, author) /\ Rest(board', registry')
    BY <1>4, <1>18, <1>20
  <2>2. PipelineOK' /\ WorkInv'
    BY <1>1, <1>4, <1>12, <2>1 DEF PipelineOK, WorkInv
  <2>3. author # 0 => /\ author \in 1 .. Len(settled.board.tasks)
                      /\ settled.board.tasks[author].status = "COMPLETED"
    BY <1>11, <1>12, <1>16
  <2>4. AuthorsOK(board')
    BY <1>14, <1>17, <2>1, <2>3, AdvanceAuthors
  <2>5. status = "COMPLETED" => SoleAuthor(board', design.task)
    <3> SUFFICES ASSUME status = "COMPLETED" PROVE SoleAuthor(board', design.task)
      OBVIOUS
    <3>1. author = design.task /\ author # 0
      BY <1>11, <1>16
    <3>2. NoAuthor(settled.board, author)
      <4>1. NoAuthor(board, design.task)
        BY <1>1, <1>15, <1>16 DEF AuthorsInv, AuthorsOK, NoAuthor
      <4>2. QED
        BY <1>14, <3>1, <4>1 DEF NoAuthor
    <3>3. QED
      BY <1>14, <1>17, <2>1, <2>3, <3>1, <3>2, AdvanceAuthors
  <2>6. AuthorsInv'
    BY <1>12, <2>1, <2>4, <2>5 DEF AuthorsInv
  <2>7. FactsInv'
    BY <2>1 DEF Advances, FactsInv, ReturnedIsCommitted
  <2>8. QED
    BY <2>2, <2>6, <2>7 DEF CollaborationInv
<1>21. QED
  BY <1>18, <1>19, <1>20

\* Nobody becomes an author while no revision is added.
LEMMA AuthorsKept ==
  ASSUME AuthorsInv, BoardOK(board), NEW S, Follows(board, board', S),
         TasksStay(board, board'), UNCHANGED design
  PROVE  AuthorsInv'
<1>1. BoardOK(board') /\ board'.revisions = board.revisions
  BY DEF Follows
<1>2. QED
  BY <1>1, AuthorsStay DEF AuthorsInv

\* A commit that names no task.
LEMMA NobodyAuthors ==
  ASSUME AuthorsInv, NEW b, BoardOK(b), b.revisions = board.revisions, b.tasks = board.tasks,
         BoardOK(board), NEW text \in Texts, NEW c, Advances(b, c, text, 0),
         NEW S, Follows(c, board', S), board'.tasks = c.tasks, UNCHANGED design
  PROVE  AuthorsInv'
<1>1. AuthorsOK(b) /\ \A t : SoleAuthor(board, t) => SoleAuthor(b, t)
  BY AuthorsStay, Unmoved DEF AuthorsInv
<1>2. AuthorsOK(c) /\ \A t : SoleAuthor(b, t) /\ t # 0 => SoleAuthor(c, t)
  BY <1>1, AdvanceAuthors
<1>3. /\ BoardOK(c) /\ BoardOK(board') /\ board'.revisions = c.revisions
      /\ TasksStay(c, board')
  BY Unmoved DEF Advances, Follows
<1>4. AuthorsOK(board') /\ \A t : SoleAuthor(c, t) => SoleAuthor(board', t)
  BY <1>2, <1>3, AuthorsStay
<1>5. \A t : SoleAuthor(board, t) => t # 0
  BY DEF SoleAuthor
<1>6. QED
  BY <1>1, <1>2, <1>4, <1>5 DEF AuthorsInv

LEMMA TerminalCommitStep ==
  ASSUME CollaborationInv, NEW from \in {"designed", "generated"},
         NEW to \in {"committed", "explored"}, TerminalCommit(from, to)
  PROVE  CollaborationInv'
<1>1. /\ BoardOK(board) /\ PipelineOK /\ WorkInv /\ AuthorsInv /\ FactsInv
      /\ Rest(board, registry)
  BY InvBoard DEF CollaborationInv, TerminalCommit, WorkInv
<1>2. UNCHANGED <<arm, planning, design, planned, goal>>
  BY DEF TerminalCommit, assurance
<1>3. PICK text \in Texts :
        LET end == CommitAndAnnounce(board, registry, text, 0)
        IN  IF text = CurrentText(board)
            THEN /\ phase' = to /\ carried' = text
                 /\ board' = EnsureReady(board) /\ UNCHANGED registry
            ELSE /\ carried' = text /\ registry' = end.registry
                 /\ phase' = IF end.ok THEN to ELSE "aborted"
                 /\ board' = IF end.ok THEN EnsureReady(end.board) ELSE end.board
  BY DEF TerminalCommit
<1> DEFINE end == CommitAndAnnounce(board, registry, text, 0)
           ready == Only("model.terminal.ready")
<1>4. "agent.verification.result" \notin ready
  BY DEF Only
<1> HIDE DEF ready
<1>5. CASE text = CurrentText(board)
  <2>1. phase' = to /\ board' = EnsureReady(board) /\ registry' = registry
    BY <1>3, <1>5
  <2>2. /\ Follows(board, board', ready) /\ board'.tasks = board.tasks
        /\ HasFact(board', "model.terminal.ready")
    BY <1>1, <2>1, ReadyEnsured DEF ready
  <2>3. BoardOK(board') /\ Rest(board', registry)
    BY <1>1, <2>2, RestStays DEF Follows
  <2>4. PipelineOK' /\ WorkInv'
    BY <1>1, <1>2, <2>1, <2>3 DEF PipelineOK, WorkInv
  <2>5. AuthorsInv'
    BY <1>1, <1>2, <2>2, Unmoved, AuthorsKept
  <2>6. FactsInv'
    <3>1. /\ HasFact(board', "agent.verification.result")
               => HasFact(board, "agent.verification.result")
          /\ CurrentRevision(board') = CurrentRevision(board)
      BY <1>1, <1>4, <2>2, FollowsFacts
    <3>2. QED
      BY <1>1, <1>2, <2>1, <2>2, <3>1 DEF FactsInv, ReturnedIsCommitted
  <2>7. QED
    BY <2>4, <2>5, <2>6 DEF CollaborationInv
<1>6. CASE text # CurrentText(board)
  <2>1. /\ registry' = end.registry /\ phase' = IF end.ok THEN to ELSE "aborted"
        /\ board' = IF end.ok THEN EnsureReady(end.board) ELSE end.board
    BY <1>3, <1>6
  <2>2. /\ end.registry = registry /\ end.ok \in BOOLEAN
        /\ end.ok => Advances(board, end.board, text, 0) /\ Rest(end.board, registry)
        /\ ~end.ok => end.board = board
    BY <1>1, CommitEnds
  <2> HIDE DEF end
  <2>3. CASE ~end.ok
    <3>1. board' = board /\ registry' = registry /\ phase' = "aborted"
      BY <2>1, <2>2, <2>3
    <3>2. PipelineOK' /\ WorkInv'
      BY <1>1, <1>2, <3>1, RestIsBroken DEF PipelineOK, WorkInv
    <3>3. QED
      BY <1>1, <1>2, <3>1, <3>2
      DEF CollaborationInv, AuthorsInv, FactsInv, ReturnedIsCommitted
  <2>4. CASE end.ok
    <3>1. board' = EnsureReady(end.board) /\ registry' = registry /\ phase' = to
      BY <2>1, <2>2, <2>4
    <3>2. Advances(board, end.board, text, 0) /\ Rest(end.board, registry) /\ BoardOK(end.board)
      BY <2>2, <2>4 DEF Advances
    <3>3. /\ Follows(end.board, board', ready) /\ board'.tasks = end.board.tasks
          /\ HasFact(board', "model.terminal.ready")
      BY <3>1, <3>2, ReadyEnsured DEF ready
    <3>4. BoardOK(board') /\ Rest(board', registry)
      BY <3>2, <3>3, RestStays DEF Follows
    <3>5. PipelineOK' /\ WorkInv'
      BY <1>1, <1>2, <3>1, <3>4 DEF PipelineOK, WorkInv
    <3>6. AuthorsInv'
      BY <1>1, <1>2, <3>2, <3>3, NobodyAuthors
    <3>7. ~HasFact(board', "agent.verification.result")
      BY <1>4, <3>2, <3>3, FollowsFacts DEF Advances
    <3>8. FactsInv'
      BY <3>1, <3>3, <3>7 DEF FactsInv, ReturnedIsCommitted
    <3>9. QED
      BY <3>5, <3>6, <3>8 DEF CollaborationInv
  <2>5. QED
    BY <2>2, <2>3, <2>4
<1>7. QED
  BY <1>5, <1>6


LEMMA VerificationStep == CollaborationInv /\ Verification => CollaborationInv'
<1> SUFFICES ASSUME CollaborationInv, Verification PROVE CollaborationInv'
  OBVIOUS
<1>1. /\ BoardOK(board) /\ PipelineOK /\ WorkInv /\ AuthorsInv /\ FactsInv
      /\ Rest(board, registry)
  BY InvBoard DEF CollaborationInv, Verification, WorkInv
<1>2. PICK prompt \in TokenCounts, reply \in TokenCounts :
        LET end == Verified(board, registry, prompt, reply)
        IN  /\ board' = end.board /\ registry' = end.registry
            /\ phase' = IF end.ok THEN "verified" ELSE "aborted"
            /\ planned' = IF end.ok THEN CurrentRevision(board) ELSE planned
  BY DEF Verification
<1> DEFINE end == Verified(board, registry, prompt, reply)
<1>3. /\ board' = end.board /\ registry' = end.registry
      /\ phase' = IF end.ok THEN "verified" ELSE "aborted"
      /\ planned' = IF end.ok THEN CurrentRevision(board) ELSE planned
      /\ UNCHANGED <<arm, planning, design, goal>>
  BY <1>2 DEF Verification, assurance
<1>4. /\ Follows(board, board', VerificationTopics) /\ TasksStay(board, board')
      /\ end.ok \in BOOLEAN
      /\ end.ok => Rest(board', registry')
      /\ ~end.ok => /\ Broken(board', registry')
                    /\ HasFact(board', "agent.verification.result") =>
                         HasFact(board, "agent.verification.result")
  BY <1>1, <1>3, VerifiedRests
<1> HIDE DEF end
<1>5. PipelineOK' /\ WorkInv'
  BY <1>1, <1>3, <1>4 DEF PipelineOK, WorkInv
<1>6. AuthorsInv'
  BY <1>1, <1>3, <1>4, AuthorsKept
<1>7. /\ CurrentRevision(board') = CurrentRevision(board)
      /\ HasFact(board, "model.terminal.ready") => HasFact(board', "model.terminal.ready")
  BY <1>1, <1>4, FollowsFacts
<1>8. phase = "committed"
  BY DEF Verification
<1>9. FactsInv'
  BY <1>1, <1>3, <1>4, <1>7, <1>8 DEF FactsInv, ReturnedIsCommitted
<1>10. QED
  BY <1>5, <1>6, <1>9 DEF CollaborationInv

UnpreparedTopics == Only("requirements.authoritative") \cup HandoverTopics

\* The context of the verification agent fails, after the requirements were published.
LEMMA UnpreparedIsBroken ==
  ASSUME NEW b, NEW reg, Rest(b, reg)
  PROVE  LET c == Started(PublishSource(b))
         IN  /\ Follows(b, c, UnpreparedTopics) /\ TasksStay(b, c) /\ Broken(c, reg)
             /\ HasFact(c, "agent.verification.result") =>
                  HasFact(b, "agent.verification.result")
<1> DEFINE p == PublishSource(b)
           c == Started(p)
<1>1. BoardOK(b)
  BY DEF Rest
<1>2. Follows(b, p, Only("requirements.authoritative")) /\ p.tasks = b.tasks
  BY <1>1, SourcePublished
<1>3. Rest(p, reg) /\ BoardOK(p)
  BY <1>2, RestStays DEF Follows
<1> HIDE DEF p
<1>4. Follows(p, c, HandoverTopics) /\ TasksStay(p, c) /\ Broken(c, reg)
  BY <1>3, StartedTask, StartedIsBroken
<1> HIDE DEF c
<1>5. Follows(b, c, UnpreparedTopics)
  BY <1>1, <1>2, <1>4, FollowsOn DEF UnpreparedTopics
<1>6. TasksStay(b, c)
  BY <1>2, <1>4 DEF TasksStay
<1>7. "agent.verification.result" \notin UnpreparedTopics
  BY DEF Only, HandoverTopics, UnpreparedTopics
<1>8. HasFact(c, "agent.verification.result") => HasFact(b, "agent.verification.result")
  BY <1>1, <1>5, <1>7, FollowsFacts
<1>9. QED
  BY <1>4, <1>5, <1>6, <1>8 DEF c, p

LEMMA VerificationContextFailsStep ==
  CollaborationInv /\ VerificationContextFails => CollaborationInv'
<1> SUFFICES ASSUME CollaborationInv, VerificationContextFails PROVE CollaborationInv'
  OBVIOUS
<1>1. /\ phase' = "aborted" /\ board' = Started(PublishSource(board))
      /\ UNCHANGED <<registry, arm, planning, design, carried, planned, goal>>
  BY DEF VerificationContextFails, ContextFails, assurance
<1>2. PipelineOK /\ Rest(board, registry)
  BY DEF CollaborationInv, WorkInv, VerificationContextFails
<1>3. /\ Follows(board, board', UnpreparedTopics) /\ TasksStay(board, board')
      /\ Broken(board', registry')
  BY <1>1, <1>2, UnpreparedIsBroken
<1>4. PipelineOK' /\ WorkInv'
  BY <1>1, <1>2, <1>3 DEF PipelineOK, WorkInv
<1>5. "agent.verification.result" \notin UnpreparedTopics
  BY DEF Only, HandoverTopics, UnpreparedTopics
<1>6. QED
  BY <1>1, <1>3, <1>4, <1>5, HandoffStep

\* What the controller has done when it comes to assurance.
LEMMA VerificationStepsRest ==
  ASSUME BoardOK(board), Rest(board, registry), NEW verified \in VerificationSteps(EnsureReady(board))
  PROVE  /\ \E S : Follows(board, verified.board, S)
         /\ TasksStay(board, verified.board) /\ verified.ok \in BOOLEAN
         /\ verified.ok => /\ Rest(verified.board, verified.registry)
                           /\ HasFact(verified.board, "agent.verification.result")
         /\ ~verified.ok => /\ Broken(verified.board, verified.registry)
                            /\ HasFact(verified.board, "agent.verification.result") =>
                                 HasFact(board, "agent.verification.result")
<1> DEFINE e == EnsureReady(board)
           ready == Only("model.terminal.ready")
<1>1. Follows(board, e, ready) /\ e.tasks = board.tasks
  BY ReadyEnsured
<1>2. BoardOK(e) /\ Rest(e, registry)
  BY <1>1, RestStays DEF Follows
<1> HIDE DEF e, ready
<1>3. verified \in VerificationSteps(e)
  BY DEF e
<1>4. HasFact(e, "agent.verification.result") => HasFact(board, "agent.verification.result")
  <2>1. "agent.verification.result" \notin ready
    BY DEF ready, Only
  <2>2. QED
    BY <1>1, <2>1, FollowsFacts
<1>5. CASE HasFact(e, "agent.verification.result")
  <2>1. verified = [board |-> e, registry |-> registry, ok |-> TRUE]
    BY <1>3, <1>5 DEF VerificationSteps
  <2>2. QED
    BY <1>1, <1>2, <1>5, <2>1, Unmoved
<1>6. CASE ~HasFact(e, "agent.verification.result")
  <2>1. \/ \E prompt, reply \in TokenCounts : verified = Verified(e, registry, prompt, reply)
        \/ verified = [board |-> Started(PublishSource(e)), registry |-> registry, ok |-> FALSE]
    BY <1>3, <1>6 DEF VerificationSteps
  <2>2. /\ \E S : Follows(e, verified.board, S)
        /\ TasksStay(e, verified.board) /\ verified.ok \in BOOLEAN
        /\ verified.ok => /\ Rest(verified.board, verified.registry)
                          /\ HasFact(verified.board, "agent.verification.result")
        /\ ~verified.ok => /\ Broken(verified.board, verified.registry)
                           /\ HasFact(verified.board, "agent.verification.result") =>
                                HasFact(e, "agent.verification.result")
    <3>1. CASE \E prompt, reply \in TokenCounts : verified = Verified(e, registry, prompt, reply)
      BY <1>2, <3>1, VerifiedRests
    <3>2. CASE verified = [board |-> Started(PublishSource(e)), registry |-> registry, ok |-> FALSE]
      BY <1>2, <3>2, UnpreparedIsBroken
    <3>3. QED
      BY <2>1, <3>1, <3>2
  <2>3. \E S : Follows(board, verified.board, S)
    <3>1. PICK S : Follows(e, verified.board, S)
      BY <2>2
    <3>2. Follows(board, verified.board, ready \cup S)
      BY <1>1, <3>1, FollowsOn
    <3>3. QED
      BY <3>2
  <2>4. TasksStay(board, verified.board)
    BY <1>1, <2>2 DEF TasksStay
  <2>5. QED
    BY <1>4, <2>2, <2>3, <2>4
<1>7. QED
  BY <1>5, <1>6

LEMMA BuildArtifactsStep ==
  ASSUME CollaborationInv, NEW from, NEW to, BuildArtifacts(from, to),
         (from = "assured" /\ to = "generated") \/ (from = "explored" /\ to = "done")
  PROVE  CollaborationInv'
<1>1. /\ BoardOK(board) /\ PipelineOK /\ WorkInv /\ AuthorsInv /\ FactsInv
      /\ Rest(board, registry) /\ phase = from
  BY InvBoard DEF CollaborationInv, BuildArtifacts, WorkInv
<1>2. PICK verified \in VerificationSteps(EnsureReady(board)) :
       /\ board' = verified.board /\ registry' = verified.registry
       /\ planned' = IF verified.ok /\ ~HasFact(board, "agent.verification.result")
                     THEN CurrentRevision(board) ELSE planned
       /\ \/ /\ ~verified.ok
             /\ phase' = "aborted" /\ UNCHANGED <<carried, assurance>>
          \/ /\ verified.ok /\ (arm = "R1" \/ HasFact(board, "analysis.ag_trace"))
             /\ phase' = to /\ carried' = Returned(verified.board) /\ UNCHANGED assurance
          \/ /\ verified.ok /\ arm = "R2" /\ ~HasFact(board, "analysis.ag_trace")
             /\ phase' = "assuring" /\ goal' = to /\ repairs' = 0 /\ UNCHANGED carried
  BY DEF BuildArtifacts
<1>3. UNCHANGED <<arm, planning, design>>
  BY DEF BuildArtifacts
<1>4. PICK S : Follows(board, board', S)
  BY <1>1, <1>2, VerificationStepsRest
<1>5. /\ TasksStay(board, board') /\ verified.ok \in BOOLEAN
      /\ verified.ok => /\ Rest(board', registry')
                        /\ HasFact(board', "agent.verification.result")
      /\ ~verified.ok => /\ Broken(board', registry')
                         /\ HasFact(board', "agent.verification.result") =>
                              HasFact(board, "agent.verification.result")
  BY <1>1, <1>2, VerificationStepsRest
<1>6. /\ CurrentRevision(board') = CurrentRevision(board)
      /\ \A topic : HasFact(board, topic) => HasFact(board', topic)
  BY <1>1, <1>4, FollowsFacts
<1>7. AuthorsInv'
  BY <1>1, <1>3, <1>4, <1>5, AuthorsKept
<1>8. HasFact(board', "agent.verification.result") => planned' = CurrentRevision(board')
  BY <1>1, <1>2, <1>5, <1>6 DEF FactsInv
<1>9. CASE ~verified.ok
  <2>1. phase' = "aborted" /\ goal' = goal
    BY <1>2, <1>9 DEF assurance
  <2>2. PipelineOK' /\ WorkInv'
    BY <1>1, <1>3, <1>5, <1>9, <2>1 DEF PipelineOK, WorkInv
  <2>3. FactsInv'
    BY <1>8, <2>1 DEF FactsInv, ReturnedIsCommitted
  <2>4. QED
    BY <1>7, <2>2, <2>3 DEF CollaborationInv
<1>10. CASE verified.ok /\ (arm = "R1" \/ HasFact(board, "analysis.ag_trace"))
  <2>1. /\ phase' = to /\ carried' = CurrentText(board') /\ goal' = goal
        /\ arm = "R2" => HasFact(board', "analysis.ag_trace")
    BY <1>1, <1>2, <1>6, <1>10 DEF Returned, assurance, PipelineOK
  <2>2. PipelineOK' /\ WorkInv'
    BY <1>1, <1>3, <1>5, <1>10, <2>1 DEF PipelineOK, WorkInv
  <2>3. FactsInv'
    BY <1>3, <1>5, <1>8, <1>10, <2>1 DEF FactsInv, ReturnedIsCommitted
  <2>4. QED
    BY <1>7, <2>2, <2>3 DEF CollaborationInv
<1>11. CASE verified.ok /\ arm = "R2" /\ ~HasFact(board, "analysis.ag_trace")
  <2>1. phase' = "assuring" /\ goal' = to
    BY <1>2, <1>11
  <2>2. to = "done"
    BY <1>1, <1>11 DEF FactsInv
  <2>3. PipelineOK' /\ WorkInv'
    BY <1>1, <1>3, <1>5, <1>11, <2>1, <2>2 DEF PipelineOK, WorkInv
  <2>4. FactsInv'
    BY <1>8, <2>1, <2>2 DEF FactsInv, ReturnedIsCommitted
  <2>5. QED
    BY <1>7, <2>3, <2>4 DEF CollaborationInv
<1>12. QED
  BY <1>2, <1>9, <1>10, <1>11

LEMMA AssuranceSteps ==
  ASSUME CollaborationInv,
         Assurance \/ AcceptRepair \/ EndAssurance \/ AssuranceRaises \/ ArtifactsMismatch
  PROVE  CollaborationInv'
<1>1. BoardOK(board) /\ PipelineOK /\ WorkInv /\ AuthorsInv /\ FactsInv
  BY InvBoard DEF CollaborationInv
<1> DEFINE c == PublishFact(board, "analysis.ag_trace")
           trace == Only("analysis.ag_trace")
<1>2. "analysis.ag_trace" \in Topics /\ "agent.verification.result" \notin trace
  BY DEF Topics, Only
<1> HIDE DEF trace
<1>3. /\ Follows(board, c, trace) /\ c.tasks = board.tasks
      /\ HasFact(c, "analysis.ag_trace")
  BY <1>1, <1>2, FactPublished DEF trace
<1> HIDE DEF c
<1>4. /\ BoardOK(c) /\ c.revisions = board.revisions
      /\ CurrentRevision(c) = CurrentRevision(board) /\ CurrentText(c) = CurrentText(board)
      /\ HasFact(c, "agent.verification.result") => HasFact(board, "agent.verification.result")
  BY <1>1, <1>2, <1>3, FollowsFacts
<1>5. phase = "assuring" => Rest(board, registry) /\ Rest(c, registry)
  BY <1>1, <1>3, <1>4, RestStays DEF WorkInv
<1>6. CASE Assurance
  <2>1. /\ phase = "verified" /\ UNCHANGED <<board, registry, arm, planning, design, carried, planned>>
        /\ (phase' = "assured" /\ goal' = goal /\ arm = "R1")
              \/ (phase' = "assuring" /\ goal' = "assured")
    BY <1>1, <1>6 DEF Assurance, assurance, PipelineOK
  <2>2. PipelineOK' /\ WorkInv' /\ AuthorsInv'
    BY <1>1, <2>1 DEF PipelineOK, WorkInv, AuthorsInv
  <2>3. FactsInv'
    BY <1>1, <2>1 DEF FactsInv, ReturnedIsCommitted
  <2>4. QED
    BY <2>2, <2>3 DEF CollaborationInv
<1>7. CASE AcceptRepair
  <2>1. /\ phase = "assuring" /\ phase' = "assuring"
        /\ UNCHANGED <<registry, arm, planning, design, carried, planned, goal>>
    BY <1>7 DEF AcceptRepair
  <2>2. PICK text \in Texts :
          board' = Commit(c, text, CurrentRevision(board), CurrentText(board), 0)
    BY <1>7 DEF AcceptRepair, c
  <2>3. board' = c \/ Advances(c, board', text, 0)
    BY <1>4, <2>2, CommitOutcome
  <2>4. BoardOK(board') /\ board'.tasks = c.tasks
    BY <1>4, <2>3 DEF Advances
  <2>5. Rest(board', registry)
    BY <1>5, <2>1, <2>4, RestStays
  <2>6. PipelineOK' /\ WorkInv'
    BY <1>1, <2>1, <2>5 DEF PipelineOK, WorkInv
  <2>7. CASE board' = c
    <3>1. AuthorsInv'
      BY <1>1, <1>3, <2>1, <2>7, Unmoved, AuthorsKept
    <3>2. FactsInv'
      BY <1>1, <1>4, <2>1, <2>7 DEF FactsInv, ReturnedIsCommitted
    <3>3. QED
      BY <2>6, <3>1, <3>2 DEF CollaborationInv
  <2>8. CASE Advances(c, board', text, 0)
    <3>1. Follows(board', board', {})
      BY <2>4, FollowsSelf
    <3>2. AuthorsInv'
      BY <1>1, <1>3, <1>4, <2>1, <2>8, <3>1, NobodyAuthors
    <3>3. ~HasFact(board', "agent.verification.result")
      BY <2>8 DEF Advances
    <3>4. FactsInv'
      BY <1>1, <2>1, <3>3 DEF FactsInv, ReturnedIsCommitted
    <3>5. QED
      BY <2>6, <3>2, <3>4 DEF CollaborationInv
  <2>9. QED
    BY <2>3, <2>7, <2>8
<1>8. CASE EndAssurance
  <2>1. /\ phase = "assuring" /\ phase' = goal /\ board' = c
        /\ goal # "assured" => carried' = CurrentText(board')
        /\ UNCHANGED <<registry, arm, planning, design, planned, goal>>
    BY <1>8 DEF EndAssurance, Returned, assurance, c
  <2>2. goal \in {"assured", "done"}
    BY <1>1, <2>1 DEF PipelineOK, FactsInv
  <2>3. PipelineOK' /\ WorkInv'
    BY <1>1, <1>5, <2>1, <2>2 DEF PipelineOK, WorkInv
  <2>4. AuthorsInv'
    BY <1>1, <1>3, <2>1, Unmoved, AuthorsKept
  <2>5. FactsInv'
    BY <1>1, <1>3, <1>4, <2>1, <2>2 DEF FactsInv, ReturnedIsCommitted
  <2>6. QED
    BY <2>3, <2>4, <2>5 DEF CollaborationInv
<1>9. CASE AssuranceRaises \/ ArtifactsMismatch
  <2>1. /\ phase \in {"assuring", "assured", "explored"} /\ phase' = "aborted"
        /\ UNCHANGED <<board, registry, arm, planning, design, carried, planned, goal>>
    BY <1>9 DEF AssuranceRaises, ArtifactsMismatch, assurance
  <2>2. Broken(board, registry)
    BY <1>1, <2>1, RestIsBroken DEF WorkInv
  <2>3. PipelineOK' /\ WorkInv' /\ AuthorsInv'
    BY <1>1, <2>1, <2>2 DEF PipelineOK, WorkInv, AuthorsInv
  <2>4. FactsInv'
    BY <1>1, <2>1 DEF FactsInv, ReturnedIsCommitted
  <2>5. QED
    BY <2>3, <2>4 DEF CollaborationInv
<1>10. QED
  BY <1>6, <1>7, <1>8, <1>9

LEMMA NextInv == CollaborationInv /\ [CollaborationNext]_vars => CollaborationInv'
<1> SUFFICES ASSUME CollaborationInv, [CollaborationNext]_vars PROVE CollaborationInv'
  OBVIOUS
<1>1. CASE GenerateCommit
  BY <1>1, TerminalCommitStep DEF GenerateCommit
<1>2. CASE ExploreCommit
  BY <1>2, TerminalCommitStep DEF ExploreCommit
<1>3. CASE GenerateArtifacts
  BY <1>3, BuildArtifactsStep DEF GenerateArtifacts
<1>4. CASE ExploreArtifacts
  BY <1>4, BuildArtifactsStep DEF ExploreArtifacts
<1>5. CASE UNCHANGED vars
  BY <1>5 DEF vars, CollaborationInv, PipelineOK, WorkInv, AuthorsInv, FactsInv,
              ReturnedIsCommitted
<1>6. QED
  BY <1>1, <1>2, <1>3, <1>4, <1>5, PlanningSteps, DesignSteps, FinalizeDesignStep,
     VerificationStep, VerificationContextFailsStep, AssuranceSteps
  DEF CollaborationNext

LEMMA Invariant == CollaborationSpec => []CollaborationInv
BY InitInv, NextInv, PTL DEF CollaborationSpec

-----------------------------------------------------------------------------
(* What the invariant says                                                 *)

\* WritersCurrent, for any texts and budgets: assert_current of a session that may
\* still be written to never refuses.
THEOREM WritersStayCurrent == CollaborationSpec => []WritersCurrent
<1>1. CollaborationInv => WritersCurrent
  <2> SUFFICES ASSUME CollaborationInv, NEW s \in DOMAIN registry.sessions,
                      registry.sessions[s].status = "OPEN"
               PROVE  registry.sessions[s].base = CurrentBase(board)
    BY DEF WritersCurrent
  <2>1. WorkInv /\ s \in 1 .. Len(registry.sessions)
    BY InvBoard, RegistryTypes DEF CollaborationInv
  <2>2. QED
    BY <2>1 DEF WorkInv, Work, Rest, Broken, Done, Abandoned, AtWork
<1>2. QED
  BY <1>1, Invariant, PTL

\* HandoffsAccounted: a handoff is over when the next phase begins, and the history
\* names the task of every design that was accepted.
THEOREM HandoffsStayAccounted == CollaborationSpec => []HandoffsAccounted
<1>1. CollaborationInv => HandoffsAccounted
  <2> SUFFICES ASSUME CollaborationInv PROVE HandoffsAccounted
    OBVIOUS
  <2>1. /\ WorkInv /\ AuthorsInv /\ BoardOK(board)
        /\ DOMAIN registry.sessions = 1 .. Len(registry.sessions)
        /\ DOMAIN board.tasks = 1 .. Len(board.tasks)
        /\ \A s \in 1 .. Len(registry.sessions) : registry.sessions[s].task = s
    BY InvBoard, RegistryTypes, BoardTypes DEF CollaborationInv
  <2>2. WorkSettled
    <3> SUFFICES ASSUME phase \notin {"planning", "designing"} PROVE WorkSettled
      BY DEF WorkSettled
    <3>1. CASE phase = "aborted"
      <4>1. Broken(board, registry)
        BY <2>1, <3>1 DEF WorkInv
      <4>2. \A s \in 1 .. Len(registry.sessions) : registry.sessions[s].status # "OPEN"
        BY <4>1 DEF Broken, Done, Abandoned
      <4>3. ASSUME NEW t \in 1 .. Len(board.tasks),
                   board.tasks[t].status \notin {"COMPLETED", "REJECTED"}
            PROVE  /\ t = Len(board.tasks)
                   /\ \A s \in 1 .. Len(registry.sessions) :
                        registry.sessions[s].task = t => registry.sessions[s].status = "EXPIRED"
        BY <4>1, <4>3 DEF Broken, Done, Abandoned
      <4>4. QED
        BY <2>1, <3>1, <4>2, <4>3 DEF WorkSettled
    <3>2. CASE phase # "aborted"
      <4>1. Rest(board, registry)
        BY <2>1, <3>2 DEF WorkInv
      <4>2. QED
        BY <2>1, <4>1 DEF WorkSettled, Rest, Paired, Done
    <3>3. QED
      BY <3>1, <3>2
  <2>3. RevisionsHaveAuthors
    <3>1. DOMAIN board.revisions = 1 .. Len(board.revisions)
      BY <2>1, BoardTypes
    <3>2. ASSUME design.status = "COMPLETED"
          PROVE  Cardinality({i \in DOMAIN board.revisions :
                                board.revisions[i].task = design.task}) = 1
      <4>1. PICK i \in 1 .. Len(board.revisions) :
              /\ board.revisions[i].task = design.task
              /\ \A j \in 1 .. Len(board.revisions) :
                   board.revisions[j].task = design.task => j = i
        BY <2>1, <3>2 DEF AuthorsInv, SoleAuthor
      <4>2. {k \in DOMAIN board.revisions : board.revisions[k].task = design.task} = {i}
        BY <3>1, <4>1
      <4>3. QED
        BY <4>2, FS_Singleton
    <3>3. QED
      BY <2>1, <3>1, <3>2 DEF RevisionsHaveAuthors, AuthorsInv, AuthorsOK
  <2>4. QED
    BY <2>2, <2>3 DEF HandoffsAccounted
<1>2. QED
  BY <1>1, Invariant, PTL

\* AcceptedWithTranscript: a design or a verification plan counts as COMPLETED only
\* when its session took every message.
THEOREM AcceptedAlwaysWithTranscript == CollaborationSpec => []AcceptedWithTranscript
<1>1. CollaborationInv => AcceptedWithTranscript
  <2> SUFFICES ASSUME CollaborationInv, NEW s \in DOMAIN registry.sessions,
                      registry.sessions[s].role \in {"DesignAgent", "VerificationAgent"},
                      board.tasks[registry.sessions[s].task].status = "COMPLETED"
               PROVE  registry.sessions[s].status = "COMPLETED"
    BY DEF AcceptedWithTranscript
  <2>1. WorkInv /\ s \in 1 .. Len(registry.sessions) /\ registry.sessions[s].task = s
    BY InvBoard, RegistryTypes DEF CollaborationInv
  <2>2. QED
    BY <2>1 DEF WorkInv, Work, Rest, Broken, Done, Abandoned, Accepted, AtWork
<1>2. QED
  BY <1>1, Invariant, PTL

\* ReturnedIsCommitted: the text that generate or explore returns is the committed one.
THEOREM ReturnedAlwaysCommitted == CollaborationSpec => []ReturnedIsCommitted
<1>1. CollaborationInv => ReturnedIsCommitted
  BY DEF CollaborationInv, FactsInv
<1>2. QED
  BY <1>1, Invariant, PTL

\* FactsDescribeModel: the terminal fact, the verification plan and the analysis are
\* about the revision that is returned, whatever repairs came in between.
THEOREM FactsAlwaysDescribeModel == CollaborationSpec => []FactsDescribeModel
<1>1. CollaborationInv => FactsDescribeModel
  BY DEF CollaborationInv, FactsInv, FactsDescribeModel
<1>2. QED
  BY <1>1, Invariant, PTL
=============================================================================
