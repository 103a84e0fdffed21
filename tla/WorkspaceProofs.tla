-------------------------- MODULE WorkspaceProofs --------------------------
(***************************************************************************)
(* Proofs about the two objects agents share, the board (BlackboardCalls)  *)
(* and the task sessions (TaskSessionCalls), under any caller; and about   *)
(* the controller that runs knowledge sources on a board (Controller).     *)
(*                                                                         *)
(* The board: the registry of protected blocks is exactly what the current *)
(* text defines; the checks of a commit compare with the registry only, so *)
(* without that invariant nothing follows about earlier revisions.  Then   *)
(* its record log: what is on the board stays, no commit forgets a         *)
(* requirement that was published before it, and the log replays.          *)
(*                                                                         *)
(* The sessions, for any tasks, roles, bases and budgets: every call       *)
(* either changes sessions in place, or opens a new one; the invariant is  *)
(* shown for these two shapes of a step and not call by call.              *)
(*                                                                         *)
(* The controller, for any sources, topics and effects: whatever a source  *)
(* does, the record log only grows; so what was visible when its           *)
(* activation record was published can be read back from the log for ever, *)
(* and the log, activated and the agenda tell the same story.              *)
(***************************************************************************)
EXTENDS BlackboardCalls, TaskSessionCalls, Controller, TLAPS


\* A board's fields keep their types through an update of one of them.
LEMMA LogFields ==
  ASSUME NEW b \in Board, NEW note \in Note, NEW rev \in Nat, NEW task \in Nat,
         NEW status \in TaskStatus \cup {"NONE"}
  PROVE  /\ Log(b, note, rev, task, status) \in Board
         /\ Log(b, note, rev, task, status).revisions = b.revisions
         /\ Log(b, note, rev, task, status).protected = b.protected
         /\ Log(b, note, rev, task, status).tasks = b.tasks
<1> DEFINE r == [type |-> note.type, topic |-> note.topic, reqs |-> note.reqs,
                 bound |-> note.bound, rev |-> rev, task |-> task,
                 status |-> status]
<1>1. r \in Record
  BY DEF Record, Note
<1>2. Append(b.records, r) \in Seq(Record)
  BY <1>1 DEF Board
<1> HIDE DEF r
<1>3. Log(b, note, rev, task, status) = [b EXCEPT !.records = Append(b.records, r)]
  BY DEF Log, r
<1>4. QED
  BY <1>2, <1>3 DEF Board, r

LEMMA NoReqsType == NoReqs \in PartialFunctions(Names, Docs)
<1>1. NoReqs \in [{} -> Docs]
  BY DEF NoReqs
<1>2. {} \in SUBSET Names
  OBVIOUS
<1>3. QED
  BY <1>1, <1>2 DEF PartialFunctions

\* The registry stays a partial function from names to bodies.
LEMMA ProtectType ==
  ASSUME NEW p \in PartialFunctions(Names, Bodies), NEW text \in Texts
  PROVE  Protect(p, text) \in PartialFunctions(Names, Bodies)
<1>1. PICK D \in SUBSET Names : p \in [D -> Bodies]
  BY DEF PartialFunctions
<1>2. PICK E \in SUBSET Names : Identities[text] \in [E -> Bodies]
  BY TextsAssumption DEF PartialFunctions
<1>3. Protect(p, text) \in [D \cup E -> Bodies]
  BY <1>1, <1>2 DEF Protect
<1>4. D \cup E \in SUBSET Names
  OBVIOUS
<1>5. QED
  BY <1>3, <1>4 DEF PartialFunctions

\* A commit that passes the protection check leaves a registry equal to what the
\* new text defines: extending the old one adds nothing the text lacks.
LEMMA ProtectGivesIdentities ==
  ASSUME NEW b \in Board, NEW text \in Texts, ProtectionHolds(b, text)
  PROVE  Protect(b.protected, text) = Identities[text]
<1>1. PICK D \in SUBSET Names : b.protected \in [D -> Bodies]
  BY DEF PartialFunctions, Board
<1>2. PICK E \in SUBSET Names : Identities[text] \in [E -> Bodies]
  BY TextsAssumption DEF PartialFunctions
<1>3. D \subseteq E /\ \A n \in D : Identities[text][n] = b.protected[n]
  BY <1>1, <1>2 DEF ProtectionHolds
<1>4. D \cup E = E
  BY <1>3
<1>5. Protect(b.protected, text) =
        [n \in E |-> IF n \in D THEN b.protected[n] ELSE Identities[text][n]]
  BY <1>1, <1>2, <1>4 DEF Protect
<1>6. QED
  BY <1>2, <1>3, <1>5

-----------------------------------------------------------------------------
(* What each method does to a well-formed board                            *)

LEMMA PublishedFields ==
  ASSUME NEW b \in Board, b.revisions # <<>>, NEW note \in Notes,
         NEW rev \in 0 .. CurrentRevision(b)
  PROVE  /\ Published(b, note, rev) \in Board
         /\ Published(b, note, rev).revisions = b.revisions
         /\ Published(b, note, rev).protected = b.protected
         /\ Published(b, note, rev).tasks = b.tasks
<1> DEFINE c == IF rev = CurrentRevision(b) THEN b ELSE [b EXCEPT !.permitted = @ + 1]
<1> DEFINE d == [b EXCEPT !.permitted = @ + 1]
<1>p. /\ d \in Board /\ d.revisions = b.revisions /\ d.protected = b.protected
      /\ d.tasks = b.tasks
  BY SMTT(30) DEF Board
<1>1. /\ c \in Board /\ c.revisions = b.revisions /\ c.protected = b.protected
      /\ c.tasks = b.tasks
  <2> HIDE DEF d
  <2>1. c = b \/ c = d
    BY DEF d
  <2>2. QED
    BY <1>p, <2>1
<1>2. rev \in Nat
  BY DEF CurrentRevision, Board
<1> HIDE DEF c
<1>3. Published(b, note, rev) = Log(c, note, rev, 0, "NONE")
  BY DEF Published, c
<1>4. note \in Note
  BY NotesAssumption
<1>5. 0 \in Nat /\ "NONE" \in TaskStatus \cup {"NONE"}
  OBVIOUS
<1>6. /\ Log(c, note, rev, 0, "NONE") \in Board
      /\ Log(c, note, rev, 0, "NONE").revisions = c.revisions
      /\ Log(c, note, rev, 0, "NONE").protected = c.protected
      /\ Log(c, note, rev, 0, "NONE").tasks = c.tasks
  BY <1>1, <1>2, <1>4, <1>5, LogFields
<1>7. QED
  BY <1>1, <1>3, <1>6

LEMMA CurrentTextType ==
  ASSUME NEW b \in Board, b.revisions # <<>>
  PROVE  CurrentRevision(b) \in Nat /\ CurrentText(b) \in Texts
<1>1. Len(b.revisions) \in Nat \ {0}
  BY DEF Board
<1>2. b.revisions[Len(b.revisions)] \in Revision
  BY <1>1 DEF Board
<1>3. CurrentRevision(b) \in Nat /\ CurrentRevision(b) + 1 = Len(b.revisions)
  BY <1>1 DEF CurrentRevision
<1>4. QED
  BY <1>2, <1>3 DEF CurrentText, ModelAt, Revision

LEMMA BoardNoteType ==
  ASSUME NEW type \in {"CONTROL", "MODEL"},
         NEW topic \in {"task.created", "task.transition", "model.committed"}
  PROVE  BoardNote(type, topic) \in Note
  BY NoReqsType DEF BoardNote, Note

LEMMA CreatedTaskFields ==
  ASSUME NEW b \in Board, b.revisions # <<>>
  PROVE  /\ CreatedTask(b) \in Board
         /\ CreatedTask(b).revisions = b.revisions
         /\ CreatedTask(b).protected = b.protected
         /\ CreatedTask(b).tasks =
              Append(b.tasks, [status |-> "PENDING", rev |-> CurrentRevision(b),
                               digest |-> CurrentText(b)])
<1> DEFINE task == [status |-> "PENDING", rev |-> CurrentRevision(b),
                    digest |-> CurrentText(b)]
           c == [b EXCEPT !.tasks = Append(b.tasks, task)]
<1>1. task \in Task
  BY CurrentTextType DEF Task, TaskStatus
<1>2. Append(b.tasks, task) \in Seq(Task)
  BY <1>1 DEF Board
<1> HIDE DEF task
<1>3. /\ c \in Board /\ c.revisions = b.revisions /\ c.protected = b.protected
      /\ c.tasks = Append(b.tasks, task)
  BY <1>2 DEF Board
<1>4. Len(b.tasks) + 1 \in Nat /\ CurrentRevision(b) \in Nat
  BY CurrentTextType DEF Board
<1>5. CreatedTask(b) = Log(c, BoardNote("CONTROL", "task.created"),
                           CurrentRevision(b), Len(b.tasks) + 1, "PENDING")
  BY DEF CreatedTask, task
<1> HIDE DEF c
<1>6. /\ BoardNote("CONTROL", "task.created") \in Note
      /\ "PENDING" \in TaskStatus \cup {"NONE"}
  BY BoardNoteType DEF TaskStatus
<1>c. c \in Board
  BY <1>3
<1>7. /\ CreatedTask(b) \in Board
      /\ CreatedTask(b).revisions = c.revisions
      /\ CreatedTask(b).protected = c.protected
      /\ CreatedTask(b).tasks = c.tasks
  BY <1>c, <1>4, <1>5, <1>6, LogFields
<1>8. QED
  BY <1>3, <1>7 DEF task

LEMMA MovedTaskFields ==
  ASSUME NEW b \in Board, b.revisions # <<>>, NEW t \in DOMAIN b.tasks,
         NEW status \in TaskStatus
  PROVE  /\ MovedTask(b, t, status) \in Board
         /\ MovedTask(b, t, status).revisions = b.revisions
         /\ MovedTask(b, t, status).protected = b.protected
         /\ MovedTask(b, t, status).tasks = [b.tasks EXCEPT ![t].status = status]
<1> DEFINE c == [b EXCEPT !.tasks[t].status = status]
<1>1. [b.tasks EXCEPT ![t].status = status] \in Seq(Task)
  <2>1. b.tasks \in Seq(Task) /\ b.tasks[t] \in Task
    BY DEF Board
  <2>2. [b.tasks[t] EXCEPT !.status = status] \in Task
    BY <2>1 DEF Task
  <2>3. QED
    BY <2>1, <2>2
<1>2. /\ c \in Board /\ c.revisions = b.revisions /\ c.protected = b.protected
      /\ c.tasks = [b.tasks EXCEPT ![t].status = status]
  BY <1>1 DEF Board
<1>3. t \in Nat /\ CurrentRevision(b) \in Nat
  BY CurrentTextType DEF Board
<1>4. MovedTask(b, t, status) =
        Log(c, BoardNote("CONTROL", "task.transition"), CurrentRevision(b), t, status)
  BY DEF MovedTask
<1> HIDE DEF c
<1>n. /\ BoardNote("CONTROL", "task.transition") \in Note
      /\ status \in TaskStatus \cup {"NONE"}
  BY BoardNoteType
<1>c. c \in Board
  BY <1>2
<1>5. /\ MovedTask(b, t, status) \in Board
      /\ MovedTask(b, t, status).revisions = c.revisions
      /\ MovedTask(b, t, status).protected = c.protected
      /\ MovedTask(b, t, status).tasks = c.tasks
  BY <1>c, <1>3, <1>4, <1>n, LogFields
<1>6. QED
  BY <1>2, <1>5

LEMMA CommittedModelFields ==
  ASSUME NEW b \in Board, b.revisions # <<>>, NEW text \in Texts, NEW task \in Nat
  PROVE  /\ CommittedModel(b, text, task) \in Board
         /\ CommittedModel(b, text, task).revisions =
              Append(b.revisions, [text |-> text, task |-> task])
         /\ CommittedModel(b, text, task).protected = Protect(b.protected, text)
         /\ CommittedModel(b, text, task).tasks = b.tasks
<1> DEFINE rv == [text |-> text, task |-> task]
           p == Protect(b.protected, text)
           c == [b EXCEPT !.revisions = Append(b.revisions, rv), !.protected = p]
<1>1. Append(b.revisions, rv) \in Seq(Revision)
  BY DEF Board, Revision
<1>2. p \in PartialFunctions(Names, Bodies)
  BY ProtectType DEF Board
<1> HIDE DEF p, rv
<1>3. /\ c \in Board /\ c.revisions = Append(b.revisions, rv)
      /\ c.protected = p /\ c.tasks = b.tasks
  BY <1>1, <1>2 DEF Board
<1>4. CurrentRevision(b) + 1 \in Nat
  BY CurrentTextType
<1>5. CommittedModel(b, text, task) =
        Log(c, BoardNote("MODEL", "model.committed"), CurrentRevision(b) + 1, task, "NONE")
  BY DEF CommittedModel, p, rv
<1> HIDE DEF c
<1>6. QED
  BY <1>3, <1>4, <1>5, BoardNoteType, LogFields DEF p, rv
-----------------------------------------------------------------------------
(* Type correctness and the registry                                       *)

ProtectionInv == BoardTypeOK /\ ProtectionIsCurrent

LEMMA InitProtection == BoardInit => ProtectionInv
<1> SUFFICES ASSUME BoardInit PROVE ProtectionInv
  OBVIOUS
<1>1. /\ board.revisions = <<[text |-> InitialText, task |-> 0]>>
      /\ board.records = <<>> /\ board.tasks = <<>>
      /\ board.protected = Protect(NoReqs, InitialText)
      /\ board.rejected = 0 /\ board.permitted = 0
      /\ board = [revisions |-> board.revisions, records |-> board.records,
                  tasks |-> board.tasks, protected |-> board.protected,
                  rejected |-> board.rejected, permitted |-> board.permitted]
  BY DEF BoardInit, NewBoard
<1>2. NoReqs \in PartialFunctions(Names, Bodies)
  <2>1. NoReqs \in [{} -> Bodies] /\ {} \in SUBSET Names
    BY DEF NoReqs
  <2>2. QED
    BY <2>1 DEF PartialFunctions
<1>3. board.protected \in PartialFunctions(Names, Bodies)
  BY <1>1, <1>2, ProtectType, TextsAssumption
<1>4. board.revisions \in Seq(Revision) /\ board.revisions # <<>>
  BY <1>1, TextsAssumption DEF Revision
<1>5. board \in Board
  <2>1. board.records \in Seq(Record) /\ board.tasks \in Seq(Task)
    BY <1>1
  <2>2. board.rejected \in Nat /\ board.permitted \in Nat
    BY <1>1
  <2>3. QED
    BY <1>1, <1>3, <1>4, <2>1, <2>2 DEF Board
<1>6. CurrentText(board) = InitialText
  BY <1>1 DEF CurrentText, ModelAt, CurrentRevision
<1>7. board.protected = Identities[InitialText]
  <2>1. PICK E \in SUBSET Names : Identities[InitialText] \in [E -> Bodies]
    BY TextsAssumption DEF PartialFunctions
  <2>2. Protect(NoReqs, InitialText) = [n \in E |-> Identities[InitialText][n]]
    BY <2>1 DEF Protect, NoReqs
  <2>3. QED
    BY <1>1, <2>1, <2>2
<1>8. QED
  BY <1>4, <1>5, <1>6, <1>7 DEF ProtectionInv, BoardTypeOK, ProtectionIsCurrent

\* A call that leaves revisions and registry alone keeps the invariant.
LEMMA SameModels ==
  ASSUME ProtectionInv, board' \in Board,
         board'.revisions = board.revisions, board'.protected = board.protected
  PROVE  ProtectionInv'
  BY DEF ProtectionInv, BoardTypeOK, ProtectionIsCurrent, CurrentText, ModelAt,
         CurrentRevision

LEMMA RefusedFields ==
  ASSUME NEW b \in Board
  PROVE  /\ Refused(b) \in Board
         /\ Refused(b).revisions = b.revisions
         /\ Refused(b).protected = b.protected
         /\ Refused(b).tasks = b.tasks
<1>1. b.rejected + 1 \in Nat
  BY DEF Board
<1>2. Refused(b) = [b EXCEPT !.rejected = b.rejected + 1]
  BY DEF Refused
<1>3. QED
  BY <1>1, <1>2 DEF Board

LEMMA PublishCallStep == ProtectionInv /\ Publish => ProtectionInv'
<1> SUFFICES ASSUME ProtectionInv, Publish PROVE ProtectionInv'
  OBVIOUS
<1>1. board \in Board /\ board.revisions # <<>>
  BY DEF ProtectionInv, BoardTypeOK
<1>2. PICK note \in Notes, rev \in 0 .. CurrentRevision(board) :
        board' = Published(board, note, rev) \/ board' = Refused(board)
  BY DEF Publish
<1>3. QED
  BY <1>1, <1>2, PublishedFields, RefusedFields, SameModels

LEMMA CreateTaskStep == ProtectionInv /\ CreateTask => ProtectionInv'
  BY CreatedTaskFields, SameModels
  DEF CreateTask, ProtectionInv, BoardTypeOK

LEMMA TransitionTaskStep == ProtectionInv /\ TransitionTask => ProtectionInv'
<1> SUFFICES ASSUME ProtectionInv, TransitionTask PROVE ProtectionInv'
  OBVIOUS
<1>1. board \in Board /\ board.revisions # <<>>
  BY DEF ProtectionInv, BoardTypeOK
<1>2. PICK t \in DOMAIN board.tasks, status \in TaskStatus :
        board' = MovedTask(board, t, status)
  BY DEF TransitionTask
<1>3. QED
  BY <1>1, <1>2, MovedTaskFields, SameModels

\* The revisions after a commit: unchanged, or one text longer that passed the check.
LEMMA CommitModelCases ==
  ASSUME BoardTypeOK, CommitModel
  PROVE  \/ board' = Refused(board)
         \/ board' = board
         \/ \E text \in Texts, task \in Nat :
              /\ SourcesAgree(board, text)
              /\ ProtectionHolds(board, text)
              /\ board' = CommittedModel(board, text, task)
<1>1. PICK text \in Texts, rev \in 0 .. CurrentRevision(board),
           of \in 0 .. CurrentRevision(board), task \in 0 .. Len(board.tasks) :
        board' = Commit(board, text, rev, ModelAt(board, of).text, task)
  BY DEF CommitModel
<1>2. task \in Nat
  OBVIOUS
<1>3. QED
  BY <1>1, <1>2 DEF Commit

LEMMA CommitModelStep == ProtectionInv /\ CommitModel => ProtectionInv'
<1> SUFFICES ASSUME ProtectionInv, CommitModel PROVE ProtectionInv'
  OBVIOUS
<1>1. BoardTypeOK /\ board \in Board /\ board.revisions # <<>>
  BY DEF ProtectionInv, BoardTypeOK
<1>2. CASE board' = Refused(board) \/ board' = board
  BY <1>1, <1>2, RefusedFields, SameModels
<1>3. CASE \E text \in Texts, task \in Nat :
             /\ SourcesAgree(board, text)
             /\ ProtectionHolds(board, text)
             /\ board' = CommittedModel(board, text, task)
  <2>1. PICK text \in Texts, task \in Nat :
          /\ ProtectionHolds(board, text)
          /\ board' = CommittedModel(board, text, task)
    BY <1>3
  <2>2. /\ board' \in Board
        /\ board'.revisions = Append(board.revisions, [text |-> text, task |-> task])
        /\ board'.protected = Protect(board.protected, text)
    BY <1>1, <2>1, CommittedModelFields
  <2>3. board'.protected = Identities[text]
    BY <1>1, <2>1, <2>2, ProtectGivesIdentities
  <2>4. /\ Len(board'.revisions) = Len(board.revisions) + 1
        /\ board'.revisions[Len(board.revisions) + 1] = [text |-> text, task |-> task]
        /\ Len(board.revisions) \in Nat
    BY <1>1, <2>2 DEF Board
  <2>5. CurrentRevision(board') + 1 = Len(board.revisions) + 1
    BY <2>4 DEF CurrentRevision
  <2>6. board'.revisions # <<>> /\ CurrentText(board') = text
    BY <2>4, <2>5 DEF CurrentText, ModelAt
  <2>7. QED
    BY <2>2, <2>3, <2>6 DEF ProtectionInv, BoardTypeOK, ProtectionIsCurrent
<1>4. QED
  BY <1>1, <1>2, <1>3, CommitModelCases

LEMMA NextProtection == ProtectionInv /\ [BoardNext]_board => ProtectionInv'
<1> SUFFICES ASSUME ProtectionInv, [BoardNext]_board PROVE ProtectionInv'
  OBVIOUS
<1>1. CASE Publish
  BY <1>1, PublishCallStep
<1>2. CASE CreateTask
  BY <1>2, CreateTaskStep
<1>3. CASE TransitionTask
  BY <1>3, TransitionTaskStep
<1>4. CASE CommitModel
  BY <1>4, CommitModelStep
<1>5. CASE UNCHANGED board
  BY <1>5 DEF ProtectionInv, BoardTypeOK, ProtectionIsCurrent, CurrentText, ModelAt,
              CurrentRevision
<1>6. QED
  BY <1>1, <1>2, <1>3, <1>4, <1>5 DEF BoardNext

\* The history variable aside, a step is one of the board.
LEMMA BoardSteps == [BoardNext]_boardVars => [BoardNext]_board
  BY DEF boardVars

LEMMA ProtectionAlways == BoardSpec => []ProtectionInv
  BY InitProtection, NextProtection, BoardSteps, PTL DEF BoardSpec

\* The board keeps its shape through every sequence of calls.
THEOREM TypeCorrect == BoardSpec => []BoardTypeOK
<1>1. ProtectionInv => BoardTypeOK
  BY DEF ProtectionInv
<1>2. QED
  BY <1>1, ProtectionAlways, PTL

\* The registry of protected blocks is always what the current model defines.
THEOREM ProtectionCorrect == BoardSpec => []ProtectionIsCurrent
<1>1. ProtectionInv => ProtectionIsCurrent
  BY DEF ProtectionInv
<1>2. QED
  BY <1>1, ProtectionAlways, PTL

-----------------------------------------------------------------------------
(* Requirement definitions are immutable, and the history is a RevisionLog *)

\* Every step either leaves the revisions alone or appends one text that keeps all
\* blocks of the current one.
LEMMA RevisionsStep ==
  ASSUME ProtectionInv, [BoardNext]_board
  PROVE  \/ board'.revisions = board.revisions
         \/ \E text \in Texts, task \in Nat :
              /\ board'.revisions =
                   Append(board.revisions, [text |-> text, task |-> task])
              /\ \A n \in DOMAIN Identities[CurrentText(board)] :
                   /\ n \in DOMAIN Identities[text]
                   /\ Identities[text][n] = Identities[CurrentText(board)][n]
<1>1. board \in Board /\ board.revisions # <<>> /\ BoardTypeOK
  BY DEF ProtectionInv, BoardTypeOK
<1>2. CASE Publish
  <2>1. PICK note \in Notes, rev \in 0 .. CurrentRevision(board) :
          board' = Published(board, note, rev) \/ board' = Refused(board)
    BY <1>2 DEF Publish
  <2>2. QED
    BY <1>1, <2>1, PublishedFields, RefusedFields
<1>3. CASE CreateTask
  BY <1>1, <1>3, CreatedTaskFields DEF CreateTask
<1>4. CASE TransitionTask
  <2>1. PICK t \in DOMAIN board.tasks, status \in TaskStatus :
          board' = MovedTask(board, t, status)
    BY <1>4 DEF TransitionTask
  <2>2. QED
    BY <1>1, <2>1, MovedTaskFields
<1>5. CASE CommitModel
  <2>1. CASE board' = Refused(board) \/ board' = board
    BY <1>1, <2>1, RefusedFields
  <2>2. CASE \E text \in Texts, task \in Nat :
               /\ SourcesAgree(board, text)
               /\ ProtectionHolds(board, text)
               /\ board' = CommittedModel(board, text, task)
    <3>1. PICK text \in Texts, task \in Nat :
            /\ ProtectionHolds(board, text)
            /\ board' = CommittedModel(board, text, task)
      BY <2>2
    <3>2. board'.revisions = Append(board.revisions, [text |-> text, task |-> task])
      BY <1>1, <3>1, CommittedModelFields
    <3>3. \A n \in DOMAIN Identities[CurrentText(board)] :
            /\ n \in DOMAIN Identities[text]
            /\ Identities[text][n] = Identities[CurrentText(board)][n]
      BY <3>1 DEF ProtectionHolds, ProtectionInv, ProtectionIsCurrent
    <3>4. QED
      BY <3>2, <3>3
  <2>3. QED
    BY <1>1, <1>5, <2>1, <2>2, CommitModelCases
<1>6. QED
  BY <1>2, <1>3, <1>4, <1>5 DEF BoardNext

\* What Append does to the texts of a history.
LEMMA AppendedTexts ==
  ASSUME NEW s \in Seq(Revision), NEW text \in Texts, NEW task \in Nat
  PROVE  LET t == Append(s, [text |-> text, task |-> task])
         IN  /\ DOMAIN t = 1 .. Len(s) + 1
             /\ \A i \in 1 .. Len(s) : t[i] = s[i]
             /\ t[Len(s) + 1].text = text
             /\ DOMAIN s = 1 .. Len(s) /\ Len(s) \in Nat
<1>1. [text |-> text, task |-> task] \in Revision
  BY DEF Revision
<1>2. [text |-> text, task |-> task].text = text
  OBVIOUS
<1> DEFINE r == [text |-> text, task |-> task]
<1> HIDE DEF r
<1>3. /\ DOMAIN Append(s, r) = 1 .. Len(s) + 1
      /\ \A i \in 1 .. Len(s) : Append(s, r)[i] = s[i]
      /\ Append(s, r)[Len(s) + 1] = r
      /\ DOMAIN s = 1 .. Len(s) /\ Len(s) \in Nat
  BY <1>1 DEF r
<1>4. QED
  BY <1>2, <1>3 DEF r

LEMMA CurrentTextIsLast ==
  ASSUME NEW b \in Board, b.revisions # <<>>
  PROVE  /\ Len(b.revisions) \in DOMAIN b.revisions
         /\ CurrentText(b) = b.revisions[Len(b.revisions)].text
<1>1. Len(b.revisions) \in Nat \ {0} /\ DOMAIN b.revisions = 1 .. Len(b.revisions)
  BY DEF Board
<1>2. CurrentRevision(b) + 1 = Len(b.revisions)
  BY <1>1 DEF CurrentRevision
<1>3. QED
  BY <1>1, <1>2 DEF CurrentText, ModelAt

ImmutableInv == ProtectionInv /\ DefinitionsImmutable

LEMMA NextImmutable == ImmutableInv /\ [BoardNext]_board => ImmutableInv'
<1> SUFFICES ASSUME ImmutableInv, [BoardNext]_board PROVE ImmutableInv'
  OBVIOUS
<1>1. ProtectionInv /\ DefinitionsImmutable /\ ProtectionInv'
  BY NextProtection DEF ImmutableInv
<1>2. board \in Board /\ board.revisions # <<>> /\ board.revisions \in Seq(Revision)
  BY <1>1 DEF ProtectionInv, BoardTypeOK, Board
<1>3. CASE board'.revisions = board.revisions
  BY <1>1, <1>3 DEF ImmutableInv, DefinitionsImmutable
<1>4. CASE \E text \in Texts, task \in Nat :
             /\ board'.revisions =
                  Append(board.revisions, [text |-> text, task |-> task])
             /\ \A n \in DOMAIN Identities[CurrentText(board)] :
                  /\ n \in DOMAIN Identities[text]
                  /\ Identities[text][n] = Identities[CurrentText(board)][n]
  <2>1. PICK text \in Texts, task \in Nat :
          /\ board'.revisions =
               Append(board.revisions, [text |-> text, task |-> task])
          /\ \A n \in DOMAIN Identities[CurrentText(board)] :
               /\ n \in DOMAIN Identities[text]
               /\ Identities[text][n] = Identities[CurrentText(board)][n]
    BY <1>4
  <2> DEFINE len == Len(board.revisions)
  <2>2. /\ DOMAIN board'.revisions = 1 .. len + 1
        /\ \A i \in 1 .. len : board'.revisions[i] = board.revisions[i]
        /\ board'.revisions[len + 1].text = text
        /\ DOMAIN board.revisions = 1 .. len /\ len \in Nat
    BY <1>2, <2>1, AppendedTexts
  <2>3. len \in DOMAIN board.revisions /\ CurrentText(board) = board.revisions[len].text
    BY <1>2, CurrentTextIsLast
  <2> HIDE DEF len
  <2>4. ASSUME NEW i \in 1 .. len + 1, NEW j \in 1 .. len + 1, i <= j,
               NEW n \in DOMAIN Identities[board'.revisions[i].text]
        PROVE  /\ n \in DOMAIN Identities[board'.revisions[j].text]
               /\ Identities[board'.revisions[j].text][n] =
                    Identities[board'.revisions[i].text][n]
    <3>1. CASE j <= len
      <4>1. i \in 1 .. len /\ j \in 1 .. len /\ i <= j
        BY <2>2, <2>4, <3>1
      <4>2. board'.revisions[i] = board.revisions[i] /\ board'.revisions[j] = board.revisions[j]
        BY <2>2, <4>1
      <4>3. i \in DOMAIN board.revisions /\ j \in DOMAIN board.revisions
        BY <2>2, <4>1
      <4>4. QED
        BY <1>1, <2>4, <4>1, <4>2, <4>3 DEF DefinitionsImmutable
    <3>2. CASE i = len + 1
      <4>1. j = len + 1
        BY <2>2, <2>4, <3>2
      <4>2. QED
        BY <2>4, <3>2, <4>1
    <3>3. CASE i <= len /\ j = len + 1
      <4>1. i \in DOMAIN board.revisions /\ i <= len
        BY <2>2, <3>3
      <4>2. n \in DOMAIN Identities[board.revisions[i].text]
        BY <2>2, <2>4, <3>3
      <4>3. /\ n \in DOMAIN Identities[board.revisions[len].text]
            /\ Identities[board.revisions[len].text][n] =
                 Identities[board.revisions[i].text][n]
        BY <1>1, <2>3, <4>1, <4>2 DEF DefinitionsImmutable
      <4>4. /\ n \in DOMAIN Identities[text]
            /\ Identities[text][n] = Identities[board.revisions[i].text][n]
        BY <2>1, <2>3, <4>3
      <4>5. QED
        BY <2>2, <3>3, <4>4
    <3>4. QED
      BY <2>2, <3>1, <3>2, <3>3
  <2>5. DefinitionsImmutable'
    <3> SUFFICES ASSUME NEW i \in DOMAIN board'.revisions,
                        NEW j \in DOMAIN board'.revisions, i <= j,
                        NEW n \in DOMAIN Identities[board'.revisions[i].text]
                 PROVE  /\ n \in DOMAIN Identities[board'.revisions[j].text]
                        /\ Identities[board'.revisions[j].text][n] =
                             Identities[board'.revisions[i].text][n]
      BY DEF DefinitionsImmutable
    <3>1. i \in 1 .. len + 1 /\ j \in 1 .. len + 1
      BY <2>2
    <3>2. QED
      BY <2>4, <3>1
  <2>6. QED
    BY <1>1, <2>5 DEF ImmutableInv
<1>5. QED
  BY <1>1, <1>3, <1>4, RevisionsStep

\* Whatever is committed later, a requirement block that was committed once is in
\* every later revision, unchanged.
THEOREM RequirementsImmutable == BoardSpec => []DefinitionsImmutable
<1>1. BoardInit => ImmutableInv
  <2>1. BoardInit => DefinitionsImmutable
    BY DEF BoardInit, NewBoard, DefinitionsImmutable
  <2>2. QED
    BY <2>1, InitProtection DEF ImmutableInv
<1>2. ImmutableInv => DefinitionsImmutable
  BY DEF ImmutableInv
<1>3. QED
  BY <1>1, <1>2, NextImmutable, BoardSteps, PTL DEF BoardSpec

\* A revision is recorded as made from the revision it replaces: the check at the
\* head of commit_model let no other base through.
LEMMA MadeFromStep ==
  ASSUME ProtectionInv, [BoardNext]_boardVars
  PROVE  madeFrom' = IF board'.revisions = board.revisions THEN madeFrom
                     ELSE Append(madeFrom, CurrentBase(board))
<1>1. board \in Board /\ board.revisions # <<>>
  BY DEF ProtectionInv, BoardTypeOK
<1>2. CASE Publish
  <2>1. PICK note \in Notes, rev \in 0 .. CurrentRevision(board) :
          board' = Published(board, note, rev) \/ board' = Refused(board)
    BY <1>2 DEF Publish
  <2>2. board'.revisions = board.revisions
    BY <1>1, <2>1, PublishedFields, RefusedFields
  <2>3. QED
    BY <1>2, <2>2 DEF Publish
<1>3. CASE CreateTask
  <2>1. board'.revisions = board.revisions
    BY <1>1, <1>3, CreatedTaskFields DEF CreateTask
  <2>2. QED
    BY <1>3, <2>1 DEF CreateTask
<1>4. CASE TransitionTask
  <2>1. PICK t \in DOMAIN board.tasks, status \in TaskStatus :
          board' = MovedTask(board, t, status)
    BY <1>4 DEF TransitionTask
  <2>2. board'.revisions = board.revisions
    BY <1>1, <2>1, MovedTaskFields
  <2>3. QED
    BY <1>4, <2>2 DEF TransitionTask
<1>5. CASE CommitModel
  <2>1. PICK text \in Texts, rev \in 0 .. CurrentRevision(board),
             of \in 0 .. CurrentRevision(board), task \in 0 .. Len(board.tasks) :
          /\ board' = Commit(board, text, rev, ModelAt(board, of).text, task)
          /\ madeFrom' = IF board'.revisions = board.revisions THEN madeFrom
                         ELSE Append(madeFrom,
                                     [rev |-> rev, digest |-> ModelAt(board, of).text])
    BY <1>5 DEF CommitModel
  <2>2. CASE StaleBase(board, rev, ModelAt(board, of).text)
    <3>1. board' = Refused(board)
      BY <2>1, <2>2 DEF Commit
    <3>2. board'.revisions = board.revisions
      BY <1>1, <3>1, RefusedFields
    <3>3. QED
      BY <2>1, <3>2
  <2>3. CASE ~StaleBase(board, rev, ModelAt(board, of).text)
    <3>1. [rev |-> rev, digest |-> ModelAt(board, of).text] = CurrentBase(board)
      BY <2>3 DEF StaleBase, CurrentBase
    <3>2. QED
      BY <2>1, <3>1
  <2>4. QED
    BY <2>2, <2>3
<1>6. CASE UNCHANGED boardVars
  BY <1>6 DEF boardVars
<1>7. QED
  BY <1>2, <1>3, <1>4, <1>5, <1>6 DEF BoardNext

\* Committing against a base read earlier implements indivisible edits of the
\* current model: every revision was made from the one it replaces.
THEOREM Implements == BoardSpec => ImplementsRevisionLog
<1> DEFINE texts == [i \in DOMAIN board.revisions |-> board.revisions[i].text]
<1>1. BoardInit => History!LogInit
  <2> SUFFICES ASSUME BoardInit PROVE History!LogInit
    OBVIOUS
  <2>1. board.revisions = <<[text |-> InitialText, task |-> 0]>> /\ madeFrom = <<>>
    BY DEF BoardInit, NewBoard
  <2>2. DOMAIN board.revisions = 1 .. 1 /\ board.revisions[1].text = InitialText
    BY <2>1
  <2>3. texts = [i \in 1 .. 1 |-> InitialText]
    BY <2>2
  <2>4. <<InitialText>> = [i \in 1 .. 1 |-> InitialText]
    OBVIOUS
  <2>5. QED
    BY <2>1, <2>3, <2>4 DEF History!LogInit
<1>2. ProtectionInv /\ [BoardNext]_boardVars => [History!Edit]_<<texts, madeFrom>>
  <2> SUFFICES ASSUME ProtectionInv, [BoardNext]_boardVars
               PROVE  [History!Edit]_<<texts, madeFrom>>
    OBVIOUS
  <2>1. board \in Board /\ board.revisions # <<>> /\ board.revisions \in Seq(Revision)
    BY DEF ProtectionInv, BoardTypeOK, Board
  <2>2. CASE board'.revisions = board.revisions
    BY <2>2, MadeFromStep
  <2>3. CASE \E text \in Texts, task \in Nat :
               /\ board'.revisions =
                    Append(board.revisions, [text |-> text, task |-> task])
               /\ \A n \in DOMAIN Identities[CurrentText(board)] :
                    /\ n \in DOMAIN Identities[text]
                    /\ Identities[text][n] = Identities[CurrentText(board)][n]
    <3>1. PICK text \in Texts, task \in Nat :
            /\ board'.revisions =
                 Append(board.revisions, [text |-> text, task |-> task])
            /\ \A n \in DOMAIN Identities[CurrentText(board)] :
                 /\ n \in DOMAIN Identities[text]
                 /\ Identities[text][n] = Identities[CurrentText(board)][n]
      BY <2>3
    <3> DEFINE len == Len(board.revisions)
    <3>2. /\ DOMAIN board'.revisions = 1 .. len + 1
          /\ \A i \in 1 .. len : board'.revisions[i] = board.revisions[i]
          /\ board'.revisions[len + 1].text = text
          /\ DOMAIN board.revisions = 1 .. len /\ len \in Nat
      BY <2>1, <3>1, AppendedTexts
    <3>3. len \in DOMAIN board.revisions /\ CurrentText(board) = board.revisions[len].text
      BY <2>1, CurrentTextIsLast
    <3>4. \A i \in 1 .. len : board.revisions[i].text \in Texts
      <4>1. \A i \in DOMAIN board.revisions : board.revisions[i] \in Revision
        BY <2>1
      <4>2. QED
        BY <3>2, <4>1 DEF Revision
    <3> HIDE DEF len
    <3>5. texts \in Seq(Texts) /\ Len(texts) = len
      BY <3>2, <3>4
    <3>6. texts[Len(texts)] = CurrentText(board)
      BY <3>2, <3>3, <3>5
    <3>7. texts' = [i \in 1 .. len + 1 |-> IF i <= len THEN texts[i] ELSE text]
      BY <3>2
    <3>8. Append(texts, text) =
            [i \in 1 .. len + 1 |-> IF i <= len THEN texts[i] ELSE text]
      BY <3>5
    <3>9. History!Keeps(texts[Len(texts)], text)
      BY <3>1, <3>6 DEF History!Keeps
    <3>10. board'.revisions # board.revisions
      BY <3>2
    <3>11. madeFrom' = Append(madeFrom, CurrentBase(board))
      BY <3>10, MadeFromStep
    <3>12. CurrentBase(board) = [rev |-> Len(texts) - 1, digest |-> texts[Len(texts)]]
      BY <3>5, <3>6 DEF CurrentBase, CurrentRevision, len
    <3>13. QED
      BY <3>7, <3>8, <3>9, <3>11, <3>12 DEF History!Edit
  <2>4. QED
    BY <2>2, <2>3, RevisionsStep, BoardSteps
<1>3. QED
  BY <1>1, <1>2, ProtectionAlways, PTL
  DEF BoardSpec, ImplementsRevisionLog, History!LogSpec

-----------------------------------------------------------------------------
(* The record log                                                          *)

\* The record that Log appends.
RecordOf(note, rev, task, status) ==
  [type |-> note.type, topic |-> note.topic, reqs |-> note.reqs,
   bound |-> note.bound, rev |-> rev, task |-> task, status |-> status]

-----------------------------------------------------------------------------
(* What each method appends to the log                                     *)

LEMMA LogRecords ==
  ASSUME NEW b \in Board, NEW note, NEW rev, NEW task, NEW status
  PROVE  Log(b, note, rev, task, status).records =
           Append(b.records, RecordOf(note, rev, task, status))
BY DEF Log, Board, RecordOf

LEMMA PublishedRecords ==
  ASSUME NEW b \in Board, NEW note, NEW rev
  PROVE  Published(b, note, rev).records =
           Append(b.records, RecordOf(note, rev, 0, "NONE"))
<1> DEFINE c == IF rev = CurrentRevision(b) THEN b ELSE [b EXCEPT !.permitted = @ + 1]
<1>1. c \in Board /\ c.records = b.records
  <2>1. b.permitted + 1 \in Nat
    BY DEF Board
  <2>2. c = b \/ c = [b EXCEPT !.permitted = b.permitted + 1]
    OBVIOUS
  <2>3. QED
    BY <2>1, <2>2 DEF Board
<1> HIDE DEF c
<1>2. Published(b, note, rev) = Log(c, note, rev, 0, "NONE")
  BY DEF Published, c
<1>3. QED
  BY <1>1, <1>2, LogRecords

LEMMA CreatedTaskRecords ==
  ASSUME NEW b \in Board, b.revisions # <<>>
  PROVE  CreatedTask(b).records =
           Append(b.records, RecordOf(BoardNote("CONTROL", "task.created"),
                                      CurrentRevision(b), Len(b.tasks) + 1, "PENDING"))
<1> DEFINE task == [status |-> "PENDING", rev |-> CurrentRevision(b),
                    digest |-> CurrentText(b)]
           c == [b EXCEPT !.tasks = Append(b.tasks, task)]
<1>1. task \in Task
  BY CurrentTextType DEF Task, TaskStatus
<1>2. Append(b.tasks, task) \in Seq(Task)
  BY <1>1 DEF Board
<1> HIDE DEF task
<1>3. c \in Board /\ c.records = b.records
  BY <1>2 DEF Board
<1>4. CreatedTask(b) = Log(c, BoardNote("CONTROL", "task.created"),
                           CurrentRevision(b), Len(b.tasks) + 1, "PENDING")
  BY DEF CreatedTask, task
<1> HIDE DEF c
<1>5. QED
  BY <1>3, <1>4, LogRecords

LEMMA MovedTaskRecords ==
  ASSUME NEW b \in Board, NEW t \in DOMAIN b.tasks, NEW status \in TaskStatus
  PROVE  MovedTask(b, t, status).records =
           Append(b.records, RecordOf(BoardNote("CONTROL", "task.transition"),
                                      CurrentRevision(b), t, status))
<1> DEFINE c == [b EXCEPT !.tasks[t].status = status]
<1>1. [b.tasks EXCEPT ![t].status = status] \in Seq(Task)
  <2>1. b.tasks \in Seq(Task) /\ b.tasks[t] \in Task
    BY DEF Board
  <2>2. [b.tasks[t] EXCEPT !.status = status] \in Task
    BY <2>1 DEF Task
  <2>3. QED
    BY <2>1, <2>2
<1>2. c \in Board /\ c.records = b.records
  BY <1>1 DEF Board
<1>3. MovedTask(b, t, status) =
        Log(c, BoardNote("CONTROL", "task.transition"), CurrentRevision(b), t, status)
  BY DEF MovedTask
<1> HIDE DEF c
<1>4. QED
  BY <1>2, <1>3, LogRecords

LEMMA CommittedModelRecords ==
  ASSUME NEW b \in Board, NEW text \in Texts, NEW task \in Nat
  PROVE  CommittedModel(b, text, task).records =
           Append(b.records, RecordOf(BoardNote("MODEL", "model.committed"),
                                      CurrentRevision(b) + 1, task, "NONE"))
<1> DEFINE rv == [text |-> text, task |-> task]
           p == Protect(b.protected, text)
           c == [b EXCEPT !.revisions = Append(b.revisions, rv), !.protected = p]
<1>1. Append(b.revisions, rv) \in Seq(Revision)
  BY DEF Board, Revision
<1>2. p \in PartialFunctions(Names, Bodies)
  BY ProtectType DEF Board
<1> HIDE DEF p, rv
<1>3. c \in Board /\ c.records = b.records
  BY <1>1, <1>2 DEF Board
<1>4. CommittedModel(b, text, task) =
        Log(c, BoardNote("MODEL", "model.committed"), CurrentRevision(b) + 1, task, "NONE")
  BY DEF CommittedModel, p, rv
<1> HIDE DEF c
<1>5. QED
  BY <1>3, <1>4, LogRecords

-----------------------------------------------------------------------------
(* The shapes of a step                                                    *)

Unlogged == /\ board'.records = board.records
            /\ board'.revisions = board.revisions
            /\ board'.tasks = board.tasks

\* A record about no task, or the one of a task that was created or has moved.
LogsNoTask(r) == /\ r.topic \notin {"task.created", "task.transition"}
                 /\ board'.tasks = board.tasks

LogsTask(r) ==
  /\ r.topic \in {"task.created", "task.transition"}
  /\ r.task \in DOMAIN board'.tasks /\ r.status = board'.tasks[r.task].status
  /\ \A u \in DOMAIN board'.tasks \ {r.task} :
       u \in DOMAIN board.tasks /\ board'.tasks[u] = board.tasks[u]

\* A record of anything but a commit.
Logged == \E r : /\ r.topic # "model.committed"
                 /\ board'.records = Append(board.records, r)
                 /\ board'.revisions = board.revisions
                 /\ LogsNoTask(r) \/ LogsTask(r)

Committed == \E text \in Texts, task \in Nat :
               /\ SourcesAgree(board, text)
               /\ board'.revisions = Append(board.revisions, [text |-> text, task |-> task])
               /\ board'.records =
                    Append(board.records,
                           RecordOf(BoardNote("MODEL", "model.committed"),
                                    CurrentRevision(board) + 1, task, "NONE"))
               /\ board'.tasks = board.tasks

\* No task loses its base or leaves a final status; new tasks come at the end.
TasksKept ==
  \A t \in DOMAIN board.tasks :
    /\ t \in DOMAIN board'.tasks
    /\ board'.tasks[t].rev = board.tasks[t].rev
    /\ board'.tasks[t].digest = board.tasks[t].digest
    /\ board.tasks[t].status \in {"COMPLETED", "BLOCKED", "REJECTED"} =>
         board'.tasks[t].status = board.tasks[t].status

LEMMA RecordsStep ==
  ASSUME BoardTypeOK, [BoardNext]_board
  PROVE  (Unlogged \/ Logged \/ Committed) /\ TasksKept
<1>1. /\ board \in Board /\ board.revisions # <<>>
      /\ board.tasks \in Seq(Task)
  BY DEF BoardTypeOK, Board
<1>2. ASSUME board'.tasks = board.tasks PROVE TasksKept
  BY <1>2 DEF TasksKept
<1>3. CASE board' = Refused(board) \/ board' = board
  <2>1. Unlogged
    BY <1>1, <1>3 DEF Refused, Board, Unlogged
  <2>2. QED
    BY <1>2, <2>1 DEF Unlogged
<1>4. CASE Publish
  <2>1. PICK note \in Notes, rev \in 0 .. CurrentRevision(board) :
          board' = Published(board, note, rev) \/ board' = Refused(board)
    BY <1>4 DEF Publish
  <2>2. note.topic \notin {"model.committed", "task.created", "task.transition"}
    BY NotesAssumption
  <2>3. CASE board' = Published(board, note, rev)
    <3>1. /\ board'.records = Append(board.records, RecordOf(note, rev, 0, "NONE"))
          /\ board'.revisions = board.revisions /\ board'.tasks = board.tasks
      BY <1>1, <2>3, PublishedRecords, PublishedFields
    <3>2. QED
      BY <1>2, <2>2, <3>1 DEF Logged, LogsNoTask, RecordOf
  <2>4. QED
    BY <1>3, <2>1, <2>3
<1>5. CASE CreateTask
  <2>1. /\ board'.records =
             Append(board.records, RecordOf(BoardNote("CONTROL", "task.created"),
               CurrentRevision(board), Len(board.tasks) + 1, "PENDING"))
        /\ board'.revisions = board.revisions
        /\ board'.tasks = Append(board.tasks,
             [status |-> "PENDING", rev |-> CurrentRevision(board),
              digest |-> CurrentText(board)])
    BY <1>1, <1>5, CreatedTaskRecords, CreatedTaskFields DEF CreateTask
  <2>2. \A t \in DOMAIN board.tasks :
          t \in DOMAIN board'.tasks /\ board'.tasks[t] = board.tasks[t]
    BY <1>1, <2>1
  <2> DEFINE r == RecordOf(BoardNote("CONTROL", "task.created"),
                           CurrentRevision(board), Len(board.tasks) + 1, "PENDING")
  <2>3. r.topic = "task.created" /\ r.task = Len(board.tasks) + 1 /\ r.status = "PENDING"
    BY DEF BoardNote, RecordOf
  <2> HIDE DEF r
  <2>4. LogsTask(r)
    BY <1>1, <2>1, <2>3 DEF LogsTask
  <2>5. Logged
    BY <2>1, <2>3, <2>4 DEF Logged, r
  <2>6. QED
    BY <2>2, <2>5 DEF TasksKept
<1>6. CASE TransitionTask
  <2>1. PICK t \in DOMAIN board.tasks, status \in TaskStatus :
          /\ status \in TaskTransitions[board.tasks[t].status]
          /\ board' = MovedTask(board, t, status)
    BY <1>6 DEF TransitionTask
  <2>2. /\ board'.records =
             Append(board.records, RecordOf(BoardNote("CONTROL", "task.transition"),
               CurrentRevision(board), t, status))
        /\ board'.revisions = board.revisions
        /\ board'.tasks = [board.tasks EXCEPT ![t].status = status]
    BY <1>1, <2>1, MovedTaskRecords, MovedTaskFields
  <2>3. board.tasks[t].status \in {"PENDING", "ACTIVE"}
    <3>1. board.tasks[t].status \in TaskStatus
      <4>1. board.tasks[t] \in Task
        BY <1>1
      <4>2. QED
        BY <4>1 DEF Task
    <3>2. QED
      BY <2>1, <3>1 DEF TaskTransitions, TaskStatus
  <2> DEFINE r == RecordOf(BoardNote("CONTROL", "task.transition"),
                           CurrentRevision(board), t, status)
  <2>4. r.topic = "task.transition" /\ r.task = t /\ r.status = status
    BY DEF BoardNote, RecordOf
  <2> HIDE DEF r
  <2>5. LogsTask(r)
    <3>1. \A u \in DOMAIN board.tasks : board.tasks[u] \in Task
      BY <1>1
    <3>2. board'.tasks[t].status = status
      BY <1>1, <2>1, <2>2, <3>1 DEF Task
    <3>3. QED
      BY <1>1, <2>1, <2>2, <2>4, <3>2 DEF LogsTask
  <2>6. Logged
    BY <2>2, <2>4, <2>5 DEF Logged, r
  <2>7. TasksKept
    <3>1. ASSUME NEW u \in DOMAIN board.tasks
          PROVE  /\ board.tasks[u] \in Task
                 /\ u \in DOMAIN board'.tasks
                 /\ u # t => board'.tasks[u] = board.tasks[u]
                 /\ u = t => board'.tasks[u] = [board.tasks[u] EXCEPT !.status = status]
      BY <1>1, <2>2
    <3>2. QED
      BY <2>3, <3>1 DEF TasksKept, Task
  <2>8. QED
    BY <2>6, <2>7
<1>7. CASE CommitModel
  <2>1. CASE \E text \in Texts, task \in Nat :
               /\ SourcesAgree(board, text)
               /\ ProtectionHolds(board, text)
               /\ board' = CommittedModel(board, text, task)
    <3>1. PICK text \in Texts, task \in Nat :
            SourcesAgree(board, text) /\ board' = CommittedModel(board, text, task)
      BY <2>1
    <3>2. /\ board'.revisions = Append(board.revisions, [text |-> text, task |-> task])
          /\ board'.tasks = board.tasks
      BY <1>1, <3>1, CommittedModelFields
    <3>3. board'.records =
            Append(board.records,
                   RecordOf(BoardNote("MODEL", "model.committed"),
                            CurrentRevision(board) + 1, task, "NONE"))
      BY <1>1, <3>1, CommittedModelRecords
    <3>4. QED
      BY <1>2, <3>1, <3>2, <3>3 DEF Committed
  <2>2. QED
    BY <1>3, <1>7, <2>1, CommitModelCases
<1>8. QED
  BY <1>3, <1>4, <1>5, <1>6, <1>7 DEF BoardNext

-----------------------------------------------------------------------------
(* Nothing is lost                                                         *)

LEMMA AppendKeeps ==
  ASSUME NEW S, NEW s \in Seq(S), NEW e
  PROVE  /\ DOMAIN s = 1 .. Len(s) /\ Len(s) \in Nat
         /\ DOMAIN Append(s, e) = 1 .. Len(s) + 1
         /\ \A i \in 1 .. Len(s) : Append(s, e)[i] = s[i]
         /\ Append(s, e)[Len(s) + 1] = e
OBVIOUS

\* Revisions and records are only appended, and a task keeps its base and its
\* final status, through every call of the class.
THEOREM NothingLost == BoardSpec => AppendOnly
<1>1. ASSUME ProtectionInv, [BoardNext]_board
      PROVE  /\ \A i \in DOMAIN board.revisions : /\ i \in DOMAIN board'.revisions
                                                  /\ board'.revisions[i] = board.revisions[i]
             /\ \A k \in DOMAIN board.records : /\ k \in DOMAIN board'.records
                                                /\ board'.records[k] = board.records[k]
             /\ TasksKept
  <2>1. BoardTypeOK /\ board.revisions \in Seq(Revision) /\ board.records \in Seq(Record)
    BY <1>1 DEF ProtectionInv, BoardTypeOK, Board
  <2>2. TasksKept /\ (Unlogged \/ Logged \/ Committed)
    BY <1>1, <2>1, RecordsStep
  <2>3. CASE Unlogged
    BY <2>2, <2>3 DEF Unlogged
  <2>4. CASE Logged
    <3>1. PICK r : /\ board'.records = Append(board.records, r)
                   /\ board'.revisions = board.revisions
      BY <2>4 DEF Logged
    <3>2. QED
      BY <2>1, <2>2, <3>1, AppendKeeps
  <2>5. CASE Committed
    <3>1. PICK r, v : /\ board'.records = Append(board.records, r)
                      /\ board'.revisions = Append(board.revisions, v)
      BY <2>5 DEF Committed
    <3>2. QED
      BY <2>1, <2>2, <3>1, AppendKeeps
  <2>6. QED
    BY <2>2, <2>3, <2>4, <2>5
<1>2. QED
  BY <1>1, ProtectionAlways, BoardSteps, PTL DEF BoardSpec, AppendOnly, TasksKept

-----------------------------------------------------------------------------
(* Published requirements                                                  *)

\* A record of a commit names a revision that exists.
CommitsExist ==
  \A m \in DOMAIN board.records :
    board.records[m].topic = "model.committed" =>
      board.records[m].rev \in 1 .. CurrentRevision(board)

\* The text of record m has what the requirements of record k ask of it.
Quotes(k, m) ==
  LET ids == Identities[ModelAt(board, board.records[m].rev).text]
      reqs == board.records[k].reqs
  IN  \A n \in DOMAIN reqs : n \in DOMAIN ids /\ DocOf[ids[n]] = reqs[n]

LogInv == ProtectionInv /\ CommitsExist /\ SourcesHonoured

LEMMA InitLog == BoardInit => LogInv
<1> SUFFICES ASSUME BoardInit PROVE LogInv
  OBVIOUS
<1>1. board.records = <<>>
  BY DEF BoardInit, NewBoard
<1>2. QED
  BY <1>1, InitProtection DEF LogInv, CommitsExist, SourcesHonoured

\* A step that appends a record keeps what is said of the records before it.
LEMMA OlderRecords ==
  ASSUME BoardTypeOK, NEW r, board'.records = Append(board.records, r),
         \/ board'.revisions = board.revisions
         \/ \E v : board'.revisions = Append(board.revisions, v),
         CommitsExist, SourcesHonoured
  PROVE  /\ DOMAIN board'.records = 1 .. Len(board.records) + 1
         /\ board'.records[Len(board.records) + 1] = r
         /\ CurrentRevision(board) \in Nat
         /\ CurrentRevision(board') \in Nat
         /\ CurrentRevision(board) <= CurrentRevision(board')
         /\ \A m \in 1 .. Len(board.records) :
              /\ m \in DOMAIN board.records
              /\ board'.records[m] = board.records[m]
              /\ board.records[m].topic = "model.committed" =>
                   /\ board'.records[m].rev \in 1 .. CurrentRevision(board')
                   /\ ModelAt(board', board'.records[m].rev)
                        = ModelAt(board, board.records[m].rev)
<1>1. /\ board.revisions \in Seq(Revision) /\ board.records \in Seq(Record)
      /\ board.revisions # <<>>
  BY DEF BoardTypeOK, Board
<1>2. /\ DOMAIN board.records = 1 .. Len(board.records) /\ Len(board.records) \in Nat
      /\ DOMAIN board'.records = 1 .. Len(board.records) + 1
      /\ \A m \in 1 .. Len(board.records) : board'.records[m] = board.records[m]
      /\ board'.records[Len(board.records) + 1] = r
  BY <1>1, AppendKeeps
<1>3. /\ Len(board.revisions) \in Nat \ {0}
      /\ Len(board'.revisions) \in Nat
      /\ Len(board.revisions) <= Len(board'.revisions)
      /\ \A i \in 1 .. Len(board.revisions) : board'.revisions[i] = board.revisions[i]
  <2>1. CASE board'.revisions = board.revisions
    BY <1>1, <2>1
  <2>2. CASE \E v : board'.revisions = Append(board.revisions, v)
    <3>1. PICK v : board'.revisions = Append(board.revisions, v)
      BY <2>2
    <3>2. /\ Len(board.revisions) \in Nat \ {0}
          /\ Len(board'.revisions) = Len(board.revisions) + 1
      BY <1>1, <3>1
    <3>3. QED
      BY <1>1, <3>1, <3>2, AppendKeeps
  <2>3. QED
    BY <2>1, <2>2
<1>4. /\ CurrentRevision(board) = Len(board.revisions) - 1
      /\ CurrentRevision(board') = Len(board'.revisions) - 1
  BY DEF CurrentRevision
<1>5. ASSUME NEW m \in 1 .. Len(board.records),
             board.records[m].topic = "model.committed"
      PROVE  /\ board'.records[m].rev \in 1 .. CurrentRevision(board')
             /\ ModelAt(board', board'.records[m].rev)
                  = ModelAt(board, board.records[m].rev)
  <2>1. board.records[m].rev \in 1 .. CurrentRevision(board)
    BY <1>2, <1>5 DEF CommitsExist
  <2>2. board.records[m].rev + 1 \in 1 .. Len(board.revisions)
    BY <1>3, <1>4, <2>1
  <2>3. board'.records[m].rev = board.records[m].rev
    BY <1>2, <1>5
  <2>4. board'.records[m].rev \in 1 .. CurrentRevision(board')
    BY <1>3, <1>4, <2>1, <2>3
  <2>5. board'.revisions[board.records[m].rev + 1] = board.revisions[board.records[m].rev + 1]
    BY <1>3, <2>2
  <2>6. QED
    BY <2>3, <2>4, <2>5 DEF ModelAt
<1>6. QED
  BY <1>2, <1>3, <1>4, <1>5

LEMMA NextLog == LogInv /\ [BoardNext]_board => LogInv'
<1> SUFFICES ASSUME LogInv, [BoardNext]_board PROVE LogInv'
  OBVIOUS
<1>1. /\ ProtectionInv /\ BoardTypeOK /\ CommitsExist /\ SourcesHonoured
      /\ ProtectionInv' /\ Len(board.records) \in Nat
      /\ DOMAIN board.records = 1 .. Len(board.records)
  BY NextProtection DEF LogInv, ProtectionInv, BoardTypeOK, Board
<1> DEFINE len == Len(board.records)
<1>2. CASE Unlogged
  <2>1. board'.records = board.records /\ board'.revisions = board.revisions
    BY <1>2 DEF Unlogged
  <2>2. CommitsExist'
    BY <1>1, <2>1 DEF CommitsExist, CurrentRevision
  <2>3. SourcesHonoured'
    <3>1. \A k, m : Quotes(k, m) => Quotes(k, m)'
      BY <2>1 DEF Quotes, ModelAt
    <3>2. ASSUME NEW k \in DOMAIN board'.records, NEW m \in DOMAIN board'.records,
                 k < m,
                 board'.records[k].type = "SOURCE",
                 board'.records[k].topic = "requirements.authoritative",
                 board'.records[m].topic = "model.committed"
          PROVE  Quotes(k, m)'
      <4>1. Quotes(k, m)
        BY <1>1, <2>1, <3>2 DEF SourcesHonoured, Quotes
      <4>2. QED
        BY <3>1, <4>1
    <3>3. QED
      BY <3>2 DEF SourcesHonoured, Quotes
  <2>4. QED
    BY <1>1, <2>2, <2>3 DEF LogInv
<1>3. CASE Logged
  <2>1. PICK r : /\ r.topic # "model.committed"
                 /\ board'.records = Append(board.records, r)
                 /\ board'.revisions = board.revisions
    BY <1>3 DEF Logged
  <2>2. /\ DOMAIN board'.records = 1 .. len + 1 /\ board'.records[len + 1] = r
        /\ \A m \in 1 .. len :
             /\ m \in DOMAIN board.records
             /\ board'.records[m] = board.records[m]
             /\ board.records[m].topic = "model.committed" =>
                  /\ board'.records[m].rev \in 1 .. CurrentRevision(board')
                  /\ ModelAt(board', board'.records[m].rev)
                       = ModelAt(board, board.records[m].rev)
    BY <1>1, <2>1, OlderRecords
  <2>3. ASSUME NEW m \in DOMAIN board'.records,
               board'.records[m].topic = "model.committed"
        PROVE  m \in 1 .. len
    BY <1>1, <2>1, <2>3, <2>2
  <2>4. CommitsExist'
    BY <2>3, <2>2 DEF CommitsExist
  <2>5. SourcesHonoured'
    <3>1. ASSUME NEW k \in DOMAIN board'.records, NEW m \in DOMAIN board'.records,
                 k < m,
                 board'.records[k].type = "SOURCE",
                 board'.records[k].topic = "requirements.authoritative",
                 board'.records[m].topic = "model.committed"
          PROVE  Quotes(k, m)'
      <4>1. m \in 1 .. len /\ k \in 1 .. len
        BY <1>1, <2>3, <2>2, <3>1
      <4>2. Quotes(k, m)
        BY <1>1, <2>2, <3>1, <4>1 DEF SourcesHonoured, Quotes
      <4>3. /\ board'.records[k].reqs = board.records[k].reqs
            /\ ModelAt(board', board'.records[m].rev)
                 = ModelAt(board, board.records[m].rev)
        BY <2>2, <3>1, <4>1
      <4>4. QED
        BY <4>2, <4>3 DEF Quotes
    <3>2. QED
      BY <3>1 DEF SourcesHonoured, Quotes
  <2>6. QED
    BY <1>1, <2>4, <2>5 DEF LogInv
<1>4. CASE Committed
  <2>1. PICK text \in Texts, task \in Nat :
          /\ SourcesAgree(board, text)
          /\ board'.revisions = Append(board.revisions, [text |-> text, task |-> task])
          /\ board'.records =
               Append(board.records,
                      RecordOf(BoardNote("MODEL", "model.committed"),
                               CurrentRevision(board) + 1, task, "NONE"))
    BY <1>4 DEF Committed
  <2> DEFINE r == RecordOf(BoardNote("MODEL", "model.committed"),
                           CurrentRevision(board) + 1, task, "NONE")
  <2>2. r.type = "MODEL" /\ r.rev = CurrentRevision(board) + 1
    BY DEF RecordOf, BoardNote
  <2> HIDE DEF r
  <2>3. /\ DOMAIN board'.records = 1 .. len + 1 /\ board'.records[len + 1] = r
        /\ CurrentRevision(board) \in Nat
        /\ \A m \in 1 .. len :
             /\ m \in DOMAIN board.records
             /\ board'.records[m] = board.records[m]
             /\ board.records[m].topic = "model.committed" =>
                  /\ board'.records[m].rev \in 1 .. CurrentRevision(board')
                  /\ ModelAt(board', board'.records[m].rev)
                       = ModelAt(board, board.records[m].rev)
    BY <1>1, <2>1, OlderRecords DEF r
  <2>4. /\ CurrentRevision(board') = CurrentRevision(board) + 1
        /\ ModelAt(board', CurrentRevision(board) + 1).text = text
    <3>1. /\ board.revisions \in Seq(Revision) /\ Len(board.revisions) \in Nat
      BY <1>1 DEF BoardTypeOK, Board
    <3>2. /\ Len(board'.revisions) = Len(board.revisions) + 1
          /\ board'.revisions[Len(board.revisions) + 1].text = text
      BY <2>1, <3>1
    <3>3. CurrentRevision(board) + 1 + 1 = Len(board.revisions) + 1
      BY <3>1 DEF CurrentRevision
    <3>4. QED
      BY <3>1, <3>2, <3>3 DEF CurrentRevision, ModelAt
  <2>5. CommitsExist'
    <3>1. board'.records[len + 1].rev \in 1 .. CurrentRevision(board')
      BY <2>2, <2>3, <2>4
    <3>2. QED
      BY <1>1, <2>3, <3>1 DEF CommitsExist
  <2>6. SourcesHonoured'
    <3>1. ASSUME NEW k \in DOMAIN board'.records, NEW m \in DOMAIN board'.records,
                 k < m,
                 board'.records[k].type = "SOURCE",
                 board'.records[k].topic = "requirements.authoritative",
                 board'.records[m].topic = "model.committed"
          PROVE  Quotes(k, m)'
      <4>1. k \in 1 .. len
        BY <1>1, <2>3, <3>1
      <4>2. CASE m \in 1 .. len
        <5>1. Quotes(k, m)
          <6>1. /\ k \in DOMAIN board.records /\ m \in DOMAIN board.records
                /\ board'.records[k] = board.records[k] /\ board'.records[m] = board.records[m]
            BY <2>3, <4>1, <4>2
          <6>2. QED
            BY <1>1, <3>1, <6>1 DEF SourcesHonoured, Quotes
        <5>2. /\ board'.records[k].reqs = board.records[k].reqs
              /\ ModelAt(board', board'.records[m].rev)
                   = ModelAt(board, board.records[m].rev)
          BY <2>3, <3>1, <4>1, <4>2
        <5>3. QED
          BY <5>1, <5>2 DEF Quotes
      <4>3. CASE m = len + 1
        <5>1. ModelAt(board', board'.records[m].rev).text = text
          BY <2>2, <2>3, <2>4, <4>3
        <5>2. \A n \in DOMAIN board.records[k].reqs :
                /\ n \in DOMAIN Identities[text]
                /\ DocOf[Identities[text][n]] = board.records[k].reqs[n]
          BY <2>1, <2>3, <3>1, <4>1 DEF SourcesAgree
        <5>3. QED
          BY <2>3, <4>1, <5>1, <5>2 DEF Quotes
      <4>4. QED
        BY <1>1, <2>3, <4>2, <4>3
    <3>2. QED
      BY <3>1 DEF SourcesHonoured, Quotes
  <2>7. QED
    BY <1>1, <2>5, <2>6 DEF LogInv
<1>5. QED
  BY <1>1, <1>2, <1>3, <1>4, RecordsStep

\* Every revision quotes all requirements that were published before it was
\* committed (_validate_authoritative_sources).
THEOREM SourcesAlwaysHonoured == BoardSpec => []SourcesHonoured
<1>1. LogInv => SourcesHonoured
  BY DEF LogInv
<1>2. QED
  BY <1>1, InitLog, NextLog, BoardSteps, PTL DEF BoardSpec

-----------------------------------------------------------------------------
(* The log replays                                                         *)

\* A record appended to the log leaves the older ones in place; it is a commit's or
\* a task's record by its topic alone.
LEMMA AppendedRecord ==
  ASSUME BoardTypeOK, NEW r, board'.records = Append(board.records, r)
  PROVE  /\ DOMAIN board.records = 1 .. Len(board.records) /\ Len(board.records) \in Nat
         /\ DOMAIN board'.records = 1 .. Len(board.records) + 1
         /\ board'.records[Len(board.records) + 1] = r
         /\ \A k \in DOMAIN board.records : board'.records[k] = board.records[k]
         /\ CommitRecords' = CommitRecords \cup
              (IF r.topic = "model.committed" THEN {Len(board.records) + 1} ELSE {})
         /\ \A t : TaskRecords(t)' = TaskRecords(t) \cup
              (IF r.task = t /\ r.topic \in {"task.created", "task.transition"}
               THEN {Len(board.records) + 1} ELSE {})
<1>1. board.records \in Seq(Record)
  BY DEF BoardTypeOK, Board
<1>2. /\ DOMAIN board.records = 1 .. Len(board.records) /\ Len(board.records) \in Nat
      /\ DOMAIN board'.records = 1 .. Len(board.records) + 1
      /\ board'.records[Len(board.records) + 1] = r
      /\ \A k \in 1 .. Len(board.records) : board'.records[k] = board.records[k]
  BY <1>1, AppendKeeps
<1>3. \A k : k \in 1 .. Len(board.records) + 1 <=>
              (k \in 1 .. Len(board.records) \/ k = Len(board.records) + 1)
  BY <1>2
<1>4. CommitRecords' = CommitRecords \cup
        (IF r.topic = "model.committed" THEN {Len(board.records) + 1} ELSE {})
  BY <1>2, <1>3 DEF CommitRecords
<1>5. ASSUME NEW t
      PROVE  TaskRecords(t)' = TaskRecords(t) \cup
               (IF r.task = t /\ r.topic \in {"task.created", "task.transition"}
                THEN {Len(board.records) + 1} ELSE {})
  BY <1>2, <1>3 DEF TaskRecords
<1>6. QED
  BY <1>2, <1>4, <1>5

LEMMA NextCommitsReplay ==
  ASSUME BoardTypeOK, CommitsReplay, Unlogged \/ Logged \/ Committed
  PROVE  CommitsReplay'
<1>1. CASE Unlogged
  BY <1>1 DEF Unlogged, CommitsReplay, CommitRecords, CurrentRevision, ModelAt
<1>2. CASE Logged
  <2>1. PICK r : /\ r.topic # "model.committed"
                 /\ board'.records = Append(board.records, r)
                 /\ board'.revisions = board.revisions
    BY <1>2 DEF Logged
  <2>2. /\ CommitRecords' = CommitRecords
        /\ \A k \in CommitRecords : board'.records[k] = board.records[k]
    BY <2>1, AppendedRecord DEF CommitRecords
  <2>3. CurrentRevision(board') = CurrentRevision(board)
          /\ \A i : ModelAt(board', i) = ModelAt(board, i)
    BY <2>1 DEF CurrentRevision, ModelAt
  <2>4. QED
    BY <2>2, <2>3 DEF CommitsReplay
<1>3. CASE Committed
  <2> DEFINE cur == CurrentRevision(board)
             len == Len(board.records)
  <2>1. PICK text \in Texts, task \in Nat :
          /\ board'.revisions = Append(board.revisions, [text |-> text, task |-> task])
          /\ board'.records = Append(board.records,
               RecordOf(BoardNote("MODEL", "model.committed"), cur + 1, task, "NONE"))
    BY <1>3 DEF Committed
  <2> DEFINE r == RecordOf(BoardNote("MODEL", "model.committed"), cur + 1, task, "NONE")
  <2>2. r.topic = "model.committed" /\ r.rev = cur + 1 /\ r.task = task
    BY DEF RecordOf, BoardNote
  <2> HIDE DEF r
  <2>3. /\ CommitRecords' = CommitRecords \cup {len + 1} /\ len \in Nat
        /\ board'.records[len + 1] = r
        /\ \A k \in CommitRecords : k \in 1 .. len /\ board'.records[k] = board.records[k]
    BY <2>1, <2>2, AppendedRecord DEF CommitRecords, r
  <2>4. /\ cur \in Nat /\ CurrentRevision(board') = cur + 1
        /\ ModelAt(board', cur + 1).task = task
        /\ \A i \in 0 .. cur : ModelAt(board', i) = ModelAt(board, i)
    <3>1. /\ board.revisions \in Seq(Revision) /\ Len(board.revisions) \in Nat \ {0}
          /\ [text |-> text, task |-> task].task = task
      BY DEF BoardTypeOK, Board
    <3>2. /\ Len(board'.revisions) = Len(board.revisions) + 1
          /\ board'.revisions[Len(board.revisions) + 1].task = task
          /\ \A i \in 1 .. Len(board.revisions) : board'.revisions[i] = board.revisions[i]
      BY <2>1, <3>1
    <3>3. cur = Len(board.revisions) - 1 /\ CurrentRevision(board') = Len(board'.revisions) - 1
      BY DEF CurrentRevision
    <3>4. cur + 1 + 1 = Len(board.revisions) + 1
      BY <3>1, <3>3
    <3>5. QED
      BY <3>1, <3>2, <3>3, <3>4 DEF ModelAt
  <2> HIDE DEF cur, len
  <2>5. ASSUME NEW k \in CommitRecords'
        PROVE  /\ board'.records[k].rev \in 1 .. cur + 1
               /\ board'.records[k].task = ModelAt(board', board'.records[k].rev).task
    BY <2>2, <2>3, <2>4, <2>5 DEF CommitsReplay, cur
  <2>6. ASSUME NEW k \in CommitRecords', NEW m \in CommitRecords', k < m
        PROVE  board'.records[k].rev < board'.records[m].rev
    <3>1. k \in CommitRecords
      BY <2>3, <2>6
    <3>2. CASE m \in CommitRecords
      BY <2>3, <2>6, <3>1, <3>2 DEF CommitsReplay
    <3>3. CASE m = len + 1
      BY <2>2, <2>3, <2>4, <3>1, <3>3 DEF CommitsReplay, cur
    <3>4. QED
      BY <2>3, <3>2, <3>3
  <2>7. ASSUME NEW i \in 1 .. cur + 1
        PROVE  \E k \in CommitRecords' : board'.records[k].rev = i
    <3>1. CASE i = cur + 1
      BY <2>2, <2>3, <3>1
    <3>2. CASE i \in 1 .. cur
      <4>1. PICK k \in CommitRecords : board.records[k].rev = i
        BY <3>2 DEF CommitsReplay, cur
      <4>2. QED
        BY <2>3, <4>1
    <3>3. QED
      BY <2>4, <3>1, <3>2
  <2>8. QED
    BY <2>4, <2>5, <2>6, <2>7 DEF CommitsReplay
<1>4. QED
  BY <1>1, <1>2, <1>3

LEMMA NextTasksReplay ==
  ASSUME BoardTypeOK, TasksReplay, Unlogged \/ Logged \/ Committed
  PROVE  TasksReplay'
<1> DEFINE len == Len(board.records)
<1>1. ASSUME NEW r, board'.records = Append(board.records, r),
             r.topic \notin {"task.created", "task.transition"},
             board'.tasks = board.tasks
      PROVE  TasksReplay'
  <2>1. \A t : /\ TaskRecords(t)' = TaskRecords(t)
               /\ \A k \in TaskRecords(t) : board'.records[k] = board.records[k]
    BY <1>1, AppendedRecord DEF TaskRecords
  <2>2. QED
    BY <1>1, <2>1 DEF TasksReplay
<1>2. CASE Unlogged
  BY <1>2 DEF Unlogged, TasksReplay, TaskRecords
<1>3. CASE Logged
  <2>1. PICK r : board'.records = Append(board.records, r) /\ (LogsNoTask(r) \/ LogsTask(r))
    BY <1>3 DEF Logged
  <2>2. CASE LogsNoTask(r)
    BY <1>1, <2>1, <2>2 DEF LogsNoTask
  <2>3. CASE LogsTask(r)
    <3>1. /\ len \in Nat /\ board'.records[len + 1] = r
          /\ TaskRecords(r.task)' = TaskRecords(r.task) \cup {len + 1}
          /\ \A t : t # r.task => TaskRecords(t)' = TaskRecords(t)
          /\ \A t : \A k \in TaskRecords(t) :
               k \in 1 .. len /\ board'.records[k] = board.records[k]
      BY <2>1, <2>3, AppendedRecord DEF LogsTask, TaskRecords
    <3> HIDE DEF len
    <3>2. ASSUME NEW t \in DOMAIN board'.tasks
          PROVE  \E k \in TaskRecords(t)' :
                   /\ \A j \in TaskRecords(t)' : j <= k
                   /\ board'.records[k].status = board'.tasks[t].status
      <4>1. CASE t = r.task
        <5>1. \A j \in TaskRecords(t)' : j <= len + 1
          BY <3>1, <4>1
        <5>2. len + 1 \in TaskRecords(t)'
          BY <3>1, <4>1
        <5>3. board'.records[len + 1].status = board'.tasks[t].status
          BY <2>3, <3>1, <4>1 DEF LogsTask
        <5>4. QED
          BY <5>1, <5>2, <5>3
      <4>2. CASE t # r.task
        <5>1. t \in DOMAIN board.tasks /\ board'.tasks[t] = board.tasks[t]
          BY <2>3, <4>2 DEF LogsTask
        <5>2. PICK k \in TaskRecords(t) : /\ \A j \in TaskRecords(t) : j <= k
                                          /\ board.records[k].status = board.tasks[t].status
          BY <5>1 DEF TasksReplay
        <5>3. QED
          BY <3>1, <4>2, <5>1, <5>2
      <4>3. QED
        BY <4>1, <4>2
    <3>3. QED
      BY <3>2 DEF TasksReplay
  <2>4. QED
    BY <2>1, <2>2, <2>3
<1>4. CASE Committed
  <2>1. PICK r : /\ board'.records = Append(board.records, r)
                 /\ r.topic = "model.committed" /\ board'.tasks = board.tasks
    BY <1>4 DEF Committed, RecordOf, BoardNote
  <2>2. QED
    BY <1>1, <2>1
<1>5. QED
  BY <1>2, <1>3, <1>4

\* The archived records alone tell which revisions there are, who committed them and
\* how far every task got (to_dict archives records, revisions and tasks).
THEOREM LogAlwaysReplays == BoardSpec => []LogReplays
<1> DEFINE Inv == ProtectionInv /\ LogReplays
<1>1. BoardInit => Inv
  <2> SUFFICES ASSUME BoardInit PROVE LogReplays
    BY InitProtection
  <2>1. board.records = <<>> /\ board.tasks = <<>> /\ Len(board.revisions) = 1
    BY DEF BoardInit, NewBoard
  <2>2. CurrentRevision(board) = 0 /\ CommitRecords = {}
    BY <2>1 DEF CurrentRevision, CommitRecords
  <2>3. QED
    BY <2>1, <2>2 DEF LogReplays, CommitsReplay, TasksReplay
<1>2. Inv /\ [BoardNext]_board => Inv'
  <2> SUFFICES ASSUME Inv, [BoardNext]_board PROVE Inv'
    OBVIOUS
  <2>1. BoardTypeOK /\ ProtectionInv'
    BY NextProtection DEF ProtectionInv
  <2>2. Unlogged \/ Logged \/ Committed
    BY <2>1, RecordsStep
  <2>3. QED
    BY <2>1, <2>2, NextCommitsReplay, NextTasksReplay DEF LogReplays
<1>3. Inv => LogReplays
  OBVIOUS
<1>4. QED
  BY <1>1, <1>2, <1>3, BoardSteps, PTL DEF BoardSpec

-----------------------------------------------------------------------------
(* The task sessions                                                       *)

\* What no call may undo: whose session it is, its base and budget, and that it
\* was closed.
Continues(old, new) ==
  /\ <<new.task, new.role, new.base, new.budget, new.from>>
       = <<old.task, old.role, old.base, old.budget, old.from>>
  /\ old.status # "OPEN" =>
       new.messages = old.messages /\ new.status \in {old.status, "STALE"}

\* No session is opened, and each one continues.
InPlace ==
  /\ registry' \in Registry
  /\ registry'.roles = registry.roles
  /\ Len(registry'.sessions) = Len(registry.sessions)
  /\ \A s \in DOMAIN registry.sessions :
       Continues(registry.sessions[s], registry'.sessions[s])

\* What a session is rebased from.
RebasedFrom(s) ==
  s \in DOMAIN registry.sessions /\ registry.sessions[s].status = "STALE"

\* One session is opened, for a task without an OPEN one.
OneOpened ==
  \E task \in TaskIds, role \in Roles, base \in Bases, budget \in Budgets, from \in Nat :
    /\ ~OpenRefused(registry, task, role)
    /\ from # 0 => RebasedFrom(from)
    /\ registry' = Opened(registry, task, role, base, budget, from)

\* The registry's map of roles is the roles of the sessions.
RolesAssigned ==
  \A s \in DOMAIN registry.sessions :
    /\ registry.sessions[s].task \in DOMAIN registry.roles
    /\ registry.roles[registry.sessions[s].task] = registry.sessions[s].role

AnnouncedOK == /\ announced.seen \in 0 .. Len(registry.sessions)
               /\ announced.bases \subseteq Bases

\* What a session was rebased from is an older session.
RebasedEarlier ==
  \A s \in DOMAIN registry.sessions :
    registry.sessions[s].from # 0 => registry.sessions[s].from \in 1 .. s - 1

SessionInv == /\ SessionTypeOK /\ RolesAssigned /\ AnnouncedOK /\ RebasedEarlier
              /\ OneWriterPerTask /\ RebaseChains /\ OpenSessionsCurrent

-----------------------------------------------------------------------------
(* What the methods of a session do to it                                  *)

LEMMA AppendedContinues ==
  ASSUME NEW s \in Session, NEW role \in MessageRoles, NEW tokens \in Nat
  PROVE  Appended(s, role, tokens) \in Session /\ Continues(s, Appended(s, role, tokens))
<1>1. [role |-> role, tokens |-> tokens] \in Message
  BY DEF Message
<1>2. Append(s.messages, [role |-> role, tokens |-> tokens]) \in Seq(Message)
  BY <1>1 DEF Session
<1>3. [s EXCEPT !.messages = Append(s.messages, [role |-> role, tokens |-> tokens])]
        \in Session
  BY <1>2 DEF Session
<1>4. [s EXCEPT !.status = "EXPIRED"] \in Session
  BY DEF Session, SessionStatus
<1>5. QED
  BY <1>3, <1>4 DEF Appended, Continues, Session

LEMMA AssertedContinues ==
  ASSUME NEW s \in Session, NEW base
  PROVE  AssertedCurrent(s, base) \in Session /\ Continues(s, AssertedCurrent(s, base))
BY DEF AssertedCurrent, Continues, Session, SessionStatus

LEMMA ClosedContinues ==
  ASSUME NEW s \in Session, NEW status \in SessionStatus, ~CloseRefused(s, status)
  PROVE  Closed(s, status) \in Session /\ Continues(s, Closed(s, status))
BY DEF Closed, CloseRefused, Terminal, Continues, Session, SessionStatus

-----------------------------------------------------------------------------
(* The two shapes of a step                                                *)

\* A method of one session leaves all others as they are.
LEMMA OneContinues ==
  ASSUME SessionTypeOK, NEW s \in DOMAIN registry.sessions, NEW new \in Session,
         Continues(registry.sessions[s], new),
         registry' = WithSession(registry, s, new)
  PROVE  InPlace
<1>1. registry.sessions \in Seq(Session)
  BY DEF SessionTypeOK, Registry
<1>2. registry'.sessions = [registry.sessions EXCEPT ![s] = new]
        /\ registry'.roles = registry.roles
  BY DEF WithSession, SessionTypeOK, Registry
<1>3. registry'.sessions \in Seq(Session)
  BY <1>1, <1>2
<1>4. registry' = [registry EXCEPT !.sessions = registry'.sessions]
  BY <1>2 DEF WithSession, SessionTypeOK, Registry
<1>5. registry' \in Registry
  BY <1>3, <1>4 DEF SessionTypeOK, Registry
<1>6. QED
  BY <1>1, <1>2, <1>5 DEF InPlace, Continues

LEMMA AllContinue ==
  ASSUME SessionTypeOK, NEW base, NEW except,
         registry' = StaleAfterCommit(registry, base, except)
  PROVE  InPlace
<1>1. registry.sessions \in Seq(Session)
  BY DEF SessionTypeOK, Registry
<1>2. DEFINE next(s) == IF /\ registry.sessions[s].status = "OPEN" /\ s # except
                           /\ registry.sessions[s].base # base
                        THEN [registry.sessions[s] EXCEPT !.status = "STALE"]
                        ELSE registry.sessions[s]
<1>3. registry'.sessions = [s \in DOMAIN registry.sessions |-> next(s)]
        /\ registry'.roles = registry.roles
  BY DEF StaleAfterCommit, SessionTypeOK, Registry
<1>4. ASSUME NEW s \in DOMAIN registry.sessions
      PROVE  next(s) \in Session /\ Continues(registry.sessions[s], next(s))
  <2>1. registry.sessions[s] \in Session
    BY <1>1
  <2>2. [registry.sessions[s] EXCEPT !.status = "STALE"] \in Session
    BY <2>1 DEF Session, SessionStatus
  <2>3. QED
    BY <2>1, <2>2 DEF Continues, Session
<1> HIDE DEF next
<1>5. registry'.sessions \in Seq(Session)
        /\ Len(registry'.sessions) = Len(registry.sessions)
  BY <1>1, <1>3, <1>4
<1>6. registry' \in Registry
  BY <1>3, <1>5 DEF StaleAfterCommit, SessionTypeOK, Registry
<1>7. QED
  BY <1>1, <1>3, <1>4, <1>5, <1>6 DEF InPlace

LEMMA StepShape ==
  ASSUME SessionTypeOK, [SessionNext]_sessionVars
  PROVE  InPlace \/ OneOpened
<1>1. \A s \in DOMAIN registry.sessions : registry.sessions[s] \in Session
  BY DEF SessionTypeOK, Registry
<1>2. CASE OpenSession
  BY <1>2 DEF OpenSession, OneOpened
<1>3. CASE AppendMessage
  BY <1>1, <1>3, AppendedContinues, OneContinues, SessionAssumption DEF AppendMessage
<1>4. CASE AssertCurrent
  BY <1>1, <1>4, AssertedContinues, OneContinues DEF AssertCurrent
<1>5. CASE CloseSession
  BY <1>1, <1>5, ClosedContinues, OneContinues, SessionAssumption DEF CloseSession
<1>6. CASE RebaseSession
  <2>1. PICK s \in DOMAIN registry.sessions, base \in Bases :
          /\ ~RebaseRefused(registry, s) /\ registry' = Rebased(registry, s, base)
    BY <1>6 DEF RebaseSession
  <2>2. registry.sessions[s] \in Session /\ s \in Nat /\ s # 0
    BY <1>1 DEF SessionTypeOK, Registry
  <2>3. QED
    BY <2>1, <2>2 DEF OneOpened, RebaseRefused, Rebased, RebasedFrom, Session
<1>7. CASE CommitAnnounced
  BY <1>7, AllContinue DEF CommitAnnounced
<1>8. CASE UNCHANGED sessionVars
  BY <1>8 DEF sessionVars, InPlace, Continues, SessionTypeOK, Registry
<1>9. QED
  BY <1>2, <1>3, <1>4, <1>5, <1>6, <1>7, <1>8 DEF SessionNext

-----------------------------------------------------------------------------
(* The invariant                                                           *)

LEMMA InitSessions == SessionInit => SessionInv
<1> SUFFICES ASSUME SessionInit PROVE SessionInv
  OBVIOUS
<1>1. registry.sessions = <<>> /\ registry.roles = [t \in {} |-> t]
        /\ announced = [bases |-> {}, seen |-> 0]
  BY DEF SessionInit, EmptyRegistry
<1>2. registry.roles \in [{} -> Roles] /\ {} \in SUBSET TaskIds
  BY <1>1
<1>3. registry.roles \in PartialRoles
  BY <1>2 DEF PartialRoles
<1>4. SessionTypeOK
  BY <1>1, <1>3 DEF SessionTypeOK, Registry, SessionInit, EmptyRegistry
<1>5. QED
  BY <1>1, <1>4 DEF SessionInv, RolesAssigned, AnnouncedOK, OneWriterPerTask,
     RebasedEarlier, RebaseChains, OpenSessionsCurrent

\* A step in place: no session becomes OPEN and none changes hands.
LEMMA InPlaceInv ==
  ASSUME SessionInv, InPlace
  PROVE  /\ SessionTypeOK' /\ RolesAssigned' /\ OneWriterPerTask'
         /\ RebasedEarlier' /\ RebaseChains'
         /\ AnnouncedOK /\ UNCHANGED announced => AnnouncedOK' /\ OpenSessionsCurrent'
<1>1. /\ DOMAIN registry'.sessions = DOMAIN registry.sessions
      /\ DOMAIN registry.sessions = 1 .. Len(registry.sessions)
      /\ registry'.roles = registry.roles
      /\ \A s \in DOMAIN registry.sessions :
           Continues(registry.sessions[s], registry'.sessions[s])
  BY DEF InPlace, SessionInv, SessionTypeOK, Registry
<1>2. \A s \in DOMAIN registry.sessions :
        /\ registry.sessions[s] \in Session /\ registry'.sessions[s] \in Session
        /\ registry'.sessions[s].status = "OPEN" => registry.sessions[s].status = "OPEN"
        /\ registry.sessions[s].status = "STALE" => registry'.sessions[s].status = "STALE"
  BY <1>1 DEF InPlace, SessionInv, SessionTypeOK, Registry, Continues
<1>3. RolesAssigned'
  BY <1>1 DEF SessionInv, RolesAssigned, Continues
<1>4. OneWriterPerTask'
  <2>1. \A s \in DOMAIN registry.sessions :
          /\ registry'.sessions[s].task = registry.sessions[s].task
          /\ registry'.sessions[s].role = registry.sessions[s].role
    BY <1>1 DEF Continues
  <2>2. QED
    BY <1>1, <1>2, <2>1 DEF SessionInv, OneWriterPerTask
<1>5. RebasedEarlier' /\ RebaseChains'
  <2>1. RebasedEarlier'
    BY <1>1 DEF SessionInv, RebasedEarlier, Continues
  <2>2. ASSUME NEW s \in DOMAIN registry.sessions, registry.sessions[s].from # 0
        PROVE  /\ registry.sessions[s].from \in DOMAIN registry.sessions
               /\ \A t \in 1 .. s - 1 : t \in DOMAIN registry.sessions
    BY <1>1, <2>2 DEF SessionInv, RebasedEarlier, SessionTypeOK, Registry
  <2>3. \A s \in DOMAIN registry.sessions :
          /\ registry'.sessions[s].from = registry.sessions[s].from
          /\ registry'.sessions[s].task = registry.sessions[s].task
    BY <1>1 DEF Continues
  <2>4. RebaseChains
    BY DEF SessionInv
  <2>5. RebaseChains'
    <3> SUFFICES ASSUME NEW s \in DOMAIN registry.sessions, registry.sessions[s].from # 0
                 PROVE  /\ registry'.sessions[registry.sessions[s].from].status = "STALE"
                        /\ \A t \in 1 .. s - 1 :
                             registry.sessions[t].task = registry.sessions[s].task =>
                               registry'.sessions[t].status # "OPEN"
      BY <1>1, <2>2, <2>3 DEF RebaseChains
    <3>1. registry.sessions[registry.sessions[s].from].status = "STALE"
      BY <2>4 DEF RebaseChains
    <3>2. \A t \in 1 .. s - 1 :
            registry.sessions[t].task = registry.sessions[s].task =>
              registry.sessions[t].status # "OPEN"
      BY <2>4 DEF RebaseChains
    <3>3. QED
      BY <1>2, <2>2, <3>1, <3>2
  <2>6. QED
    BY <2>1, <2>5
<1>6. ASSUME UNCHANGED announced PROVE AnnouncedOK' /\ OpenSessionsCurrent'
  BY <1>1, <1>2, <1>6 DEF SessionInv, AnnouncedOK, OpenSessionsCurrent, Continues, InPlace
<1>7. QED
  BY <1>3, <1>4, <1>5, <1>6 DEF SessionTypeOK, InPlace

\* The announcement of a commit: what is still OPEN has the announced base.
LEMMA CommitInv ==
  ASSUME SessionInv, CommitAnnounced
  PROVE  SessionInv'
<1>1. PICK base \in Bases :
        /\ registry' = StaleAfterCommit(registry, base, 0)
        /\ announced' = [bases |-> {base}, seen |-> Len(registry.sessions)]
  BY DEF CommitAnnounced
<1>2. InPlace
  BY <1>1, AllContinue DEF SessionInv
<1>3. \A s \in DOMAIN registry.sessions :
        registry'.sessions[s].status = "OPEN" => registry'.sessions[s].base = base
  <2>1. \A s \in DOMAIN registry.sessions : registry.sessions[s] \in Session /\ s # 0
    BY DEF SessionInv, SessionTypeOK, Registry
  <2>2. QED
    BY <1>1, <2>1 DEF StaleAfterCommit, Session, SessionInv, SessionTypeOK, Registry
<1>4. AnnouncedOK' /\ OpenSessionsCurrent'
  BY <1>1, <1>2, <1>3 DEF AnnouncedOK, OpenSessionsCurrent, InPlace, SessionInv,
     SessionTypeOK, Registry
<1>5. QED
  BY <1>2, <1>4, InPlaceInv DEF SessionInv

\* A new session: its task had no OPEN one, and its role is the task's from the
\* task's first session on.
LEMMA OpenedInv ==
  ASSUME SessionInv, OneOpened, UNCHANGED announced
  PROVE  SessionInv'
<1>1. PICK task \in TaskIds, role \in Roles, base \in Bases, budget \in Budgets, from \in Nat :
        /\ ~OpenRefused(registry, task, role)
        /\ from # 0 => RebasedFrom(from)
        /\ registry' = Opened(registry, task, role, base, budget, from)
  BY DEF OneOpened
<1> DEFINE new == NewSession(task, role, base, budget, from)
           n == Len(registry.sessions) + 1
<1>2. new \in Session
  BY DEF NewSession, Session, SessionStatus
<1>3. /\ registry'.sessions = Append(registry.sessions, new)
      /\ registry'.roles = Assigned(registry.roles, task, role)
  BY <1>1 DEF Opened
<1>4. /\ registry.sessions \in Seq(Session) /\ registry'.sessions \in Seq(Session)
      /\ DOMAIN registry.sessions = 1 .. n - 1 /\ DOMAIN registry'.sessions = 1 .. n
      /\ n \in Nat /\ Len(registry'.sessions) = n
      /\ registry'.sessions[n] = new
      /\ \A s \in 1 .. n - 1 : /\ registry'.sessions[s] = registry.sessions[s]
                               /\ registry.sessions[s] \in Session
  BY <1>2, <1>3 DEF SessionInv, SessionTypeOK, Registry
<1>5. /\ new.task = task /\ new.role = role /\ new.base = base /\ new.budget = budget
      /\ new.from = from /\ new.status = "OPEN"
  BY DEF NewSession
<1> HIDE DEF new, n
<1>6. SessionTypeOK'
  <2>1. PICK D \in SUBSET TaskIds : registry.roles \in [D -> Roles]
    BY DEF SessionInv, SessionTypeOK, Registry, PartialRoles
  <2>2. /\ registry'.roles \in [D \cup {task} -> Roles]
        /\ D \cup {task} \in SUBSET TaskIds
    BY <1>3, <2>1 DEF Assigned
  <2>3. registry'.roles \in PartialRoles
    BY <2>2 DEF PartialRoles
  <2>4. QED
    BY <1>1, <1>4, <2>3 DEF SessionTypeOK, Registry, Opened
<1>7. RolesAssigned'
  BY <1>1, <1>3, <1>4, <1>5 DEF SessionInv, RolesAssigned, Assigned, OpenRefused, OtherRole
<1>8. AnnouncedOK'
  BY <1>4 DEF SessionInv, AnnouncedOK
<1>9. OneWriterPerTask'
  <2>1. ASSUME NEW s \in 1 .. n - 1, registry.sessions[s].task = task
        PROVE  registry.sessions[s].role = role /\ registry.sessions[s].status # "OPEN"
    BY <1>1, <1>4, <2>1 DEF SessionInv, RolesAssigned, OpenRefused, OtherRole, HasOpenSession
  <2>2. ASSUME NEW s \in 1 .. n, NEW t \in 1 .. n,
               registry'.sessions[s].task = registry'.sessions[t].task
        PROVE  /\ registry'.sessions[s].role = registry'.sessions[t].role
               /\ (/\ registry'.sessions[s].status = "OPEN"
                   /\ registry'.sessions[t].status = "OPEN") => s = t
    <3>1. CASE s \in 1 .. n - 1 /\ t \in 1 .. n - 1
      <4>1. /\ s \in DOMAIN registry.sessions /\ t \in DOMAIN registry.sessions
            /\ registry'.sessions[s] = registry.sessions[s]
            /\ registry'.sessions[t] = registry.sessions[t]
        BY <1>4, <3>1
      <4>2. QED
        BY <2>2, <4>1 DEF SessionInv, OneWriterPerTask
    <3>2. CASE s \in 1 .. n - 1 /\ t = n
      BY <1>4, <1>5, <2>1, <2>2, <3>2
    <3>3. CASE s = n /\ t \in 1 .. n - 1
      BY <1>4, <1>5, <2>1, <2>2, <3>3
    <3>4. CASE s = n /\ t = n
      BY <3>4
    <3>5. QED
      BY <1>4, <3>1, <3>2, <3>3, <3>4
  <2>3. QED
    BY <1>4, <2>2 DEF OneWriterPerTask
<1>10. RebasedEarlier'
  <2>1. from # 0 => from \in 1 .. n - 1
    BY <1>1, <1>4 DEF RebasedFrom
  <2>2. \A s \in 1 .. n - 1 :
          registry.sessions[s].from # 0 => registry.sessions[s].from \in 1 .. s - 1
    BY <1>4 DEF SessionInv, RebasedEarlier
  <2>3. \A s \in 1 .. n :
          registry'.sessions[s].from # 0 => registry'.sessions[s].from \in 1 .. s - 1
    BY <1>4, <1>5, <2>1, <2>2
  <2>4. QED
    BY <1>4, <2>3 DEF RebasedEarlier
<1>11. RebaseChains'
  <2>1. ASSUME NEW s \in 1 .. n, registry'.sessions[s].from # 0,
               NEW t \in 1 .. s - 1, registry'.sessions[t].task = registry'.sessions[s].task
        PROVE  registry'.sessions[t].status # "OPEN"
    <3>1. t \in 1 .. n - 1 /\ t \in DOMAIN registry.sessions
      BY <1>4
    <3>2. CASE s = n
      <4>1. registry.sessions[t].task = task /\ registry'.sessions[t] = registry.sessions[t]
        BY <1>4, <1>5, <2>1, <3>1, <3>2
      <4>2. registry.sessions[t].status # "OPEN"
        BY <1>1, <3>1, <4>1 DEF OpenRefused, HasOpenSession
      <4>3. QED
        BY <4>1, <4>2
    <3>3. CASE s \in 1 .. n - 1
      <4>1. /\ registry'.sessions[s] = registry.sessions[s] /\ s \in DOMAIN registry.sessions
            /\ registry'.sessions[t] = registry.sessions[t]
        BY <1>4, <3>1, <3>3
      <4>2. registry.sessions[t].status # "OPEN"
        BY <2>1, <4>1 DEF SessionInv, RebaseChains
      <4>3. QED
        BY <4>1, <4>2
    <3>4. QED
      BY <1>4, <3>2, <3>3
  <2>2. ASSUME NEW s \in 1 .. n, registry'.sessions[s].from # 0
        PROVE  registry'.sessions[registry'.sessions[s].from].status = "STALE"
    <3>1. CASE s = n
      <4>1. from \in 1 .. n - 1 /\ registry.sessions[from].status = "STALE"
        BY <1>1, <1>4, <1>5, <2>2, <3>1 DEF RebasedFrom
      <4>2. QED
        BY <1>4, <1>5, <3>1, <4>1
    <3>2. CASE s \in 1 .. n - 1
      <4>1. registry'.sessions[s] = registry.sessions[s] /\ s \in DOMAIN registry.sessions
        BY <1>4, <3>2
      <4>2. registry.sessions[s].from \in 1 .. s - 1
        BY <2>2, <4>1 DEF SessionInv, RebasedEarlier
      <4>3. registry'.sessions[registry.sessions[s].from]
              = registry.sessions[registry.sessions[s].from]
        BY <1>4, <3>2, <4>2
      <4>4. QED
        BY <2>2, <4>1, <4>3 DEF SessionInv, RebaseChains
    <3>3. QED
      BY <1>4, <3>1, <3>2
  <2>3. QED
    BY <1>4, <2>1, <2>2 DEF RebaseChains
<1>12. OpenSessionsCurrent'
  BY <1>4 DEF SessionInv, AnnouncedOK, OpenSessionsCurrent
<1>13. QED
  BY <1>6, <1>7, <1>8, <1>9, <1>10, <1>11, <1>12 DEF SessionInv

LEMMA NextSessions == SessionInv /\ [SessionNext]_sessionVars => SessionInv'
<1> SUFFICES ASSUME SessionInv, [SessionNext]_sessionVars PROVE SessionInv'
  OBVIOUS
<1>1. CASE CommitAnnounced
  BY <1>1, CommitInv
<1>2. CASE ~CommitAnnounced
  <2>1. UNCHANGED announced
    BY <1>2 DEF SessionNext, OpenSession, AppendMessage, AssertCurrent, CloseSession,
       RebaseSession, sessionVars
  <2>2. QED
    BY <2>1, StepShape, InPlaceInv, OpenedInv DEF SessionInv
<1>3. QED
  BY <1>1, <1>2

LEMMA SessionsAlways == SessionSpec => []SessionInv
<1>1. QED
  BY InitSessions, NextSessions, PTL DEF SessionSpec

-----------------------------------------------------------------------------
(* The theorems                                                            *)

\* Sessions, transcripts and the role map keep the types of TaskSession and
\* TaskSessionRegistry.
THEOREM SessionTypeCorrect == SessionSpec => []SessionTypeOK
<1>1. SessionInv => SessionTypeOK
  BY DEF SessionInv
<1>2. QED
  BY <1>1, SessionsAlways, PTL

\* A task never has two sessions that can write, nor sessions of two roles
\* (TaskSessionRegistry.open and rebase).
THEOREM OneWriter == SessionSpec => []OneWriterPerTask
<1>1. SessionInv => OneWriterPerTask
  BY DEF SessionInv
<1>2. QED
  BY <1>1, SessionsAlways, PTL

\* However often sessions are rebased, a rebased session continues a STALE one and
\* every older session of its task has ended (TaskSessionRegistry.rebase).
THEOREM RebaseChainsCorrect == SessionSpec => []RebaseChains
<1>1. SessionInv => RebaseChains
  BY DEF SessionInv
<1>2. QED
  BY <1>1, SessionsAlways, PTL

\* An announced commit leaves no session OPEN on another base
\* (TaskSessionRegistry.stale_after_commit).
THEOREM OpenAreCurrent == SessionSpec => []OpenSessionsCurrent
<1>1. SessionInv => OpenSessionsCurrent
  BY DEF SessionInv
<1>2. QED
  BY <1>1, SessionsAlways, PTL

\* A closed session never writes again and never reopens (TaskSession.append and
\* TaskSession.close).
THEOREM ClosedStays == SessionSpec => ClosedForGood
<1>1. ASSUME SessionInv, [SessionNext]_sessionVars, NEW s \in DOMAIN registry.sessions,
             registry.sessions[s].status # "OPEN"
      PROVE  /\ registry'.sessions[s].messages = registry.sessions[s].messages
             /\ registry'.sessions[s].status \in {registry.sessions[s].status, "STALE"}
  <2>1. CASE InPlace
    BY <1>1, <2>1 DEF InPlace, Continues
  <2>2. CASE OneOpened
    <3>1. registry.sessions \in Seq(Session)
      BY <1>1 DEF SessionInv, SessionTypeOK, Registry
    <3>2. PICK new : registry'.sessions = Append(registry.sessions, new)
      BY <2>2 DEF OneOpened, Opened
    <3>3. registry'.sessions[s] = registry.sessions[s]
      BY <1>1, <3>1, <3>2
    <3>4. QED
      BY <3>3
  <2>3. QED
    BY <1>1, <2>1, <2>2, StepShape DEF SessionInv
<1>2. SessionInv /\ [SessionNext]_sessionVars =>
        [\A s \in DOMAIN registry.sessions :
           registry.sessions[s].status # "OPEN" =>
             /\ registry'.sessions[s].messages = registry.sessions[s].messages
             /\ registry'.sessions[s].status \in {registry.sessions[s].status, "STALE"}
        ]_sessionVars
  BY <1>1
<1>3. QED
  BY <1>2, SessionsAlways, PTL DEF SessionSpec, ClosedForGood

-----------------------------------------------------------------------------
(* The board under the controller                                          *)

SourceRevision == [text : Texts, task : {0}]
Entry == [type : {"ANALYSIS", "MODEL"},
          topic : Topics \cup {"control.activation", "model.committed"},
          reqs : {NoReqs}, bound : BOOLEAN, rev : Int, task : {0}, status : {"NONE"}]

\* A board as the controller leaves it, with some protected blocks.
BoardWith(protected) ==
  [revisions : Seq(SourceRevision), records : Seq(Entry), tasks : {<<>>},
   protected : {protected}, rejected : {0}, permitted : {0}]

BoardOK(b) == b \in BoardWith(b.protected)

\* No record is lost or changed from b to c.
Extends(b, c) ==
  /\ Len(b.records) <= Len(c.records)
  /\ \A k \in 1 .. Len(b.records) : c.records[k] = b.records[k]

-----------------------------------------------------------------------------
(* What a step does to the board                                           *)

\* The record that Log appends.
EntryOf(note, rev) ==
  [type |-> note.type, topic |-> note.topic, reqs |-> note.reqs,
   bound |-> note.bound, rev |-> rev, task |-> 0, status |-> "NONE"]

LEMMA AppendEntry ==
  ASSUME NEW s \in Seq(Entry), NEW e \in Entry
  PROVE  /\ Append(s, e) \in Seq(Entry)
         /\ Len(Append(s, e)) = Len(s) + 1 /\ Len(s) \in Nat
         /\ DOMAIN s = 1 .. Len(s)
         /\ \A k \in 1 .. Len(s) : Append(s, e)[k] = s[k]
         /\ Append(s, e)[Len(s) + 1] = e
OBVIOUS

LEMMA LogExtends ==
  ASSUME NEW b, BoardOK(b), NEW note, NEW rev, EntryOf(note, rev) \in Entry
  PROVE  /\ BoardOK(Log(b, note, rev, 0, "NONE"))
         /\ Log(b, note, rev, 0, "NONE").records = Append(b.records, EntryOf(note, rev))
         /\ Log(b, note, rev, 0, "NONE").revisions = b.revisions
<1> DEFINE e == EntryOf(note, rev)
<1>1. Log(b, note, rev, 0, "NONE") = [b EXCEPT !.records = Append(b.records, e)]
  BY DEF Log, EntryOf
<1> HIDE DEF e
<1>2. Append(b.records, e) \in Seq(Entry)
  BY DEF BoardOK, BoardWith, e
<1>3. QED
  BY <1>1, <1>2 DEF BoardOK, BoardWith, e

LEMMA RevisionType ==
  ASSUME NEW b, BoardOK(b)
  PROVE  CurrentRevision(b) \in Int
BY DEF BoardOK, BoardWith, CurrentRevision

LEMMA PublishExtends ==
  ASSUME NEW b, BoardOK(b), NEW topic \in Topics \cup {"control.activation"},
         NEW bound \in BOOLEAN
  PROVE  LET c == PublishStep(b, topic, bound)
         IN  /\ BoardOK(c) /\ Extends(b, c)
             /\ Len(c.records) = Len(b.records) + 1
             /\ c.records[Len(b.records) + 1].rev = CurrentRevision(b)
<1> DEFINE note == [type |-> "ANALYSIS", topic |-> topic, reqs |-> NoReqs, bound |-> bound]
           e == EntryOf(note, CurrentRevision(b))
<1>1. PublishStep(b, topic, bound) = Log(b, note, CurrentRevision(b), 0, "NONE")
  BY DEF PublishStep, Published
<1>2. e \in Entry /\ e.rev = CurrentRevision(b)
  BY RevisionType DEF Entry, EntryOf
<1> HIDE DEF note, e
<1>3. /\ BoardOK(PublishStep(b, topic, bound))
      /\ PublishStep(b, topic, bound).records = Append(b.records, e)
  BY <1>1, <1>2, LogExtends DEF e
<1>4. b.records \in Seq(Entry)
  BY DEF BoardOK, BoardWith
<1>5. QED
  BY <1>2, <1>3, <1>4, AppendEntry DEF Extends

LEMMA CommitExtends ==
  ASSUME NEW b, BoardOK(b), NEW text \in Texts
  PROVE  LET c == Commit(b, text, CurrentRevision(b), CurrentText(b), 0)
         IN  BoardOK(c) /\ Extends(b, c)
<1> DEFINE d == [b EXCEPT !.revisions = Append(b.revisions, [text |-> text, task |-> 0]),
                          !.protected = Protect(b.protected, text)]
           note == BoardNote("MODEL", "model.committed")
           e == EntryOf(note, CurrentRevision(b) + 1)
<1>1. \/ Commit(b, text, CurrentRevision(b), CurrentText(b), 0) = b
      \/ Commit(b, text, CurrentRevision(b), CurrentText(b), 0)
           = Log(d, note, CurrentRevision(b) + 1, 0, "NONE")
  BY DEF Commit, StaleBase, CommittedModel
<1>2. BoardOK(d) /\ d.records = b.records
  <2> DEFINE r == [text |-> text, task |-> 0]
             p == Protect(b.protected, text)
  <2>1. r \in SourceRevision
    BY DEF SourceRevision
  <2> HIDE DEF r, p
  <2>2. Append(b.revisions, r) \in Seq(SourceRevision)
    BY <2>1 DEF BoardOK, BoardWith
  <2>3. d = [b EXCEPT !.revisions = Append(b.revisions, r), !.protected = p]
    BY DEF r, p
  <2> HIDE DEF d
  <2>4. QED
    BY <2>2, <2>3 DEF BoardOK, BoardWith
<1>3. e \in Entry
  BY RevisionType DEF Entry, EntryOf, BoardNote
<1> HIDE DEF d, e, note
<1>4. /\ BoardOK(Log(d, note, CurrentRevision(b) + 1, 0, "NONE"))
      /\ Log(d, note, CurrentRevision(b) + 1, 0, "NONE").records = Append(b.records, e)
  BY <1>2, <1>3, LogExtends DEF e
<1>5. b.records \in Seq(Entry)
  BY DEF BoardOK, BoardWith
<1>6. Extends(b, b)
  BY <1>5 DEF Extends
<1>7. QED
  BY <1>1, <1>3, <1>4, <1>5, <1>6, AppendEntry DEF Extends

LEMMA TakeExtends ==
  ASSUME NEW b, BoardOK(b), NEW step \in Steps
  PROVE  BoardOK(Take(b, step)) /\ Extends(b, Take(b, step))
<1>1. CASE step \in [kind : {"publish"}, topic : Topics, bound : BOOLEAN]
  BY <1>1, PublishExtends DEF Take
<1>2. CASE step \in [kind : {"commit"}, text : Texts]
  BY <1>2, CommitExtends DEF Take
<1>3. QED
  BY <1>1, <1>2 DEF Steps

-----------------------------------------------------------------------------
(* The invariant                                                           *)

LogEntry == [source : Sources, status : {"COMPLETED", "FAILED"}, at : Nat \ {0}]

ControllerTypeOK ==
  /\ BoardOK(board) /\ partial \in BOOLEAN
  /\ phase \in {"seeding", "idle", "firing", "running", "done", "stalled", "failed"}
  /\ agenda \subseteq Sources /\ activated \subseteq Sources
  /\ todo \in Seq(Steps) /\ log \in Seq(LogEntry)
  /\ phase = "running" => running \in Sources

\* The log, activated and the agenda tell the same story.
LogTold ==
  /\ \A k \in DOMAIN log : log[k].source \in activated /\ log[k].at <= Len(board.records)
  /\ \A s \in activated : \E k \in DOMAIN log : log[k].source = s
  /\ agenda \cap activated = {}
  /\ phase = "running" => running \notin activated \cup agenda

ControllerInv ==
  ControllerTypeOK /\ LogTold /\ CompletedLeftOutputs /\ EachOnce /\ EndsAtFixpoint

LEMMA InitController == ControllerInit => ControllerInv
<1> SUFFICES ASSUME ControllerInit PROVE ControllerInv
  OBVIOUS
<1>1. BoardOK(board)
  <2> DEFINE p == Protect(NoReqs, InitialText)
             r == [text |-> InitialText, task |-> 0]
  <2>1. board = [revisions |-> <<r>>, records |-> <<>>, tasks |-> <<>>,
                 protected |-> p, rejected |-> 0, permitted |-> 0]
    BY DEF ControllerInit, NewBoard
  <2>2. r \in SourceRevision
    BY ControllerAssumption DEF SourceRevision
  <2> HIDE DEF p, r
  <2>3. QED
    BY <2>1, <2>2 DEF BoardOK, BoardWith
<1>2. ControllerTypeOK
  BY <1>1, ControllerAssumption DEF ControllerInit, ControllerTypeOK
<1>3. log = <<>> /\ agenda = {} /\ activated = {} /\ phase = "seeding"
  BY DEF ControllerInit
<1>4. QED
  BY <1>2, <1>3
  DEF ControllerInv, LogTold, CompletedLeftOutputs, EachOnce, EndsAtFixpoint

\* What a source left behind stays readable while the log grows.
LEMMA OutputsStay ==
  ASSUME ControllerTypeOK, LogTold, CompletedLeftOutputs, Extends(board, board'),
         log' = log
  PROVE  CompletedLeftOutputs'
<1> SUFFICES ASSUME NEW k \in DOMAIN log, log[k].status = "COMPLETED",
                    NEW topic \in Outputs[log[k].source]
             PROVE  \E j \in 1 .. log[k].at - 1 :
                      /\ board'.records[j].topic = topic
                      /\ ~board'.records[j].bound
                           \/ board'.records[j].rev = board'.records[log[k].at].rev
  BY DEF CompletedLeftOutputs
<1>1. PICK j \in 1 .. log[k].at - 1 :
        /\ board.records[j].topic = topic
        /\ ~board.records[j].bound \/ board.records[j].rev = board.records[log[k].at].rev
  BY DEF CompletedLeftOutputs
<1>2. log[k].at \in 1 .. Len(board.records) /\ Len(board.records) \in Nat
  <2>1. log[k] \in LogEntry
    BY DEF ControllerTypeOK
  <2>2. Len(board.records) \in Nat
    BY DEF ControllerTypeOK, BoardOK, BoardWith
  <2>3. log[k].at \in Nat \ {0} /\ log[k].at <= Len(board.records)
    BY <2>1 DEF LogEntry, LogTold
  <2>4. QED
    BY <2>2, <2>3
<1>3. /\ board'.records[j] = board.records[j]
      /\ board'.records[log[k].at] = board.records[log[k].at]
  BY <1>1, <1>2 DEF Extends
<1>4. QED
  BY <1>1, <1>3

\* The activation record is of the current revision and comes after every record that
\* made the outputs visible.
LEMMA RecordedOutputs ==
  ASSUME BoardOK(board), NEW s, OutputsPresent(board, s),
         board' = PublishStep(board, "control.activation", TRUE),
         NEW topic \in Outputs[s]
  PROVE  \E j \in 1 .. Len(board.records) :
           /\ board'.records[j].topic = topic
           /\ ~board'.records[j].bound
                \/ board'.records[j].rev = board'.records[Len(board.records) + 1].rev
<1>1. topic \in Visible(board)
  BY DEF OutputsPresent
<1>2. PICK j \in DOMAIN board.records :
        /\ board.records[j].topic = topic
        /\ ~board.records[j].bound \/ board.records[j].rev = CurrentRevision(board)
  BY <1>1 DEF Visible
<1>3. j \in 1 .. Len(board.records)
  BY <1>2 DEF BoardOK, BoardWith
<1>4. /\ Extends(board, board')
      /\ board'.records[Len(board.records) + 1].rev = CurrentRevision(board)
  BY PublishExtends
<1>5. QED
  BY <1>2, <1>3, <1>4 DEF Extends

\* The end of an activation: the log gets one entry, about the source that ran.
LEMMA RecordedInv ==
  ASSUME ControllerInv, phase = "running", phase' \in {"idle", "firing", "failed"},
         NEW status \in {"COMPLETED", "FAILED"},
         status = "COMPLETED" => OutputsPresent(board, running),
         status = "FAILED" <=> phase' = "failed",
         Recorded(status), UNCHANGED <<partial, agenda, running, todo>>
  PROVE  ControllerInv'
<1>1. /\ ControllerTypeOK /\ LogTold /\ CompletedLeftOutputs /\ EachOnce
      /\ BoardOK(board) /\ running \in Sources
  BY DEF ControllerInv, ControllerTypeOK
<1>2. /\ board' = PublishStep(board, "control.activation", TRUE)
      /\ activated' = activated \cup {running}
      /\ log' = Append(log, [source |-> running, status |-> status,
                             at |-> Len(board.records) + 1])
  BY DEF Recorded
<1>3. /\ BoardOK(board') /\ Extends(board, board')
      /\ Len(board'.records) = Len(board.records) + 1
  BY <1>1, <1>2, PublishExtends
<1>4. Len(board.records) \in Nat
  BY <1>1 DEF BoardOK, BoardWith
<1> DEFINE entry == [source |-> running, status |-> status, at |-> Len(board.records) + 1]
           n == Len(log)
<1>5. /\ entry \in LogEntry /\ entry.source = running /\ entry.status = status
      /\ entry.at = Len(board.records) + 1
  BY <1>1, <1>4 DEF LogEntry
<1>6. log' = Append(log, entry)
  BY <1>2
<1> HIDE DEF entry
<1>7. /\ log' \in Seq(LogEntry) /\ n \in Nat /\ DOMAIN log = 1 .. n
      /\ DOMAIN log' = 1 .. n + 1 /\ Len(log') = n + 1 /\ log'[n + 1] = entry
      /\ \A k \in 1 .. n : log'[k] = log[k]
  BY <1>1, <1>5, <1>6 DEF ControllerTypeOK
<1> HIDE DEF n
<1>8. ControllerTypeOK'
  BY <1>1, <1>2, <1>3, <1>7 DEF ControllerTypeOK
<1>9. LogTold'
  <2>1. ASSUME NEW k \in DOMAIN log'
        PROVE  log'[k].source \in activated' /\ log'[k].at <= Len(board'.records)
    <3>1. CASE k = n + 1
      <4>1. log'[k].source = running /\ log'[k].at = Len(board.records) + 1
        BY <1>5, <1>7, <3>1
      <4>2. log'[k].at <= Len(board'.records)
        BY <1>3, <1>4, <4>1
      <4>3. QED
        BY <1>2, <4>1, <4>2
    <3>2. CASE k \in 1 .. n
      <4>1. log[k] \in LogEntry
        BY <1>1, <1>7, <3>2 DEF ControllerTypeOK
      <4>2. log[k].source \in activated /\ log[k].at <= Len(board.records)
        BY <1>1, <1>7, <3>2 DEF LogTold
      <4>3. log[k].at \in Nat
        BY <4>1 DEF LogEntry
      <4>4. log[k].at <= Len(board'.records)
        BY <1>3, <1>4, <4>2, <4>3
      <4>5. QED
        BY <1>2, <1>7, <3>2, <4>2, <4>4
    <3>3. QED
      BY <1>7, <3>1, <3>2
  <2>2. ASSUME NEW s \in activated'
        PROVE  \E k \in DOMAIN log' : log'[k].source = s
    <3>1. CASE s = running
      BY <1>5, <1>7, <3>1
    <3>2. CASE s \in activated
      BY <1>1, <1>7, <3>2 DEF LogTold
    <3>3. QED
      BY <1>2, <3>1, <3>2
  <2>3. agenda' \cap activated' = {}
    BY <1>1, <1>2 DEF LogTold
  <2>4. QED
    BY <2>1, <2>2, <2>3 DEF LogTold
<1>10. CompletedLeftOutputs'
  <2> SUFFICES ASSUME NEW k \in DOMAIN log', log'[k].status = "COMPLETED",
                      NEW topic \in Outputs[log'[k].source]
               PROVE  \E j \in 1 .. log'[k].at - 1 :
                        /\ board'.records[j].topic = topic
                        /\ ~board'.records[j].bound
                             \/ board'.records[j].rev = board'.records[log'[k].at].rev
    BY DEF CompletedLeftOutputs
  <2>1. CASE k = n + 1
    <3>1. /\ log'[k].at = Len(board.records) + 1 /\ log'[k].source = running
          /\ status = "COMPLETED"
      BY <1>5, <1>7, <2>1
    <3>2. OutputsPresent(board, running) /\ topic \in Outputs[running]
      BY <3>1
    <3>3. PICK j \in 1 .. Len(board.records) :
            /\ board'.records[j].topic = topic
            /\ ~board'.records[j].bound
                 \/ board'.records[j].rev = board'.records[Len(board.records) + 1].rev
      BY <1>1, <1>2, <3>2, RecordedOutputs, Zenon
    <3>4. log'[k].at - 1 = Len(board.records)
      BY <1>4, <3>1
    <3>5. QED
      BY <3>1, <3>3, <3>4
  <2>2. CASE k \in 1 .. n
    <3>1. log'[k] = log[k] /\ k \in DOMAIN log
      BY <1>7, <2>2
    <3>2. PICK j \in 1 .. log[k].at - 1 :
            /\ board.records[j].topic = topic
            /\ ~board.records[j].bound \/ board.records[j].rev = board.records[log[k].at].rev
      BY <1>1, <3>1 DEF CompletedLeftOutputs
    <3>3. log[k] \in LogEntry /\ log[k].at <= Len(board.records)
      BY <1>1, <3>1 DEF ControllerTypeOK, LogTold
    <3>4. log[k].at \in 1 .. Len(board.records) /\ j \in 1 .. Len(board.records)
      BY <1>4, <3>2, <3>3 DEF LogEntry
    <3>5. /\ board'.records[j] = board.records[j]
          /\ board'.records[log[k].at] = board.records[log[k].at]
      BY <1>3, <3>4 DEF Extends
    <3>6. QED
      BY <3>1, <3>2, <3>5
  <2>3. QED
    BY <1>7, <2>1, <2>2
<1>11. EachOnce'
  <2>1. \A k \in 1 .. n : log[k].source # running /\ log[k].status # "FAILED"
    BY <1>1, <1>7 DEF LogTold, EachOnce
  <2>2. \A k \in DOMAIN log' : k \in 1 .. n \/ k = n + 1
    BY <1>7
  <2>3. \A j, k \in DOMAIN log' : log'[j].source = log'[k].source => j = k
    BY <1>1, <1>5, <1>7, <2>1, <2>2 DEF EachOnce
  <2>4. \A k \in DOMAIN log' : log'[k].status = "FAILED" => phase' = "failed" /\ k = Len(log')
    BY <1>5, <1>7, <2>1, <2>2
  <2>5. QED
    BY <2>3, <2>4 DEF EachOnce
<1>12. QED
  BY <1>8, <1>9, <1>10, <1>11 DEF ControllerInv, EndsAtFixpoint

\* A step of a pass that records nothing.
LEMMA QuietStep ==
  ASSUME ControllerInv, UNCHANGED <<activated, log>>, phase # "failed",
         ControllerTypeOK', Extends(board, board'),
         agenda' \cap activated = {},
         phase' = "running" => running' \notin activated \cup agenda',
         EndsAtFixpoint'
  PROVE  ControllerInv'
<1>1. ControllerTypeOK /\ LogTold /\ CompletedLeftOutputs /\ EachOnce
  BY DEF ControllerInv
<1>2. CompletedLeftOutputs'
  BY <1>1, OutputsStay
<1>3. EachOnce'
  BY <1>1 DEF EachOnce
<1>4. LogTold'
  <2>1. ASSUME NEW k \in DOMAIN log PROVE log[k].at <= Len(board'.records)
    <3>1. log[k] \in LogEntry /\ log[k].at <= Len(board.records)
      BY <1>1 DEF ControllerTypeOK, LogTold
    <3>2. Len(board.records) <= Len(board'.records)
      BY DEF Extends
    <3>3. Len(board.records) \in Nat /\ Len(board'.records) \in Nat
      BY <1>1 DEF ControllerTypeOK, BoardOK, BoardWith
    <3>4. QED
      BY <3>1, <3>2, <3>3 DEF LogEntry
  <2>2. QED
    BY <1>1, <2>1 DEF LogTold
<1>5. QED
  BY <1>2, <1>3, <1>4 DEF ControllerInv

LEMMA NextController == ControllerInv /\ [ControllerNext]_vars => ControllerInv'
<1> SUFFICES ASSUME ControllerInv, [ControllerNext]_vars PROVE ControllerInv'
  OBVIOUS
<1>1. ControllerTypeOK /\ LogTold /\ EachOnce /\ EndsAtFixpoint
  BY DEF ControllerInv
<1>2. Extends(board, board)
  BY <1>1 DEF ControllerTypeOK, BoardOK, BoardWith, Extends
<1>3. CASE TakeStep
  <2>1. Head(todo) \in Steps /\ Tail(todo) \in Seq(Steps)
    BY <1>1, <1>3 DEF TakeStep, ControllerTypeOK
  <2>2. BoardOK(board') /\ Extends(board, board')
    BY <1>1, <1>3, <2>1, TakeExtends DEF TakeStep, ControllerTypeOK
  <2>3. ControllerTypeOK'
    BY <1>1, <1>3, <2>1, <2>2 DEF TakeStep, ControllerTypeOK
  <2>4. EndsAtFixpoint'
    BY <1>3 DEF TakeStep, EndsAtFixpoint
  <2>5. QED
    BY <1>1, <1>3, <2>2, <2>3, <2>4, QuietStep DEF TakeStep, LogTold
<1>4. CASE StartRun
  <2>1. ControllerTypeOK'
    BY <1>1, <1>4 DEF StartRun, ControllerTypeOK
  <2>2. EndsAtFixpoint'
    BY <1>4 DEF StartRun, EndsAtFixpoint
  <2>3. QED
    BY <1>1, <1>2, <1>4, <2>1, <2>2, QuietStep DEF StartRun, LogTold
<1>5. CASE StartPass
  <2>1. agenda' \subseteq Sources /\ agenda' \cap activated = {}
    BY <1>5 DEF StartPass, Activatable
  <2>2. phase' \in {"firing", "done", "stalled"}
    BY <1>5 DEF StartPass, Outcome
  <2>3. ControllerTypeOK'
    BY <1>1, <1>5, <2>1, <2>2 DEF StartPass, ControllerTypeOK
  <2>4. EndsAtFixpoint'
    <3> SUFFICES ASSUME phase' \in {"done", "stalled"} PROVE EndsAtFixpoint'
      BY DEF EndsAtFixpoint
    <3>1. Activatable(board) = {} /\ phase' = Outcome(activated)
      BY <1>5 DEF StartPass
    <3>2. \A s \in Sources \ activated : ~(Needs[s] \subseteq Visible(board))
      BY <3>1 DEF Activatable
    <3>3. phase' = "stalled" => ~partial /\ activated # Sources
      BY <3>1 DEF Outcome
    <3>4. ASSUME phase' = "done", ~partial, NEW s \in Sources
          PROVE  \E k \in DOMAIN log : log[k].source = s /\ log[k].status = "COMPLETED"
      <4>1. activated = Sources
        BY <3>1, <3>4 DEF Outcome
      <4>2. PICK k \in DOMAIN log : log[k].source = s
        BY <1>1, <4>1 DEF LogTold
      <4>3. log[k] \in LogEntry /\ log[k].status # "FAILED"
        BY <1>1, <1>5 DEF ControllerTypeOK, EachOnce, StartPass
      <4>4. QED
        BY <4>2, <4>3 DEF LogEntry
    <3>5. QED
      BY <1>5, <3>2, <3>3, <3>4 DEF StartPass, EndsAtFixpoint
  <2>5. QED
    BY <1>2, <1>5, <2>1, <2>2, <2>3, <2>4, QuietStep DEF StartPass
<1>6. CASE Activate
  <2>1. PICK s \in Sources :
          /\ s \in agenda /\ running' = s /\ agenda' = agenda \ {s} /\ todo' \in Effects[s]
    BY <1>6 DEF Activate, FiresNext
  <2>2. todo' \in Seq(Steps)
    BY <2>1, ControllerAssumption
  <2>3. ControllerTypeOK'
    BY <1>1, <1>6, <2>1, <2>2 DEF Activate, ControllerTypeOK
  <2>4. EndsAtFixpoint'
    BY <1>6 DEF Activate, EndsAtFixpoint
  <2>5. QED
    BY <1>1, <1>2, <1>6, <2>1, <2>3, <2>4, QuietStep DEF Activate, LogTold
<1>7. CASE Complete
  BY <1>7, RecordedInv DEF Complete
<1>8. CASE Fail
  BY <1>8, RecordedInv DEF Fail
<1>9. CASE UNCHANGED vars
  BY <1>9 DEF vars, ControllerInv, ControllerTypeOK, LogTold, CompletedLeftOutputs,
              EachOnce, EndsAtFixpoint
<1>10. QED
  BY <1>3, <1>4, <1>5, <1>6, <1>7, <1>8, <1>9 DEF ControllerNext

\* A topic published as an unbound fact is visible for ever.
LEMMA FactsSuffice == EndsAtFixpoint => UnboundFactsSuffice
<1> SUFFICES ASSUME EndsAtFixpoint, phase \in {"done", "stalled"}, NEW s \in Sources,
                    \A topic \in Needs[s] : \E k \in DOMAIN board.records :
                      board.records[k].topic = topic /\ ~board.records[k].bound
             PROVE  s \in activated
  BY DEF UnboundFactsSuffice
<1>1. Needs[s] \subseteq Visible(board)
  BY DEF Visible
<1>2. QED
  BY <1>1 DEF EndsAtFixpoint

\* What a run reports is true: completed sources left their outputs, none ran twice,
\* and a run that ended well has reached a fixpoint with every source completed.
THEOREM RunReportsTrue == ControllerSpec => []OutcomeIsTrue
<1>1. ControllerInv => OutcomeIsTrue
  BY FactsSuffice DEF ControllerInv, OutcomeIsTrue
<1>2. QED
  BY <1>1, InitController, NextController, PTL DEF ControllerSpec
=============================================================================
