-------------------------- MODULE BlackboardCalls --------------------------
(***************************************************************************)
(* The board of Blackboard under any caller: every method, in any order,   *)
(* with any argument the callers of the class can hold.                    *)
(***************************************************************************)
EXTENDS Blackboard

CONSTANTS
  Names,        \* names of `requirement def` blocks
  Bodies,       \* bodies of such blocks (the exact block text)
  Docs,         \* normalised source texts
  Notes,        \* what callers publish: record type, topic, requirements, bound
  MaxRevisions, MaxRecords, MaxTasks, MaxRefusals  \* bounds of the calls below

PartialFunctions(S, T) == UNION {[D -> T] : D \in SUBSET S}

ASSUME TextsAssumption ==
  /\ InitialText \in Texts
  /\ Identities \in [Texts -> PartialFunctions(Names, Bodies)]
  /\ DocOf \in [Bodies -> Docs]

\* What a publication says, whoever makes it.
Note == [type : {"SOURCE", "ANALYSIS", "CONTROL", "MODEL"},
         topic : {"requirements.authoritative", "analysis", "process",
                  "task.created", "task.transition", "model.committed"},
         reqs : PartialFunctions(Names, Docs),
         bound : BOOLEAN]

ASSUME NotesAssumption ==
  Notes \subseteq {n \in Note :
    n.topic \in {"requirements.authoritative", "analysis", "process"}}

ASSUME BoundsAssumption ==
  {MaxRevisions, MaxRecords, MaxTasks, MaxRefusals} \subseteq Nat

Revision == [text : Texts, task : Nat]
Record == [type : {"SOURCE", "ANALYSIS", "CONTROL", "MODEL"},
           topic : {"requirements.authoritative", "analysis", "process",
                    "task.created", "task.transition", "model.committed"},
           reqs : PartialFunctions(Names, Docs),
           bound : BOOLEAN, rev : Nat, task : Nat,
           status : TaskStatus \cup {"NONE"}]
Task == [status : TaskStatus, rev : Nat, digest : Texts]

Board == [revisions : Seq(Revision), records : Seq(Record), tasks : Seq(Task),
          protected : PartialFunctions(Names, Bodies),
          rejected : Nat, permitted : Nat]

-----------------------------------------------------------------------------
VARIABLE madeFrom  \* history: for each revision after the first, the revision and
                   \* the digest its committer quoted as the ones it worked on

boardVars == <<board, madeFrom>>

BoardInit == board = NewBoard(InitialText) /\ madeFrom = <<>>

Publish ==
  /\ Len(board.records) < MaxRecords
  /\ \E note \in Notes, rev \in 0 .. CurrentRevision(board), allowStale \in BOOLEAN :
       IF rev = CurrentRevision(board) \/ allowStale
       THEN board' = Published(board, note, rev)
       ELSE /\ board.rejected < MaxRefusals
            /\ board' = Refused(board)
  /\ UNCHANGED madeFrom

CreateTask ==
  /\ Len(board.records) < MaxRecords /\ Len(board.tasks) < MaxTasks
  /\ board' = CreatedTask(board)
  /\ UNCHANGED madeFrom

TransitionTask ==
  /\ Len(board.records) < MaxRecords
  /\ \E t \in DOMAIN board.tasks, status \in TaskStatus :
       /\ status \in TaskTransitions[board.tasks[t].status]
       /\ board' = MovedTask(board, t, status)
  /\ UNCHANGED madeFrom

\* A commit quotes a revision and a digest that were read earlier, possibly from
\* two different revisions, and a task or none (0).
CommitModel ==
  /\ Len(board.records) < MaxRecords /\ Len(board.revisions) < MaxRevisions
  /\ board.rejected < MaxRefusals
  /\ \E text \in Texts, rev, of \in 0 .. CurrentRevision(board),
        task \in 0 .. Len(board.tasks) :
       /\ board' = Commit(board, text, rev, ModelAt(board, of).text, task)
       /\ madeFrom' = IF board'.revisions = board.revisions THEN madeFrom
                      ELSE Append(madeFrom, [rev |-> rev, digest |-> ModelAt(board, of).text])

BoardNext == Publish \/ CreateTask \/ TransitionTask \/ CommitModel

BoardSpec == BoardInit /\ [][BoardNext]_boardVars

-----------------------------------------------------------------------------
(* Properties                                                              *)

\* Every board is well formed and has at least one revision.
BoardTypeOK == board \in Board /\ board.revisions # <<>>

\* A requirement definition is immutable once it appears in a committed revision
\* (the comment on _check_and_extend_protection): whatever is committed between
\* two revisions, the later one holds every block of the earlier one, unchanged.
DefinitionsImmutable ==
  \A i, j \in DOMAIN board.revisions : i <= j =>
    LET old == Identities[board.revisions[i].text]
        new == Identities[board.revisions[j].text]
    IN  \A n \in DOMAIN old : n \in DOMAIN new /\ new[n] = old[n]

\* The registry of protected blocks and the committed models never drift apart:
\* it is exactly what the current model defines.
ProtectionIsCurrent == board.protected = Identities[CurrentText(board)]

\* A revision committed after an authoritative publication quotes every
\* requirement of that publication, however many publications there were and
\* whatever happened in between (_validate_authoritative_sources).
SourcesHonoured ==
  \A k, m \in DOMAIN board.records :
    (/\ k < m
     /\ board.records[k].type = "SOURCE"
     /\ board.records[k].topic = "requirements.authoritative"
     /\ board.records[m].topic = "model.committed") =>
       LET ids == Identities[ModelAt(board, board.records[m].rev).text]
           reqs == board.records[k].reqs
       IN  \A n \in DOMAIN reqs : n \in DOMAIN ids /\ DocOf[ids[n]] = reqs[n]

CommitRecords == {k \in DOMAIN board.records : board.records[k].topic = "model.committed"}
TaskRecords(t) == {k \in DOMAIN board.records :
                     /\ board.records[k].task = t
                     /\ board.records[k].topic \in {"task.created", "task.transition"}}

\* The model.committed records are those of the revisions, one each, in their order.
CommitsReplay ==
  /\ \A k \in CommitRecords :
       /\ board.records[k].rev \in 1 .. CurrentRevision(board)
       /\ board.records[k].task = ModelAt(board, board.records[k].rev).task
  /\ \A k, m \in CommitRecords : k < m => board.records[k].rev < board.records[m].rev
  /\ \A r \in 1 .. CurrentRevision(board) : \E k \in CommitRecords : board.records[k].rev = r

\* The last record of a task carries its status.
TasksReplay ==
  \A t \in DOMAIN board.tasks :
    \E k \in TaskRecords(t) : /\ \A j \in TaskRecords(t) : j <= k
                              /\ board.records[k].status = board.tasks[t].status

\* The archived log replays to the board: whoever reads the records alone finds its
\* revisions with their authors and the status of every task.
LogReplays == CommitsReplay /\ TasksReplay

\* What is on the board stays: revisions and records are only appended, a task
\* keeps its base and leaves no final status.
AppendOnly ==
  [][/\ \A i \in DOMAIN board.revisions : /\ i \in DOMAIN board'.revisions
                                          /\ board'.revisions[i] = board.revisions[i]
     /\ \A k \in DOMAIN board.records : /\ k \in DOMAIN board'.records
                                        /\ board'.records[k] = board.records[k]
     /\ \A t \in DOMAIN board.tasks :
          /\ t \in DOMAIN board'.tasks
          /\ board'.tasks[t].rev = board.tasks[t].rev
          /\ board'.tasks[t].digest = board.tasks[t].digest
          /\ board.tasks[t].status \in {"COMPLETED", "BLOCKED", "REJECTED"} =>
               board'.tasks[t].status = board.tasks[t].status]_board

\* No edit is lost (commit_model): although a caller reads the model long before it
\* commits and others commit in between, the history is that of RevisionLog, where
\* an edit is one indivisible step from the current model to the next.
History == INSTANCE RevisionLog WITH
             log <- [i \in DOMAIN board.revisions |-> board.revisions[i].text],
             bases <- madeFrom
ImplementsRevisionLog == History!LogSpec
=============================================================================
