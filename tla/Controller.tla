----------------------------- MODULE Controller -----------------------------
(***************************************************************************)
(* The event-driven control of prototyping/controller.py: registered       *)
(* knowledge sources are activated once their precondition topics are on   *)
(* the board, to a fixpoint.  What a source does to the board while it     *)
(* runs is given by its effects: publications, revision-bound or not, and  *)
(* commits, in any order, cut short anywhere by an exception.  A running   *)
(* source takes its steps one at a time.                                   *)
(*                                                                         *)
(* A record's digest is that of its revision, so a record is current when  *)
(* its revision is.                                                        *)
(***************************************************************************)
EXTENDS Blackboard

CONSTANTS
  NSources,      \* sources 1 .. NSources, in the order they were registered
  Needs,         \* Needs[s]: the precondition topics of s
  Outputs,       \* Outputs[s]: the output topics s declares
  Effects,       \* Effects[s]: the sequences of steps s may take
  Seeds          \* the steps taken on the board before the run

Sources == 1 .. NSources
Topics == UNION {Needs[s] \cup Outputs[s] : s \in Sources}

\* A step of a source: a publication of a topic, or the commit of a text.
Steps == [kind : {"publish"}, topic : Topics, bound : BOOLEAN]
           \cup [kind : {"commit"}, text : Texts]

ASSUME ControllerAssumption ==
  /\ NSources \in Nat /\ InitialText \in Texts
  /\ Seeds \in Seq(Steps)
  /\ \A s \in Sources : Effects[s] \subseteq Seq(Steps)

VARIABLES
  partial,    \* allow_partial, the argument of run
  phase,      \* seeding; idle between passes, firing in one, running a source;
              \* done, stalled or failed
  agenda,     \* the sources the running pass has still to activate
  running,    \* the source that runs or ran last, 0 before the first
  todo,       \* the steps it has still to take
  activated,  \* _activated
  log         \* activation_log: [source, status, at] with at its board record

vars == <<board, partial, phase, agenda, running, todo, activated, log>>

\* Mutant: every record expires with the revision it was published on.
MutVisible(b) ==
  {b.records[k].topic : k \in {j \in DOMAIN b.records : b.records[j].rev = CurrentRevision(b)}}

\* _published_topics: revision-bound records expire with their revision.
Visible(b) ==
  {b.records[k].topic : k \in {j \in DOMAIN b.records :
     ~b.records[j].bound \/ b.records[j].rev = CurrentRevision(b)}}

Activatable(b) == {s \in Sources \ activated : Needs[s] \subseteq Visible(b)}

PublishStep(b, topic, bound) ==
  Published(b, [type |-> "ANALYSIS", topic |-> topic, reqs |-> NoReqs, bound |-> bound],
            CurrentRevision(b))

Take(b, step) ==
  IF step.kind = "publish" THEN PublishStep(b, step.topic, step.bound)
  ELSE Commit(b, step.text, CurrentRevision(b), CurrentText(b), 0)

ControllerInit ==
  /\ board = NewBoard(InitialText)
  /\ partial \in BOOLEAN
  /\ phase = "seeding" /\ todo = Seeds
  /\ agenda = {} /\ running = 0 /\ activated = {} /\ log = <<>>

\* The running source, or whoever prepares the board for the run, takes a step.
TakeStep ==
  /\ phase \in {"seeding", "running"} /\ todo # <<>>
  /\ board' = Take(board, Head(todo)) /\ todo' = Tail(todo)
  /\ UNCHANGED <<partial, phase, agenda, running, activated, log>>

StartRun ==
  /\ phase = "seeding" /\ todo = <<>>
  /\ phase' = "idle"
  /\ UNCHANGED <<board, partial, agenda, running, todo, activated, log>>

\* Mutant: a pass that fired nothing counts as progress.
MutOutcome(fired) == "idle"

\* How run ends once the sources in fired have been activated.
Outcome(fired) == IF partial \/ fired = Sources THEN "done" ELSE "stalled"

\* activatable is asked once per pass; an empty answer is the fixpoint, where a
\* source that never ran is an error unless that is allowed.
StartPass ==
  /\ phase = "idle"
  /\ agenda' = Activatable(board)
  /\ phase' = IF agenda' = {} THEN Outcome(activated) ELSE "firing"
  /\ UNCHANGED <<board, partial, running, todo, activated, log>>

\* Sources fire in registration order.
FiresNext(s) == s \in agenda /\ \A other \in agenda : s <= other

Activate ==
  /\ phase = "firing" /\ phase' = "running"
  /\ \E s \in Sources : /\ FiresNext(s)
                        /\ running' = s /\ agenda' = agenda \ {s}
                        /\ todo' \in Effects[s]
  /\ UNCHANGED <<board, partial, activated, log>>

OutputsPresent(b, s) == Outputs[s] \subseteq Visible(b)

\* The activation record is published after the source has run.
Recorded(status) ==
  /\ board' = PublishStep(board, "control.activation", TRUE)
  /\ activated' = activated \cup {running}
  /\ log' = Append(log, [source |-> running, status |-> status,
                         at |-> Len(board.records) + 1])

\* The source has run to its end and left its declared outputs visible.  A pass
\* that fired something is followed by another.
Complete ==
  /\ phase = "running" /\ todo = <<>> /\ OutputsPresent(board, running)
  /\ Recorded("COMPLETED")
  /\ phase' = IF agenda = {} THEN "idle" ELSE "firing"
  /\ UNCHANGED <<partial, agenda, running, todo>>

\* The source raises, anywhere on its way, or it has run to its end without its
\* outputs and the controller does: the failure is recorded and leaves the run.
Fail ==
  /\ phase = "running" /\ phase' = "failed"
  /\ Recorded("FAILED")
  /\ UNCHANGED <<partial, agenda, running, todo>>

ControllerNext ==
  TakeStep \/ StartRun \/ StartPass \/ Activate \/ Complete \/ Fail

\* The run is one loop; sources return or raise.
ControllerSpec == ControllerInit /\ [][ControllerNext]_vars /\ WF_vars(ControllerNext)

-----------------------------------------------------------------------------
(* Properties                                                              *)

\* A source recorded as COMPLETED has left every declared output on the board, on
\* the revision of its activation record or unbound: "a source that ran and failed
\* to publish what it declared" never counts as complete, not even when it hid its
\* own outputs by a commit.
CompletedLeftOutputs ==
  \A k \in DOMAIN log : log[k].status = "COMPLETED" =>
    \A topic \in Outputs[log[k].source] :
      \E j \in 1 .. log[k].at - 1 :
        /\ board.records[j].topic = topic
        /\ ~board.records[j].bound \/ board.records[j].rev = board.records[log[k].at].rev

\* "Sources fire ... each at most once" (run), whatever is hidden and published again
\* between two passes, and only the last one may have failed.
EachOnce ==
  /\ \A j, k \in DOMAIN log : log[j].source = log[k].source => j = k
  /\ \A k \in DOMAIN log : log[k].status = "FAILED" => phase = "failed" /\ k = Len(log)

\* The end is a fixpoint: a run that ended without an error left no source that
\* could have fired, and one that may not be partial completed all of them.
EndsAtFixpoint ==
  phase \in {"done", "stalled"} =>
    /\ \A s \in Sources \ activated : ~(Needs[s] \subseteq Visible(board))
    /\ phase = "stalled" => ~partial /\ activated # Sources
    /\ phase = "done" /\ ~partial => \A s \in Sources : \E k \in DOMAIN log :
         log[k].source = s /\ log[k].status = "COMPLETED"

\* What survives a commit: a source all of whose topics were published as unbound
\* facts fires before the run ends, whatever is committed in between.
UnboundFactsSuffice ==
  phase \in {"done", "stalled"} =>
    \A s \in Sources :
      (\A topic \in Needs[s] : \E k \in DOMAIN board.records :
         board.records[k].topic = topic /\ ~board.records[k].bound) => s \in activated

\* What the run reports is true: COMPLETED sources did their work, once, and a run
\* that ends as done or stalled could not have gone on.
OutcomeIsTrue == CompletedLeftOutputs /\ EachOnce /\ EndsAtFixpoint /\ UnboundFactsSuffice

\* The run ends.
RunEnds == <>(phase \in {"done", "stalled", "failed"})

\* "A stale publication does not activate work against a newer model revision"
\* (_published_topics): a source that fires has its preconditions on the board.
NoStaleActivation ==
  phase = "firing" => \A s \in Sources : FiresNext(s) => Needs[s] \subseteq Visible(board)
=============================================================================
