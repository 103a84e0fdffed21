------------------------------ MODULE RunBundle ------------------------------
(***************************************************************************)
(* Authoritative runs and the bundles they publish: the artifact store     *)
(* (prototyping/artifact_store.py), the run that drives it                 *)
(* (examples/run_realization_report.py), the evidence processes it starts  *)
(* (Gazebo, SITL, finalizer) and the tool that rebuilds a matrix.          *)
(*                                                                         *)
(* A run is one process; it may raise (or be interrupted) at any point,    *)
(* which kills its child, and it may be killed outright, which frees the   *)
(* lock and leaves the child running.  A child only ends when it ends      *)
(* itself or is killed.  Artifact contents are kept where some check or    *)
(* consumer can tell them apart: the matrix, and the origin of reports.    *)
(***************************************************************************)
EXTENDS Naturals, FiniteSets

CONSTANTS
  Runs,  \* invocations of run_realization_report.py
  None

ASSUME RunsAssumption == None \notin Runs

VARIABLES
  holder,  \* the run that holds the repository-wide lock, or None
  parent,  \* parent[r]: how far run r has come
  bundle,  \* bundle[r]: the directory of r
  child,   \* child[r]: the process r started last
  latest,  \* the run whose bundle `latest` points to, or None
  tool     \* the bundle build_verification_matrix is about to write to, or None

vars == <<holder, parent, bundle, child, latest, tool>>

Layers == {"gazebo", "sitl"}
Scripts == Layers \cup {"finalize"}

\* The stages of main, in order; those of Scripts are the time a child is waited for.
Live == {"locked", "building", "built", "moved", "assigned", "based",
         "finalized", "published", "raised"} \cup Scripts
Ended == {"refused", "done", "failed", "killed"}

\* report[l] is where the evidence of layer l comes from: measured in this run or
\* reused from another; basis is the run requirement_impact was computed against.
NoBundle == [state |-> "NONE", base |-> FALSE, basis |-> None, matrix |-> "none",
             report |-> [l \in Layers |-> "none"], authority |-> FALSE]

NoChild == [script |-> "none", stage |-> "none", reuse |-> "none"]

Init ==
  /\ holder = None /\ latest = None /\ tool = None
  /\ parent = [r \in Runs |-> "idle"]
  /\ bundle = [r \in Runs |-> NoBundle]
  /\ child = [r \in Runs |-> NoChild]

-----------------------------------------------------------------------------
(* The store                                                               *)

\* latest_output_dir: nothing is published, the published bundle is FINAL, or it
\* is refused with an error nobody expects.
LatestMissing == latest = None
LatestReadable == latest # None /\ bundle[latest].state = "FINAL"

\* ensure_open_bundle passes.
OpenBundle(r) == bundle[r].state # "FINAL"

WriteState(r, state) == bundle' = [bundle EXCEPT ![r].state = state]

Advance(r, from, to) == parent[r] = from /\ parent' = [parent EXCEPT ![r] = to]

\* Mutant: the lock does not exclude another run.
MutLockFree == TRUE

LockFree == holder = None

-----------------------------------------------------------------------------
(* The run                                                                 *)

\* The lock is not waited for: a second run raises.
Acquire(r) ==
  /\ parent[r] = "idle"
  /\ IF LockFree
     THEN /\ parent' = [parent EXCEPT ![r] = "locked"]
          /\ holder' = r
     ELSE /\ parent' = [parent EXCEPT ![r] = "refused"]
          /\ UNCHANGED holder
  /\ UNCHANGED <<bundle, child, latest, tool>>

CreateStaging(r) ==
  /\ Advance(r, "locked", "building")
  /\ WriteState(r, "BUILDING")
  /\ UNCHANGED <<holder, child, latest, tool>>

\* Mutant: any failure to resolve latest counts as a first run.
MutLatestRefused == FALSE

LatestRefused == ~LatestMissing /\ ~LatestReadable

\* Generation and exploration, and the impact of the requirement changes since the
\* published run; a published bundle that is not FINAL makes the run raise.
BuildBase(r) ==
  /\ ~LatestRefused
  /\ Advance(r, "building", "built")
  /\ bundle' = [bundle EXCEPT ![r].basis = latest]
  /\ UNCHANGED <<holder, child, latest, tool>>

\* assign_run_id: first the rename, then the state.
Rename(r) ==
  /\ Advance(r, "built", "moved")
  /\ UNCHANGED <<holder, bundle, child, latest, tool>>

AssignState(r) ==
  /\ Advance(r, "moved", "assigned")
  /\ WriteState(r, "EVIDENCE")
  /\ UNCHANGED <<holder, child, latest, tool>>

WriteBase(r) ==
  /\ Advance(r, "assigned", "based")
  /\ bundle' = [bundle EXCEPT ![r].base = TRUE, ![r].state = "EVIDENCE"]
  /\ UNCHANGED <<holder, child, latest, tool>>

Before == [gazebo |-> "based", sitl |-> "gazebo", finalize |-> "sitl"]

ChildEnded(r) == child[r].stage \in {"none", "ok", "error"}

\* _run_evidence: the next child starts when the one before it has ended; only the
\* finalizer's return code is looked at.
Launch(r, script) ==
  /\ Advance(r, Before[script], script)
  /\ ChildEnded(r)
  /\ child' = [child EXCEPT ![r] = [NoChild EXCEPT !.script = script, !.stage = "started"]]
  /\ UNCHANGED <<holder, bundle, latest, tool>>

FinalizerPassed(r) == child[r].stage = "ok"

Finalized(r) ==
  /\ FinalizerPassed(r)
  /\ Advance(r, "finalize", "finalized")
  /\ UNCHANGED <<holder, bundle, child, latest, tool>>

Publishable(r) == bundle[r].state = "FINAL"

\* publish_latest
Publish(r) ==
  /\ Publishable(r)
  /\ Advance(r, "finalized", "published")
  /\ latest' = r
  /\ UNCHANGED <<holder, bundle, child, tool>>

Return(r) ==
  /\ Advance(r, "published", "done")
  /\ holder' = None
  /\ UNCHANGED <<bundle, child, latest, tool>>

\* The handler of main marks the directory it knows of: none before there is one,
\* and none in the window of assign_run_id, where staging has been renamed already.
MarkFailed(r) ==
  IF parent[r] \in {"locked", "moved"} THEN UNCHANGED bundle ELSE WriteState(r, "FAILED")

\* An exception or an interrupt: subprocess.run kills the child first.
Raised(r) ==
  /\ parent' = [parent EXCEPT ![r] = "raised"]
  /\ MarkFailed(r)
  /\ child' = [child EXCEPT ![r] = IF ChildEnded(r) THEN @ ELSE NoChild]
  /\ UNCHANGED <<holder, latest, tool>>

Raise(r) == parent[r] \in Live \ {"raised"} /\ Raised(r)

\* Mutant: children are waited for without a timeout.
MutMustRaise(r) ==
  \/ parent[r] = "building" /\ LatestRefused
  \/ parent[r] = "finalize" /\ child[r].stage = "error"
  \/ parent[r] = "finalized" /\ ~Publishable(r)

\* Where main itself raises: latest is refused, a child times out, the finalizer
\* failed, or the bundle is not FINAL.
MustRaise(r) ==
  \/ parent[r] = "building" /\ LatestRefused
  \/ parent[r] \in Scripts /\ ~ChildEnded(r)
  \/ parent[r] = "finalize" /\ child[r].stage = "error"
  \/ parent[r] = "finalized" /\ ~Publishable(r)

RaiseItself(r) == MustRaise(r) /\ Raised(r)

Unlock(r) ==
  /\ Advance(r, "raised", "failed")
  /\ holder' = None
  /\ UNCHANGED <<bundle, child, latest, tool>>

\* The process is killed: the lock goes with it, its child does not.
Kill(r) ==
  /\ parent[r] \in Live
  /\ parent' = [parent EXCEPT ![r] = "killed"]
  /\ holder' = None
  /\ UNCHANGED <<bundle, child, latest, tool>>

-----------------------------------------------------------------------------
(* The children and the tool                                               *)

Stage(r, stage) == child' = [child EXCEPT ![r].stage = stage]

EvidenceOf(r) == {"fresh"} \cup (IF latest \in {None, r} THEN {} ELSE {latest})

\* An evidence process reads its inputs and decides between measuring and reusing
\* the report of the published run.
ChildReads(r) ==
  /\ child[r].stage = "started" /\ child[r].script \in Layers
  /\ OpenBundle(r) /\ bundle[r].base /\ ~LatestRefused
  /\ \E reuse \in EvidenceOf(r) :
       child' = [child EXCEPT ![r].stage = "read", ![r].reuse = reuse]
  /\ UNCHANGED <<holder, parent, bundle, latest, tool>>

\* It writes its report.  SITL writes the matrix with it, if it can.
ChildWrites(r) ==
  /\ child[r].stage = "read" /\ child[r].script \in Layers
  /\ \E matrix \in {bundle[r].matrix} \cup (IF child[r].script = "sitl"
                                             THEN {"executed"} ELSE {}) :
       bundle' = [bundle EXCEPT ![r].report[child[r].script] = child[r].reuse,
                                ![r].matrix = matrix]
  /\ Stage(r, "ok")
  /\ UNCHANGED <<holder, parent, latest, tool>>

\* Mutant: the finalizer does not ask for the SITL report.
MutEvidenceComplete(r) ==
  bundle[r].base /\ bundle[r].matrix # "none" /\ bundle[r].report["gazebo"] # "none"

EvidenceComplete(r) ==
  /\ bundle[r].base /\ bundle[r].matrix # "none"
  /\ \A l \in Layers : bundle[r].report[l] # "none"

\* The finalizer reads all artifacts, writes the manifest, then sets the state.
FinalizerReads(r) ==
  /\ child[r].script = "finalize" /\ child[r].stage = "started"
  /\ OpenBundle(r) /\ EvidenceComplete(r)
  /\ Stage(r, "read")
  /\ UNCHANGED <<holder, parent, bundle, latest, tool>>

FinalizerWrites(r) ==
  /\ child[r].script = "finalize" /\ child[r].stage = "read"
  /\ bundle' = [bundle EXCEPT ![r].authority = TRUE]
  /\ Stage(r, "written")
  /\ UNCHANGED <<holder, parent, latest, tool>>

FinalizerSeals(r) ==
  /\ child[r].script = "finalize" /\ child[r].stage = "written"
  /\ WriteState(r, "FINAL")
  /\ Stage(r, "sealed")
  /\ UNCHANGED <<holder, parent, latest, tool>>

FinalizerExits(r) ==
  /\ child[r].stage = "sealed"
  /\ Stage(r, "ok")
  /\ UNCHANGED <<holder, parent, bundle, latest, tool>>

\* Any child may end with an error, the finalizer after it has set the state too.
ChildFails(r) ==
  /\ ~ChildEnded(r)
  /\ Stage(r, "error")
  /\ UNCHANGED <<holder, parent, bundle, latest, tool>>

\* build_verification_matrix on a bundle: the check, and later the write of a matrix
\* without executed results.
ToolChecks(r) ==
  /\ tool = None /\ bundle[r].base /\ OpenBundle(r)
  /\ tool' = r
  /\ UNCHANGED <<holder, parent, bundle, child, latest>>

ToolWrites ==
  /\ tool # None
  /\ bundle' = [bundle EXCEPT ![tool].matrix = "planned"]
  /\ tool' = None
  /\ UNCHANGED <<holder, parent, child, latest>>

RunStep(r) ==
  \/ Acquire(r) \/ CreateStaging(r) \/ BuildBase(r) \/ Rename(r) \/ AssignState(r)
  \/ WriteBase(r) \/ (\E script \in Scripts : Launch(r, script))
  \/ Finalized(r) \/ Publish(r) \/ Return(r) \/ RaiseItself(r) \/ Unlock(r)

ChildStep(r) ==
  \/ ChildReads(r) \/ ChildWrites(r) \/ ChildFails(r)
  \/ FinalizerReads(r) \/ FinalizerWrites(r) \/ FinalizerSeals(r)
  \/ FinalizerExits(r)

Next ==
  \/ \E r \in Runs : RunStep(r) \/ Raise(r) \/ Kill(r) \/ ChildStep(r) \/ ToolChecks(r)
  \/ ToolWrites

\* A run goes on while it can: its waits have timeouts and its LLM calls do too.
\* Nothing is assumed of the children, the tool, or a run's start.
RunSpec ==
  /\ Init /\ [][Next]_vars
  /\ \A r \in Runs : WF_vars(parent[r] # "idle" /\ RunStep(r))

-----------------------------------------------------------------------------
(* Properties                                                              *)

RunTypeOK ==
  /\ holder \in Runs \cup {None} /\ latest \in Runs \cup {None}
  /\ tool \in Runs \cup {None}
  /\ parent \in [Runs -> Live \cup Ended \cup {"idle"}]
  /\ \A r \in Runs :
       /\ bundle[r].state \in {"NONE", "BUILDING", "EVIDENCE", "FINAL", "FAILED"}
       /\ bundle[r].base => bundle[r].state # "BUILDING"
       /\ parent[r] \in Live <=> holder = r
       /\ child[r].script \in Layers => bundle[r].state \notin {"NONE", "BUILDING", "FINAL"}

\* What `latest` points to has every artifact, and its state is FINAL unless the run
\* raised after it had published: tools, kills and orphans never spoil it.
PublishedComplete ==
  latest # None =>
    /\ bundle[latest].base /\ bundle[latest].authority /\ bundle[latest].matrix # "none"
    /\ \A l \in Layers : bundle[latest].report[l] # "none"
    /\ \/ bundle[latest].state = "FINAL"
       \/ bundle[latest].state = "FAILED" /\ parent[latest] \in {"raised", "failed", "killed"}

\* Evidence a published run reused is that of the run its requirement impact was
\* computed against: nothing was published in between, by whichever process.
ReuseMatchesImpact ==
  latest # None =>
    \A l \in Layers : bundle[latest].report[l] \in {"fresh", bundle[latest].basis}

\* Once the published bundle is FAILED no run can publish any more: each of them
\* reads latest first and raises.
FailedLatestStays ==
  [][(latest # None /\ bundle[latest].state = "FAILED") => latest' = latest]_vars

\* The lock is given back, whatever the children do.
LockReleased == \A r \in Runs : holder = r ~> holder # r

\* "a failed or interrupted run is kept for diagnosis and does not replace latest"
\* (run_realization_report.py)
InterruptedNeverLatest == \A r \in Runs : parent[r] = "failed" => latest # r

\* "authoritative run bundle is immutable after FINAL" (ensure_open_bundle)
FinalIsImmutable ==
  [][\A r \in Runs : bundle[r].state = "FINAL" => bundle'[r].matrix = bundle[r].matrix]_vars
=============================================================================
