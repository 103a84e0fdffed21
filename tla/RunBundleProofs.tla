-------------------------- MODULE RunBundleProofs --------------------------
(***************************************************************************)
(* Proofs about RunBundle, for any set of runs.  The lock makes the run    *)
(* that holds it the only one that can publish; what a run learned of      *)
(* `latest` when it built its base stays true until it publishes itself,   *)
(* although orphaned children and the matrix tool go on without the lock.  *)
(***************************************************************************)
EXTENDS RunBundle, TLAPS

Bundle == [state : {"NONE", "BUILDING", "EVIDENCE", "FINAL", "FAILED"},
           base : BOOLEAN, basis : Runs \cup {None},
           matrix : {"none", "planned", "executed"},
           report : [Layers -> Runs \cup {"none", "fresh"}], authority : BOOLEAN]

Child == [script : Scripts \cup {"none"},
          stage : {"none", "started", "read", "written", "sealed", "ok", "error"},
          reuse : Runs \cup {"none", "fresh"}]

\* A run before it has written its base, and one that has fixed its basis and has
\* not yet published.
BeforeBase == {"idle", "refused", "locked", "building", "built", "moved", "assigned"}
BeforePublish == {"built", "moved", "assigned", "based", "finalized"} \cup Scripts
Published == {"published", "done", "raised", "failed", "killed"}

Typed ==
  /\ holder \in Runs \cup {None} /\ latest \in Runs \cup {None}
  /\ tool \in Runs \cup {None}
  /\ parent \in [Runs -> Live \cup Ended \cup {"idle"}]
  /\ bundle \in [Runs -> Bundle] /\ child \in [Runs -> Child]

LockHeld(r) == parent[r] \in Live <=> holder = r

\* The child a run waits for, or has waited for.
ChildAtStage(r) ==
  /\ parent[r] \in BeforeBase \cup {"based"} => child[r] = NoChild
  /\ parent[r] \in Scripts => child[r].script = parent[r]
  /\ parent[r] \in {"finalized", "published", "done"} =>
       child[r].script = "finalize" /\ child[r].stage = "ok"

\* What a directory holds, by the stage of its run and of its child.
BundleAtStage(r) ==
  /\ parent[r] \in BeforeBase =>
       ~bundle[r].base /\ (\A l \in Layers : bundle[r].report[l] = "none")
  /\ parent[r] = "based" =>
       bundle[r].state = "EVIDENCE" /\ (\A l \in Layers : bundle[r].report[l] = "none")
  /\ bundle[r].base => bundle[r].state # "BUILDING"
  /\ child[r].script \in Layers => bundle[r].state \in {"EVIDENCE", "FAILED"}

\* What the finalizer has read stays complete, and what it has written stays.
Sealing(r) ==
  child[r].script = "finalize" =>
    /\ child[r].stage \in {"read", "written", "sealed", "ok"} => EvidenceComplete(r)
    /\ child[r].stage \in {"written", "sealed", "ok"} => bundle[r].authority

\* While a run works towards publication, latest is the run its impact analysis was
\* made against, still FINAL, and it takes evidence from nowhere else.
BasisHolds(r) ==
  parent[r] \in BeforePublish =>
    /\ latest = bundle[r].basis
    /\ latest # None => bundle[latest].state = "FINAL"
    /\ \A l \in Layers : bundle[r].report[l] \in {"none", "fresh", bundle[r].basis}
    /\ child[r].script \in Layers /\ child[r].stage = "read" =>
         child[r].reuse \in {"fresh", bundle[r].basis}

\* The published run has left its child and its directory behind it.
LatestSettled ==
  latest # None =>
    /\ parent[latest] \in Published
    /\ child[latest].script = "finalize" /\ child[latest].stage = "ok"

RunInv ==
  /\ Typed /\ LatestSettled /\ PublishedComplete /\ ReuseMatchesImpact
  /\ \A r \in Runs : /\ LockHeld(r) /\ ChildAtStage(r) /\ BundleAtStage(r)
                     /\ Sealing(r) /\ BasisHolds(r)

USE RunsAssumption
USE DEF Layers, Scripts, Live, Ended, BeforeBase, BeforePublish, Published

-----------------------------------------------------------------------------
(* The steps that touch a directory or a child                             *)

\* The base artifacts and the state are written together.
LEMMA WriteBaseInv ==
  ASSUME RunInv, NEW r \in Runs, WriteBase(r)
  PROVE  RunInv'
<1>1. Typed'
  <2>1. bundle[r] \in Bundle
    BY DEF RunInv, Typed
  <2>2. [bundle[r] EXCEPT !.base = TRUE, !.state = "EVIDENCE"] \in Bundle
    BY <2>1 DEF Bundle
  <2>3. QED
    BY <2>2 DEF WriteBase, Advance, RunInv, Typed
<1>2. ASSUME NEW q \in Runs PROVE LockHeld(q)'
  BY DEF WriteBase, Advance, RunInv, Typed, LockHeld
<1>3. ASSUME NEW q \in Runs PROVE ChildAtStage(q)'
  BY DEF WriteBase, Advance, RunInv, Typed, ChildAtStage, Child, NoChild
<1>4. ASSUME NEW q \in Runs PROVE BundleAtStage(q)'
  BY DEF WriteBase, Advance, RunInv, Typed, ChildAtStage, BundleAtStage, Bundle,
       Child, NoChild
<1>5. ASSUME NEW q \in Runs PROVE Sealing(q)'
  BY DEF WriteBase, Advance, RunInv, Typed, ChildAtStage, Sealing,
       EvidenceComplete, Bundle, Child, NoChild
<1>6. ASSUME NEW q \in Runs PROVE BasisHolds(q)'
  BY DEF WriteBase, Advance, RunInv, Typed, LockHeld, ChildAtStage, BundleAtStage,
       BasisHolds, LatestSettled, Bundle, Child, NoChild
<1>7. LatestSettled'
  BY DEF WriteBase, Advance, RunInv, Typed, LatestSettled, Child
<1>8. PublishedComplete'
  BY DEF WriteBase, Advance, RunInv, Typed, PublishedComplete, LatestSettled,
       Bundle
<1>9. ReuseMatchesImpact'
  BY DEF WriteBase, Advance, RunInv, Typed, ReuseMatchesImpact, LatestSettled,
       Bundle
<1>10. QED
  BY <1>1, <1>2, <1>3, <1>4, <1>5, <1>6, <1>7, <1>8, <1>9 DEF RunInv

\* A child starts only after the one before it has ended.
LEMMA LaunchInv ==
  ASSUME RunInv, NEW r \in Runs, NEW script \in Scripts, Launch(r, script)
  PROVE  RunInv'
<1>1. Typed'
  BY DEF Launch, Advance, NoChild, RunInv, Typed, Child
<1>2. ASSUME NEW q \in Runs PROVE LockHeld(q)'
  BY DEF Launch, Advance, Before, ChildEnded, NoChild, RunInv, Typed, LockHeld
<1>3. ASSUME NEW q \in Runs PROVE ChildAtStage(q)'
  BY DEF Launch, Advance, Before, ChildEnded, NoChild, RunInv, Typed,
       ChildAtStage, Child
<1>4. ASSUME NEW q \in Runs PROVE BundleAtStage(q)'
  BY DEF Launch, Advance, Before, ChildEnded, NoChild, RunInv, Typed,
       ChildAtStage, BundleAtStage, Bundle, Child
<1>5. ASSUME NEW q \in Runs PROVE Sealing(q)'
  BY DEF Launch, Advance, Before, ChildEnded, NoChild, RunInv, Typed,
       ChildAtStage, Sealing, EvidenceComplete, Bundle, Child
<1>6. ASSUME NEW q \in Runs PROVE BasisHolds(q)'
  BY DEF Launch, Advance, Before, ChildEnded, NoChild, RunInv, Typed, LockHeld,
       ChildAtStage, BundleAtStage, BasisHolds, LatestSettled, Bundle, Child
<1>7. LatestSettled'
  BY DEF Launch, Advance, Before, ChildEnded, NoChild, RunInv, Typed,
       LatestSettled, Child
<1>8. PublishedComplete'
  BY DEF Launch, Advance, Before, ChildEnded, NoChild, RunInv, Typed,
       PublishedComplete, LatestSettled, Bundle
<1>9. ReuseMatchesImpact'
  BY DEF Launch, Advance, Before, ChildEnded, NoChild, RunInv, Typed,
       ReuseMatchesImpact, LatestSettled, Bundle
<1>10. QED
  BY <1>1, <1>2, <1>3, <1>4, <1>5, <1>6, <1>7, <1>8, <1>9 DEF RunInv

\* A run that raises touches its own directory and child only, and what it
\* published keeps its artifacts.
LEMMA RaisedInv ==
  ASSUME RunInv, NEW r \in Runs, parent[r] \in Live \ {"raised"}, Raised(r)
  PROVE  RunInv'
<1>1. Typed'
  BY SMTT(30) DEF Raised, MarkFailed, WriteState, ChildEnded, NoChild, RunInv, Typed,
       Bundle, Child
<1>2. ASSUME NEW q \in Runs PROVE LockHeld(q)'
  BY DEF Raised, MarkFailed, WriteState, ChildEnded, NoChild, RunInv, Typed,
       LockHeld
<1>3. ASSUME NEW q \in Runs PROVE ChildAtStage(q)'
  BY DEF Raised, MarkFailed, WriteState, ChildEnded, NoChild, RunInv, Typed,
       ChildAtStage, Child
<1>4. ASSUME NEW q \in Runs PROVE BundleAtStage(q)'
  BY DEF Raised, MarkFailed, WriteState, ChildEnded, NoChild, RunInv, Typed,
       ChildAtStage, BundleAtStage, Bundle, Child
<1>5. ASSUME NEW q \in Runs PROVE Sealing(q)'
  <2>1. /\ bundle'[q].base = bundle[q].base /\ bundle'[q].matrix = bundle[q].matrix
        /\ bundle'[q].report = bundle[q].report
        /\ bundle'[q].authority = bundle[q].authority
    BY DEF Raised, MarkFailed, WriteState, RunInv, Typed, Bundle
  <2>2. child'[q] \in {child[q], NoChild}
    BY DEF Raised, RunInv, Typed
  <2>3. Sealing(q)
    BY DEF RunInv
  <2>4. QED
    BY <2>1, <2>2, <2>3 DEF Sealing, EvidenceComplete, NoChild
<1>6. ASSUME NEW q \in Runs PROVE BasisHolds(q)'
  BY DEF Raised, MarkFailed, WriteState, ChildEnded, NoChild, RunInv, Typed,
       LockHeld, ChildAtStage, BundleAtStage, BasisHolds, LatestSettled, Bundle,
       Child
<1>7. LatestSettled'
  BY DEF Raised, MarkFailed, WriteState, ChildEnded, NoChild, RunInv, Typed,
       LatestSettled, Child
<1>8. PublishedComplete'
  BY DEF Raised, MarkFailed, WriteState, ChildEnded, NoChild, RunInv, Typed,
       PublishedComplete, LatestSettled, Bundle
<1>9. ReuseMatchesImpact'
  BY DEF Raised, MarkFailed, WriteState, ChildEnded, NoChild, RunInv, Typed,
       ReuseMatchesImpact, LatestSettled, Bundle
<1>10. QED
  BY <1>1, <1>2, <1>3, <1>4, <1>5, <1>6, <1>7, <1>8, <1>9 DEF RunInv

\* What a child may reuse is the published run, the basis of a run that can
\* still publish.
LEMMA ChildReadsInv ==
  ASSUME RunInv, NEW r \in Runs, ChildReads(r)
  PROVE  RunInv'
<1>1. Typed'
  <2>1. PICK reuse \in EvidenceOf(r) :
          child' = [child EXCEPT ![r].stage = "read", ![r].reuse = reuse]
    BY DEF ChildReads
  <2>2. child[r] \in Child /\ reuse \in Runs \cup {"none", "fresh"}
    BY <2>1 DEF EvidenceOf, RunInv, Typed
  <2>3. [child[r] EXCEPT !.stage = "read", !.reuse = reuse] \in Child
    BY <2>2 DEF Child
  <2>4. QED
    BY <2>1, <2>3 DEF ChildReads, RunInv, Typed
<1>2. ASSUME NEW q \in Runs PROVE LockHeld(q)'
  BY DEF ChildReads, EvidenceOf, RunInv, Typed, LockHeld
<1>3. ASSUME NEW q \in Runs PROVE ChildAtStage(q)'
  BY DEF ChildReads, EvidenceOf, RunInv, Typed, ChildAtStage, Child, NoChild
<1>4. ASSUME NEW q \in Runs PROVE BundleAtStage(q)'
  BY DEF ChildReads, EvidenceOf, RunInv, Typed, ChildAtStage, BundleAtStage,
       Bundle, Child, NoChild
<1>5. ASSUME NEW q \in Runs PROVE Sealing(q)'
  BY DEF ChildReads, EvidenceOf, RunInv, Typed, ChildAtStage, Sealing,
       EvidenceComplete, Bundle, Child, NoChild
<1>6. ASSUME NEW q \in Runs PROVE BasisHolds(q)'
  BY DEF ChildReads, EvidenceOf, RunInv, Typed, LockHeld, ChildAtStage,
       BundleAtStage, BasisHolds, LatestSettled, Bundle, Child, NoChild
<1>7. LatestSettled'
  BY DEF ChildReads, EvidenceOf, RunInv, Typed, LatestSettled, Child
<1>8. PublishedComplete'
  BY DEF ChildReads, EvidenceOf, RunInv, Typed, PublishedComplete, LatestSettled,
       Bundle
<1>9. ReuseMatchesImpact'
  BY DEF ChildReads, EvidenceOf, RunInv, Typed, ReuseMatchesImpact, LatestSettled,
       Bundle
<1>10. QED
  BY <1>1, <1>2, <1>3, <1>4, <1>5, <1>6, <1>7, <1>8, <1>9 DEF RunInv

\* A report comes from where its child read it.  The published run has no such child.
LEMMA ChildWritesInv ==
  ASSUME RunInv, NEW r \in Runs, ChildWrites(r)
  PROVE  RunInv'
<1>1. Typed'
  <2>1. PICK matrix \in {bundle[r].matrix, "executed"} :
          bundle' = [bundle EXCEPT ![r].report[child[r].script] = child[r].reuse,
                                   ![r].matrix = matrix]
    BY DEF ChildWrites
  <2>2. bundle[r] \in Bundle /\ child[r] \in Child /\ child[r].script \in Layers
    BY DEF ChildWrites, RunInv, Typed
  <2>3. [bundle[r].report EXCEPT ![child[r].script] = child[r].reuse]
          \in [Layers -> Runs \cup {"none", "fresh"}]
    BY <2>2 DEF Bundle, Child
  <2>4. [bundle[r] EXCEPT !.report[child[r].script] = child[r].reuse,
                          !.matrix = matrix] \in Bundle
    BY <2>1, <2>2, <2>3 DEF Bundle
  <2>5. [child[r] EXCEPT !.stage = "ok"] \in Child
    BY <2>2 DEF Child
  <2>6. QED
    BY <2>1, <2>4, <2>5 DEF ChildWrites, Stage, RunInv, Typed
<1>2. ASSUME NEW q \in Runs PROVE LockHeld(q)'
  BY DEF ChildWrites, Stage, RunInv, Typed, LockHeld
<1>3. ASSUME NEW q \in Runs PROVE ChildAtStage(q)'
  BY DEF ChildWrites, Stage, RunInv, Typed, ChildAtStage, Child, NoChild
<1>4. ASSUME NEW q \in Runs PROVE BundleAtStage(q)'
  BY DEF ChildWrites, Stage, RunInv, Typed, ChildAtStage, BundleAtStage, Bundle,
       Child, NoChild
<1>5. ASSUME NEW q \in Runs PROVE Sealing(q)'
  BY DEF ChildWrites, Stage, RunInv, Typed, ChildAtStage, Sealing,
       EvidenceComplete, Bundle, Child, NoChild
<1>6. ASSUME NEW q \in Runs PROVE BasisHolds(q)'
  BY SMTT(30) DEF ChildWrites, Stage, RunInv, Typed, LockHeld, ChildAtStage, BundleAtStage,
       BasisHolds, LatestSettled, Bundle, Child, NoChild
<1>7. LatestSettled'
  BY DEF ChildWrites, Stage, RunInv, Typed, LatestSettled, Child
<1>8. PublishedComplete'
  BY DEF ChildWrites, Stage, RunInv, Typed, PublishedComplete, LatestSettled,
       Bundle
<1>9. ReuseMatchesImpact'
  BY DEF ChildWrites, Stage, RunInv, Typed, ReuseMatchesImpact, LatestSettled,
       Bundle
<1>10. QED
  BY <1>1, <1>2, <1>3, <1>4, <1>5, <1>6, <1>7, <1>8, <1>9 DEF RunInv

\* The finalizer writes the manifest of artifacts it has found complete.
LEMMA FinalizerWritesInv ==
  ASSUME RunInv, NEW r \in Runs, FinalizerWrites(r)
  PROVE  RunInv'
<1>1. Typed'
  <2>1. bundle[r] \in Bundle /\ child[r] \in Child
    BY DEF RunInv, Typed
  <2>2. [bundle[r] EXCEPT !.authority = TRUE] \in Bundle
    BY <2>1 DEF Bundle
  <2>3. [child[r] EXCEPT !.stage = "written"] \in Child
    BY <2>1 DEF Child
  <2>4. QED
    BY <2>2, <2>3 DEF FinalizerWrites, Stage, RunInv, Typed
<1>2. ASSUME NEW q \in Runs PROVE LockHeld(q)'
  BY DEF FinalizerWrites, Stage, RunInv, Typed, LockHeld
<1>3. ASSUME NEW q \in Runs PROVE ChildAtStage(q)'
  BY DEF FinalizerWrites, Stage, RunInv, Typed, ChildAtStage, Child, NoChild
<1>4. ASSUME NEW q \in Runs PROVE BundleAtStage(q)'
  BY DEF FinalizerWrites, Stage, RunInv, Typed, ChildAtStage, BundleAtStage,
       Bundle, Child, NoChild
<1>5. ASSUME NEW q \in Runs PROVE Sealing(q)'
  BY DEF FinalizerWrites, Stage, RunInv, Typed, ChildAtStage, Sealing,
       EvidenceComplete, Bundle, Child, NoChild
<1>6. ASSUME NEW q \in Runs PROVE BasisHolds(q)'
  BY DEF FinalizerWrites, Stage, RunInv, Typed, LockHeld, ChildAtStage,
       BundleAtStage, BasisHolds, LatestSettled, Bundle, Child, NoChild
<1>7. LatestSettled'
  BY DEF FinalizerWrites, Stage, RunInv, Typed, LatestSettled, Child
<1>8. PublishedComplete'
  BY DEF FinalizerWrites, Stage, RunInv, Typed, PublishedComplete, LatestSettled,
       Bundle
<1>9. ReuseMatchesImpact'
  BY DEF FinalizerWrites, Stage, RunInv, Typed, ReuseMatchesImpact, LatestSettled,
       Bundle
<1>10. QED
  BY <1>1, <1>2, <1>3, <1>4, <1>5, <1>6, <1>7, <1>8, <1>9 DEF RunInv

-----------------------------------------------------------------------------
(* The invariant                                                           *)

LEMMA InitInv == Init => RunInv
  BY DEF Init, NoBundle, RunInv, Typed, LockHeld, ChildAtStage, BundleAtStage,
       Sealing, EvidenceComplete, BasisHolds, LatestSettled, PublishedComplete,
       ReuseMatchesImpact, Bundle, Child, NoChild

\* One step per action.  Publish is where lock, basis and sealing meet: the run is
\* the holder, so latest is still its basis; its finalizer ended, so it is complete.
LEMMA RunStepInv ==
  ASSUME RunInv, NEW r \in Runs, RunStep(r)
  PROVE  RunInv'
<1>1. CASE Acquire(r)
  BY <1>1, SMTT(30) DEF Acquire, LockFree, RunInv, Typed, LockHeld, ChildAtStage,
       BundleAtStage, Sealing, EvidenceComplete, BasisHolds, LatestSettled,
       PublishedComplete, ReuseMatchesImpact, Bundle, Child, NoChild
<1>2. CASE CreateStaging(r)
  BY <1>2 DEF CreateStaging, Advance, WriteState, RunInv, Typed, LockHeld,
       ChildAtStage, BundleAtStage, Sealing, EvidenceComplete, BasisHolds,
       LatestSettled, PublishedComplete, ReuseMatchesImpact, Bundle, Child,
       NoChild
<1>3. CASE BuildBase(r)
  BY <1>3 DEF BuildBase, Advance, LatestRefused, LatestMissing, LatestReadable,
       RunInv, Typed, LockHeld, ChildAtStage, BundleAtStage, Sealing,
       EvidenceComplete, BasisHolds, LatestSettled, PublishedComplete,
       ReuseMatchesImpact, Bundle, Child, NoChild
<1>4. CASE Rename(r)
  BY <1>4 DEF Rename, Advance, RunInv, Typed, LockHeld, ChildAtStage,
       BundleAtStage, Sealing, EvidenceComplete, BasisHolds, LatestSettled,
       PublishedComplete, ReuseMatchesImpact, Bundle, Child, NoChild
<1>5. CASE AssignState(r)
  BY <1>5 DEF AssignState, Advance, WriteState, RunInv, Typed, LockHeld,
       ChildAtStage, BundleAtStage, Sealing, EvidenceComplete, BasisHolds,
       LatestSettled, PublishedComplete, ReuseMatchesImpact, Bundle, Child,
       NoChild
<1>6. CASE WriteBase(r)
  BY <1>6, WriteBaseInv
<1>7. CASE \E script \in Scripts : Launch(r, script)
  BY <1>7, LaunchInv
<1>8. CASE Finalized(r)
  BY <1>8 DEF Finalized, Advance, FinalizerPassed, RunInv, Typed, LockHeld,
       ChildAtStage, BundleAtStage, Sealing, EvidenceComplete, BasisHolds,
       LatestSettled, PublishedComplete, ReuseMatchesImpact, Bundle, Child,
       NoChild
<1>9. CASE Publish(r)
  BY <1>9 DEF Publish, Advance, Publishable, RunInv, Typed, LockHeld,
       ChildAtStage, BundleAtStage, Sealing, EvidenceComplete, BasisHolds,
       LatestSettled, PublishedComplete, ReuseMatchesImpact, Bundle, Child,
       NoChild
<1>10. CASE Return(r)
  BY <1>10 DEF Return, Advance, RunInv, Typed, LockHeld, ChildAtStage,
       BundleAtStage, Sealing, EvidenceComplete, BasisHolds, LatestSettled,
       PublishedComplete, ReuseMatchesImpact, Bundle, Child, NoChild
<1>11. CASE RaiseItself(r)
  BY <1>11, RaisedInv DEF RaiseItself, MustRaise
<1>12. CASE Unlock(r)
  BY <1>12 DEF Unlock, Advance, RunInv, Typed, LockHeld, ChildAtStage,
       BundleAtStage, Sealing, EvidenceComplete, BasisHolds, LatestSettled,
       PublishedComplete, ReuseMatchesImpact, Bundle, Child, NoChild
<1>13. QED
  BY <1>1, <1>2, <1>3, <1>4, <1>5, <1>6, <1>7, <1>8, <1>9, <1>10, <1>11, <1>12 DEF RunStep

LEMMA ChildStepInv ==
  ASSUME RunInv, NEW r \in Runs, ChildStep(r)
  PROVE  RunInv'
<1>1. CASE ChildReads(r)
  BY <1>1, ChildReadsInv
<1>2. CASE ChildWrites(r)
  BY <1>2, ChildWritesInv
<1>3. CASE ChildFails(r)
  BY <1>3 DEF ChildFails, ChildEnded, Stage, RunInv, Typed, LockHeld,
       ChildAtStage, BundleAtStage, Sealing, EvidenceComplete, BasisHolds,
       LatestSettled, PublishedComplete, ReuseMatchesImpact, Bundle, Child,
       NoChild
<1>4. CASE FinalizerReads(r)
  BY <1>4 DEF FinalizerReads, Stage, RunInv, Typed, LockHeld, ChildAtStage,
       BundleAtStage, Sealing, EvidenceComplete, BasisHolds, LatestSettled,
       PublishedComplete, ReuseMatchesImpact, Bundle, Child, NoChild
<1>5. CASE FinalizerWrites(r)
  BY <1>5, FinalizerWritesInv
<1>6. CASE FinalizerSeals(r)
  BY <1>6, SMTT(30) DEF FinalizerSeals, WriteState, Stage, RunInv, Typed, LockHeld,
       ChildAtStage, BundleAtStage, Sealing, EvidenceComplete, BasisHolds,
       LatestSettled, PublishedComplete, ReuseMatchesImpact, Bundle, Child,
       NoChild
<1>7. CASE FinalizerExits(r)
  BY <1>7 DEF FinalizerExits, Stage, RunInv, Typed, LockHeld, ChildAtStage,
       BundleAtStage, Sealing, EvidenceComplete, BasisHolds, LatestSettled,
       PublishedComplete, ReuseMatchesImpact, Bundle, Child, NoChild
<1>8. QED
  BY <1>1, <1>2, <1>3, <1>4, <1>5, <1>6, <1>7 DEF ChildStep

LEMMA NextInv == RunInv /\ [Next]_vars => RunInv'
<1> SUFFICES ASSUME RunInv, [Next]_vars PROVE RunInv'
  OBVIOUS
<1>1. ASSUME NEW r \in Runs, RunStep(r) PROVE RunInv'
  BY <1>1, RunStepInv
<1>2. ASSUME NEW r \in Runs, Raise(r) PROVE RunInv'
  BY <1>2, RaisedInv DEF Raise
<1>3. ASSUME NEW r \in Runs, Kill(r) PROVE RunInv'
  BY <1>3 DEF Kill, RunInv, Typed, LockHeld, ChildAtStage, BundleAtStage, Sealing,
       EvidenceComplete, BasisHolds, LatestSettled, PublishedComplete,
       ReuseMatchesImpact, Bundle, Child, NoChild
<1>4. ASSUME NEW r \in Runs, ChildStep(r) PROVE RunInv'
  BY <1>4, ChildStepInv
<1>5. ASSUME NEW r \in Runs, ToolChecks(r) PROVE RunInv'
  BY <1>5 DEF ToolChecks, RunInv, Typed, LockHeld, ChildAtStage, BundleAtStage,
       Sealing, EvidenceComplete, BasisHolds, LatestSettled, PublishedComplete,
       ReuseMatchesImpact, Bundle, Child, NoChild
<1>6. CASE ToolWrites
  BY <1>6 DEF ToolWrites, RunInv, Typed, LockHeld, ChildAtStage, BundleAtStage,
       Sealing, EvidenceComplete, BasisHolds, LatestSettled, PublishedComplete,
       ReuseMatchesImpact, Bundle, Child, NoChild
<1>7. CASE UNCHANGED vars
  BY <1>7 DEF vars, RunInv, Typed, LockHeld, ChildAtStage, BundleAtStage, Sealing,
       EvidenceComplete, BasisHolds, LatestSettled, PublishedComplete,
       ReuseMatchesImpact, Bundle, Child, NoChild
<1>8. QED
  BY <1>1, <1>2, <1>3, <1>4, <1>5, <1>6, <1>7 DEF Next

LEMMA Invariant == RunSpec => []RunInv
<1>1. QED
  BY InitInv, NextInv, PTL DEF RunSpec

-----------------------------------------------------------------------------
(* The theorems                                                            *)

\* Whatever is killed, raised or left behind: a run has the lock exactly while it is
\* alive, and an evidence process never works on a bundle in state FINAL.
THEOREM RunTypeCorrect == RunSpec => []RunTypeOK
<1>1. RunInv => RunTypeOK
  BY DEF RunInv, RunTypeOK, Typed, LockHeld, BundleAtStage, Bundle
<1>2. QED
  BY <1>1, Invariant, PTL

\* `latest` always points to a bundle with all artifacts (publish_latest after
\* finalize_authoritative_run).
THEOREM PublicationComplete == RunSpec => []PublishedComplete
<1>1. RunInv => PublishedComplete
  BY DEF RunInv
<1>2. QED
  BY <1>1, Invariant, PTL

\* A published run has reused evidence only of the run its requirement impact was
\* computed against (evidence_reuse_allowed).
THEOREM ReuseCorrect == RunSpec => []ReuseMatchesImpact
<1>1. RunInv => ReuseMatchesImpact
  BY DEF RunInv
<1>2. QED
  BY <1>1, Invariant, PTL

\* Only a run whose basis is still FINAL can publish, so a FAILED bundle that
\* latest points to stays there (latest_output_dir).
THEOREM FailedLatestBlocks == RunSpec => FailedLatestStays
<1>1. ASSUME RunInv, [Next]_vars, latest # None, bundle[latest].state = "FAILED"
      PROVE  latest' = latest
  <2>1. ASSUME NEW r \in Runs, Publish(r) PROVE FALSE
    BY <1>1, <2>1 DEF Publish, Advance, RunInv, BasisHolds
  <2>2. QED
    BY <1>1, <2>1 DEF Next, RunStep, ChildStep, Acquire, CreateStaging, BuildBase, Rename,
       AssignState, WriteBase, Launch, Finalized, Return, RaiseItself, Raise, Raised,
       Unlock, Kill, ChildReads, ChildWrites, ChildFails, FinalizerReads, FinalizerWrites,
       FinalizerSeals, FinalizerExits, ToolChecks, ToolWrites, vars
<1>2. QED
  BY <1>1, Invariant, PTL DEF RunSpec, FailedLatestStays
=============================================================================
