--------------------------- MODULE ClosureProofs ---------------------------
(***************************************************************************)
(* Proofs about ClosurePhases, for any texts, plans and requirements.  A   *)
(* closure loop that compares sets of gap ids is accounted for repair by   *)
(* repair; the terminal audit makes what is published closed whatever the  *)
(* phases after the loop wrote.                                            *)
(***************************************************************************)
EXTENDS ClosurePhases, FiniteSetTheorems, TLAPS

\* The attempts are within their budget while they are made.
Budgeted == pc = "revise" => tries < MaximumAttempts

\* The closure loop in progress: what StartClosure recorded, less the accepted repairs.
Repairing ==
  /\ gaps = Gaps(model.text)
  /\ closure.initial = Gaps(projected.text)
  /\ gaps \subseteq closure.initial
  /\ Cardinality(closure.initial) >= Cardinality(gaps) + closure.accepted
  /\ closure.accepted <= closure.attempts
  /\ closure.accepted = 0 => model = projected
  /\ model.score + Tolerance * closure.accepted >= projected.score

\* The verdict that lets a revision through to its snapshot.
Audited ==
  pc \in {"snapshot", "returned"} =>
    Gaps(model.text) = {} /\ closure.remaining = {} /\ closure.status = "CLOSED"

ClosureInv ==
  /\ ClosureTypeOK /\ Budgeted
  /\ pc = "repair" => Repairing
  /\ ClosureAccounts /\ BoundedDrift /\ Audited /\ PublishedClosed

-----------------------------------------------------------------------------
(* The facts about a text                                                  *)

LEMMA FactTypes ==
  ASSUME NEW t \in Texts
  PROVE  /\ Gaps(t) \in SUBSET Requirements /\ IsFiniteSet(Gaps(t))
         /\ Facts[t].rule \in Nat
         /\ Facts[t].unresolved \in SUBSET Parameters
<1>1. Facts[t] \in TextFacts
  BY FactsAssumption
<1>2. Gaps(t) \in SUBSET Requirements
  BY <1>1 DEF TextFacts, Gaps
<1>3. IsFiniteSet(Gaps(t))
  BY <1>2, FactsAssumption, FS_Subset
<1>4. QED
  BY <1>1, <1>2, <1>3 DEF TextFacts

LEMMA PlanTypes ==
  ASSUME NEW p \in Plans, NEW t \in Texts
  PROVE  Applied(p, t) \in Texts /\ Unmet(p, t) \in SUBSET Obligations
<1>1. PlanFacts[p][t] \in PlanTextFacts
  BY FactsAssumption
<1>2. QED
  BY <1>1 DEF PlanTextFacts, Applied, Unmet

\* A revision keeps its type when its text is rewritten, and has it when it is new.
LEMMA RevisionTypes ==
  ASSUME NEW t \in Texts, NEW u \in Texts, NEW s \in Nat
  PROVE  /\ Revision(t, s, u) \in Revisions
         /\ \A m \in Revisions : [m EXCEPT !.text = t] \in Revisions
BY DEF Revision, Revisions

\* Each accepted repair closes at least one gap: a smaller set of ids has fewer of them.
LEMMA ProgressCounts ==
  ASSUME NEW S, NEW T \in SUBSET S, IsFiniteSet(S), T # S
  PROVE  /\ Cardinality(T) \in Nat /\ Cardinality(S) \in Nat
         /\ Cardinality(T) + 1 <= Cardinality(S)
<1>1. IsFiniteSet(T) /\ Cardinality(T) <= Cardinality(S) /\ Cardinality(S) # Cardinality(T)
  BY FS_Subset
<1>2. Cardinality(T) \in Nat /\ Cardinality(S) \in Nat
  BY <1>1, FS_CardinalityType
<1>3. QED
  BY <1>1, <1>2

\* One more repair costs at most one tolerance more.
LEMMA ToleranceAdds ==
  ASSUME NEW a \in 0 .. MaximumAttempts, a < MaximumAttempts,
         NEW s \in Nat, NEW n \in Nat, NEW p \in Nat,
         s + Tolerance * a >= p, n >= s - Tolerance
  PROVE  n + Tolerance * (a + 1) >= p
<1>1. CASE a = 0
  <2>1. Tolerance \in Nat /\ Tolerance * a = 0 /\ Tolerance * (a + 1) = Tolerance
    BY <1>1, ScoresAssumption
  <2>2. QED
    BY <2>1
<1>2. CASE a = 1
  <2>1. Tolerance \in Nat /\ Tolerance * a = Tolerance
        /\ Tolerance * (a + 1) = Tolerance + Tolerance
    BY <1>2, ScoresAssumption
  <2>2. QED
    BY <2>1
<1>3. QED
  BY <1>1, <1>2 DEF MaximumAttempts

-----------------------------------------------------------------------------
(* The typed states                                                        *)

LEMMA InitTyped == Init => ClosureInv
<1> SUFFICES ASSUME Init PROVE ClosureInv
  OBVIOUS
<1>2. model \in Revisions
  BY RevisionTypes DEF Init
<1>3. closure \in Closures
  BY DEF Init, NoClosure, Closures, MaximumAttempts
<1>4. ClosureTypeOK
  BY <1>2, <1>3 DEF Init, ClosureTypeOK, Phases, NotBlocked, MaximumAttempts
<1>5. QED
  BY <1>4 DEF Init, ClosureInv, Budgeted, ClosureAccounts, BoundedDrift, Audited,
       PublishedClosed

\* Type correctness, over the steps before the closure loop.
LEMMA TypedBefore ==
  ASSUME ClosureTypeOK, Budgeted,
         Refine \/ KeepPlan \/ RevisionRefused \/ RevisionAuthorised
           \/ ProjectParameters \/ SitlPass \/ SitlEnds
  PROVE  ClosureTypeOK' /\ Budgeted'
<1> USE DEF ClosureTypeOK, Phases, Budgeted, MaximumAttempts
<1>1. CASE Refine
  <2>1. model' \in Revisions
    BY <1>1, RevisionTypes, ScoresAssumption DEF Refine
  <2>2. blocked' \in SUBSET SUBSET Obligations
    <3>1. ASSUME NEW t \in Texts PROVE {Unmet(plan, t)} \in SUBSET SUBSET Obligations
      BY PlanTypes
    <3>2. QED
      BY <1>1, <3>1 DEF Refine, NotBlocked
  <2>3. pc' \in {"revise", "project"}
    BY <1>1 DEF Refine, AfterRefine
  <2>4. QED
    BY <1>1, <2>1, <2>2, <2>3 DEF Refine
<1>2. CASE KeepPlan
  BY <1>2 DEF KeepPlan
<1>3. CASE RevisionRefused
  BY <1>3 DEF RevisionRefused
<1>4. CASE RevisionAuthorised
  <2>1. PICK p \in Plans \ {NoPlan} :
          IF Adoptable(p)
          THEN /\ plan' = p
               /\ model' = [model EXCEPT !.text = Applied(p, model.text)]
               /\ blocked' = NotBlocked
               /\ pc' = "again"
          ELSE /\ pc' = "project" /\ UNCHANGED <<plan, model, blocked, revised>>
    BY <1>4 DEF RevisionAuthorised
  <2>2. [model EXCEPT !.text = Applied(p, model.text)] \in Revisions
    BY PlanTypes, RevisionTypes DEF Revisions
  <2>3. plan' \in Plans /\ model' \in Revisions /\ pc' \in {"again", "project"}
        /\ blocked' \in SUBSET SUBSET Obligations
    BY <2>1, <2>2 DEF NotBlocked
  <2>4. QED
    BY <1>4, <2>3 DEF RevisionAuthorised
<1>5. CASE ProjectParameters
  BY <1>5 DEF ProjectParameters
<1>6. CASE SitlPass
  <2>1. PICK t \in Texts : model' = Revision(t, Facts[t].rule, t)
    BY <1>6 DEF SitlPass
  <2>2. model' \in Revisions
    BY <2>1, FactTypes, RevisionTypes
  <2>3. seen' \in SUBSET SUBSET Parameters
    BY <1>6, FactTypes DEF SitlPass, Revisions
  <2>4. QED
    BY <1>6, <2>2, <2>3 DEF SitlPass
<1>7. CASE SitlEnds
  BY <1>7 DEF SitlEnds
<1>8. QED
  BY <1>1, <1>2, <1>3, <1>4, <1>5, <1>6, <1>7

\* The steps before the closure loop touch no closure record; the ones that move pc on
\* leave it where nothing is claimed yet.
LEMMA BeforeInv ==
  ASSUME ClosureInv,
         Refine \/ KeepPlan \/ RevisionRefused \/ RevisionAuthorised
           \/ ProjectParameters \/ SitlPass \/ SitlEnds
  PROVE  ClosureInv'
<1>1. ClosureTypeOK' /\ Budgeted'
  BY TypedBefore DEF ClosureInv
<1>2. pc' \in {"revise", "again", "project", "sitl", "close"}
  BY DEF Refine, AfterRefine, KeepPlan, RevisionRefused, RevisionAuthorised,
       ProjectParameters, SitlPass, SitlEnds
<1>3. QED
  BY <1>1, <1>2 DEF ClosureInv, ClosureAccounts, BoundedDrift, Audited, PublishedClosed

-----------------------------------------------------------------------------
(* The closure loop                                                        *)

LEMMA StartClosureInv ==
  ASSUME ClosureInv, StartClosure
  PROVE  ClosureInv'
<1>1. /\ model \in Revisions /\ model.text \in Texts /\ model.score \in Nat
      /\ model' = model /\ projected' = model
  BY DEF ClosureInv, ClosureTypeOK, Revisions, StartClosure
<1>2. gaps' = Gaps(model.text) /\ gaps' \in SUBSET Requirements /\ IsFiniteSet(gaps')
  BY <1>1, FactTypes DEF StartClosure
<1>3. closure' = [status |-> "REPAIRING", initial |-> gaps', remaining |-> gaps',
                  attempts |-> 0, accepted |-> 0]
  BY DEF StartClosure, NoClosure
<1>4. ClosureTypeOK'
  <2>1. closure' \in Closures
    BY <1>2, <1>3 DEF Closures, MaximumAttempts
  <2>2. QED
    BY <1>1, <1>2, <2>1 DEF ClosureInv, ClosureTypeOK, StartClosure, Phases
<1>5. Repairing'
  <2>1. Cardinality(gaps') \in Nat
    BY <1>2, FS_CardinalityType
  <2>2. Tolerance * 0 = 0
    BY ScoresAssumption
  <2>3. QED
    BY <1>1, <1>2, <1>3, <2>1, <2>2 DEF Repairing
<1>6. QED
  BY <1>4, <1>5 DEF ClosureInv, StartClosure, Budgeted, ClosureAccounts, BoundedDrift,
       Audited, PublishedClosed

LEMMA RepairAcceptedInv ==
  ASSUME ClosureInv, RepairAccepted
  PROVE  ClosureInv'
<1> DEFINE t(raw) == Applied(plan, raw)
<1>1. PICK raw \in Texts :
        /\ Progress(t(raw)) /\ NotRegressed(t(raw))
        /\ model' = Revision(t(raw), Facts[t(raw)].rule, t(raw))
        /\ gaps' = Gaps(t(raw))
  BY DEF RepairAccepted
<1>2. /\ t(raw) \in Texts
      /\ Gaps(t(raw)) \in SUBSET Requirements
      /\ Facts[t(raw)].rule \in Nat
  BY PlanTypes, FactTypes DEF ClosureInv, ClosureTypeOK
<1>3. /\ model \in Revisions /\ model.score \in Nat /\ model.text \in Texts
      /\ projected \in Revisions /\ projected.score \in Nat
      /\ closure \in Closures /\ closure.accepted \in 0 .. MaximumAttempts
      /\ closure.attempts \in 0 .. MaximumAttempts
  BY DEF ClosureInv, ClosureTypeOK, Revisions, Closures
<1>4. Repairing /\ pc' = "repair" /\ projected' = projected
      /\ closure.attempts < MaximumAttempts
  BY DEF ClosureInv, RepairAccepted
<1>5. closure' = [closure EXCEPT !.attempts = @ + 1, !.accepted = @ + 1]
  BY DEF RepairAccepted
<1>6. closure.accepted < MaximumAttempts
  BY <1>3, <1>4 DEF Repairing, MaximumAttempts
<1>7. /\ closure' \in Closures
      /\ closure'.accepted = closure.accepted + 1
      /\ closure'.attempts = closure.attempts + 1
      /\ closure'.initial = closure.initial
  <2>1. /\ closure.attempts + 1 \in 0 .. MaximumAttempts
        /\ closure.accepted + 1 \in 0 .. MaximumAttempts
    BY <1>3, <1>4, <1>6 DEF MaximumAttempts
  <2>2. closure' = [closure EXCEPT !.attempts = closure.attempts + 1,
                                   !.accepted = closure.accepted + 1]
    BY <1>3, <1>5 DEF Closures
  <2>3. PICK a \in 0 .. MaximumAttempts, b \in 0 .. MaximumAttempts :
          /\ a = closure.attempts + 1 /\ b = closure.accepted + 1
          /\ closure' = [closure EXCEPT !.attempts = a, !.accepted = b]
    BY <2>1, <2>2
  <2>4. /\ closure' \in Closures /\ closure'.accepted = b /\ closure'.attempts = a
        /\ closure'.initial = closure.initial
    BY <1>3, <2>3 DEF Closures
  <2>5. QED
    BY <2>3, <2>4
<1>8. model' \in Revisions /\ model'.text = t(raw) /\ model'.score = Facts[t(raw)].rule
  BY <1>1, <1>2, RevisionTypes DEF Revision
<1>9. ClosureTypeOK'
  BY <1>1, <1>2, <1>7, <1>8 DEF ClosureInv, ClosureTypeOK, RepairAccepted, Phases
<1>10. Repairing'
  <2>1. gaps' \subseteq gaps /\ gaps' # gaps /\ gaps' = Gaps(model'.text)
    BY <1>1, <1>8 DEF Progress
  <2>2. IsFiniteSet(gaps)
    BY <1>3, <1>4, FactTypes DEF Repairing
  <2>3. Cardinality(gaps') + 1 <= Cardinality(gaps)
        /\ Cardinality(gaps') \in Nat /\ Cardinality(gaps) \in Nat
    BY <2>1, <2>2, ProgressCounts
  <2>4. Cardinality(closure.initial) \in Nat
    <3>1. IsFiniteSet(closure.initial)
      BY <1>3, <1>4, FactTypes DEF Repairing, Revisions
    <3>2. QED
      BY <3>1, FS_CardinalityType
  <2>5. Cardinality(closure'.initial) >= Cardinality(gaps') + closure'.accepted
    BY <1>3, <1>4, <1>7, <2>3, <2>4 DEF Repairing
  <2>6. model'.score >= model.score - Tolerance
    BY <1>1, <1>8 DEF NotRegressed
  <2>7. model'.score + Tolerance * closure'.accepted >= projected.score
    BY <1>2, <1>3, <1>4, <1>6, <1>7, <1>8, <2>6, ToleranceAdds DEF Repairing
  <2>8. closure'.accepted <= closure'.attempts /\ closure'.accepted # 0
    BY <1>3, <1>4, <1>7 DEF Repairing, MaximumAttempts
  <2>9. gaps' \subseteq closure'.initial /\ closure'.initial = Gaps(projected'.text)
    BY <1>4, <1>7, <2>1 DEF Repairing
  <2>10. QED
    BY <1>4, <2>1, <2>5, <2>7, <2>8, <2>9 DEF Repairing
<1>11. QED
  BY <1>4, <1>9, <1>10 DEF ClosureInv, Budgeted, ClosureAccounts, BoundedDrift, Audited,
       PublishedClosed

LEMMA RepairRejectedInv ==
  ASSUME ClosureInv, RepairRejected
  PROVE  ClosureInv'
<1>1. /\ closure \in Closures /\ closure.attempts < MaximumAttempts
      /\ closure.attempts \in 0 .. MaximumAttempts
      /\ closure.accepted \in 0 .. MaximumAttempts
      /\ closure' = [closure EXCEPT !.attempts = @ + 1]
  BY DEF ClosureInv, ClosureTypeOK, RepairRejected, Closures
<1>2. /\ closure' \in Closures /\ closure'.attempts = closure.attempts + 1
      /\ closure'.accepted = closure.accepted /\ closure'.initial = closure.initial
  BY <1>1 DEF Closures, MaximumAttempts
<1>3. Repairing /\ pc' = "repair"
  BY DEF ClosureInv, RepairRejected
<1>4. ClosureTypeOK'
  BY <1>2 DEF ClosureInv, ClosureTypeOK, RepairRejected
<1>5. Repairing'
  BY <1>1, <1>2, <1>3 DEF Repairing, RepairRejected, MaximumAttempts
<1>6. QED
  BY <1>3, <1>4, <1>5 DEF ClosureInv, Budgeted, ClosureAccounts, BoundedDrift, Audited,
       PublishedClosed

LEMMA EndClosureInv ==
  ASSUME ClosureInv, EndClosure
  PROVE  ClosureInv'
<1>1. /\ closure \in Closures /\ gaps \in SUBSET Requirements /\ Repairing
      /\ pc' = "enforce" /\ model' = model /\ projected' = projected
  BY DEF ClosureInv, ClosureTypeOK, EndClosure
<1>2. /\ closure' \in Closures /\ closure'.remaining = gaps
      /\ closure'.status = IF gaps = {} THEN "CLOSED" ELSE "OPEN"
      /\ closure'.initial = closure.initial /\ closure'.accepted = closure.accepted
      /\ closure'.attempts = closure.attempts
  BY <1>1 DEF EndClosure, Closures
<1>3. ClosureTypeOK'
  BY <1>2 DEF ClosureInv, ClosureTypeOK, EndClosure, Phases
<1>4. ClosureAccounts' /\ BoundedDrift'
  BY <1>1, <1>2 DEF ClosureAccounts, BoundedDrift, Repairing
<1>5. QED
  BY <1>1, <1>3, <1>4 DEF ClosureInv, Budgeted, Audited, PublishedClosed

-----------------------------------------------------------------------------
(* The terminal phases                                                     *)

LEMMA TerminalPhasesInv ==
  ASSUME ClosureInv, TerminalPhases
  PROVE  ClosureInv'
<1>1. PICK t \in Texts : model' = [model EXCEPT !.text = t]
  BY DEF TerminalPhases
<1>2. model' \in Revisions
  BY <1>1, RevisionTypes DEF ClosureInv, ClosureTypeOK
<1>3. ClosureTypeOK'
  BY <1>2 DEF ClosureInv, ClosureTypeOK, TerminalPhases, Phases
<1>4. QED
  BY <1>3 DEF ClosureInv, TerminalPhases, Budgeted, ClosureAccounts, BoundedDrift,
       Audited, PublishedClosed

\* Whatever closure said before, only a text without gaps goes on to its snapshot.
LEMMA VerifyTerminalInv ==
  ASSUME ClosureInv, VerifyTerminal
  PROVE  ClosureInv'
<1>1. closure \in Closures /\ TerminalGaps \in SUBSET Requirements
  BY FactTypes DEF ClosureInv, ClosureTypeOK, Revisions, TerminalGaps
<1>2. /\ closure' \in Closures
      /\ TerminalGaps = {} => closure'.remaining = {} /\ closure'.status = "CLOSED"
  BY <1>1 DEF VerifyTerminal, Closures
<1>3. pc' = IF TerminalGaps = {} THEN "snapshot" ELSE "raised"
  BY DEF VerifyTerminal
<1>4. ClosureTypeOK'
  BY <1>2, <1>3 DEF ClosureInv, ClosureTypeOK, VerifyTerminal, Phases
<1>5. Audited'
  BY <1>2, <1>3 DEF VerifyTerminal, Audited, TerminalGaps
<1>6. QED
  BY <1>3, <1>4, <1>5 DEF ClosureInv, Budgeted, ClosureAccounts, BoundedDrift,
       PublishedClosed

LEMMA SnapshotInv ==
  ASSUME ClosureInv, SynchronizeSnapshot
  PROVE  ClosureInv'
<1>1. model \in Revisions /\ model.text \in Texts
  BY DEF ClosureInv, ClosureTypeOK, Revisions
<1>2. /\ model' \in Revisions /\ model'.text = model.text /\ model'.sim = model.text
      /\ model'.score = Facts[model.text].rule
  BY <1>1, FactTypes, RevisionTypes DEF SynchronizeSnapshot, Snapshot, Revision
<1>3. ClosureTypeOK'
  BY <1>2 DEF ClosureInv, ClosureTypeOK, SynchronizeSnapshot, Phases
<1>4. Audited' /\ PublishedClosed'
  BY <1>2 DEF ClosureInv, Audited, PublishedClosed, SynchronizeSnapshot
<1>5. QED
  BY <1>3, <1>4 DEF ClosureInv, SynchronizeSnapshot, Budgeted, ClosureAccounts,
       BoundedDrift

LEMMA ExploreInv ==
  ASSUME ClosureInv, Explore \/ AuditFails
  PROVE  ClosureInv'
<1>1. model' \in Revisions
  BY RevisionTypes DEF ClosureInv, ClosureTypeOK, Explore, AuditFails
<1>2. ClosureTypeOK'
  BY <1>1 DEF ClosureInv, ClosureTypeOK, Explore, AuditFails, Phases, MaximumAttempts
<1>3. pc' \in {"refine", "raised"}
  BY DEF Explore, AuditFails
<1>4. QED
  BY <1>2, <1>3 DEF ClosureInv, Budgeted, ClosureAccounts, BoundedDrift, Audited,
       PublishedClosed

-----------------------------------------------------------------------------
LEMMA NextInv == ClosureInv /\ [Next]_vars => ClosureInv'
<1> SUFFICES ASSUME ClosureInv, [Next]_vars PROVE ClosureInv'
  OBVIOUS
<1>1. CASE Refine \/ KeepPlan \/ RevisionRefused \/ RevisionAuthorised
             \/ ProjectParameters \/ SitlPass \/ SitlEnds
  BY <1>1, BeforeInv
<1>2. CASE StartClosure
  BY <1>2, StartClosureInv
<1>3. CASE RepairAccepted
  BY <1>3, RepairAcceptedInv
<1>4. CASE RepairRejected
  BY <1>4, RepairRejectedInv
<1>5. CASE EndClosure
  BY <1>5, EndClosureInv
<1>6. CASE TerminalPhases
  BY <1>6, TerminalPhasesInv
<1>7. CASE VerifyTerminal
  BY <1>7, VerifyTerminalInv
<1>8. CASE SynchronizeSnapshot
  BY <1>8, SnapshotInv
<1>9. CASE Explore \/ AuditFails
  BY <1>9, ExploreInv
<1>10. CASE UNCHANGED vars
  BY <1>10 DEF vars, ClosureInv, ClosureTypeOK, Budgeted, Repairing, ClosureAccounts,
       BoundedDrift, Audited, PublishedClosed
<1>11. QED
  BY <1>1, <1>2, <1>3, <1>4, <1>5, <1>6, <1>7, <1>8, <1>9, <1>10 DEF Next

LEMMA ClosureInvariant == Spec => []ClosureInv
<1>1. QED
  BY InitTyped, NextInv, PTL DEF Spec

\* The typestate facade, the closure record and the revisions keep their types.
THEOREM ClosureTypeCorrect == Spec => []ClosureTypeOK
<1>1. ClosureInv => ClosureTypeOK
  BY DEF ClosureInv
<1>2. QED
  BY <1>1, ClosureInvariant, PTL

\* When close returns, its record is true of the revision it returns, and every
\* accepted repair has closed at least one of the initial gaps.
THEOREM ClosureAccounted == Spec => []ClosureAccounts
<1>1. ClosureInv => ClosureAccounts
  BY DEF ClosureInv
<1>2. QED
  BY <1>1, ClosureInvariant, PTL

\* A chain of repairs loses at most the tolerance per accepted repair.
THEOREM DriftBounded == Spec => []BoundedDrift
<1>1. ClosureInv => BoundedDrift
  BY DEF ClosureInv
<1>2. QED
  BY <1>1, ClosureInvariant, PTL

\* A published revision has no functional gap, and its record, score and simulation are
\* those of its own text, whatever the terminal phases wrote.
THEOREM PublicationClosed == Spec => []PublishedClosed
<1>1. ClosureInv => PublishedClosed
  BY DEF ClosureInv
<1>2. QED
  BY <1>1, ClosureInvariant, PTL
=============================================================================
