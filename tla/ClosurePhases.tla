--------------------------- MODULE ClosurePhases ---------------------------
(***************************************************************************)
(* What happens to a model between its initial design and its publication: *)
(* the typestate facade RefinementClosure (refine, project_parameters,     *)
(* close, verify_terminal; agents/refinement.py), the bounded revision of  *)
(* the frozen plan (agents/generation_pipeline.py, agents/plan_revision.py)*)
(* and the terminal snapshot (agents/collaboration.py), as generate and    *)
(* then explore call them on one orchestrator.                             *)
(*                                                                         *)
(* The refinement loop itself is module Refinement.  Here refine returns   *)
(* whatever that loop may return: any text and score, and, as Refinement   *)
(* shows, a simulation and a blocked verdict of a text the model no longer *)
(* has.  The board and its commits are module Collaboration.               *)
(***************************************************************************)
EXTENDS Integers, FiniteSets

CONSTANTS
    Texts,          \* the model texts
    Facts,          \* Facts[t]: what the deterministic checks say of text t
    Plans,          \* whole-model plans, NoPlan among them
    NoPlan,         \* no plan in the metadata
    PlanFacts,      \* PlanFacts[p][t]: what plan p says of text t
    Requirements,   \* ids of functional requirements
    Obligations,    \* ids of structural obligations
    Parameters,     \* (requirement, parameter) pairs of the L1 mapping
    Scores,         \* scores a refinement may return
    Tolerance       \* the 5 pp regression tolerance

TextFacts == [
    gaps : SUBSET Requirements,     \* _functional_verification_gap_issues
    unresolved : SUBSET Parameters, \* RequirementLinker.unresolved_feedback
    errors : Nat, failing : Nat, behaviour : Nat, rule : Nat]

PlanTextFacts == [
    applied : Texts,                \* apply_generation_plan(t, p)
    conforms : BOOLEAN,             \* its conformance report says PASS
    unmet : SUBSET Obligations]     \* validate_structural_obligations(t)

ASSUME FactsAssumption ==
    /\ Facts \in [Texts -> TextFacts]
    /\ PlanFacts \in [Plans -> [Texts -> PlanTextFacts]]
    /\ IsFiniteSet(Requirements)
ASSUME NoPlanAssumption ==
    /\ NoPlan \in Plans
    /\ \A t \in Texts :
          PlanFacts[NoPlan][t] = [applied |-> t, conforms |-> TRUE, unmet |-> {}]
ASSUME ScoresAssumption == Scores \subseteq Nat /\ Tolerance \in Nat

VARIABLES
    pc,         \* the phase the call is in
    call,       \* "generate" or "explore"
    plan,       \* _active_model_generation_plan
    model,      \* the revision at hand: its text, score and the text simulated
    blocked,    \* its structural_repair_blocked verdict, {} or {unmet set}
    tries,      \* attempts of the plan revision, or passes of a repair loop
    seen,       \* last_sig of the SITL loop, {} or {its unresolved pairs}
    gaps,       \* gap ids of the functional closure loop
    closure,    \* last_functional_closure
    projected,  \* history: the revision handed to close, until it returns
    revised     \* history: unmet sets around this call's plan revision

vars == <<pc, call, plan, model, blocked, tries, seen, gaps,
          closure, projected, revised>>

MaximumAttempts == 2    \* MAXIMUM_REVISION_ATTEMPTS and both max_iters
NotBlocked == {}
NoClosure == [status |-> "NONE", initial |-> {}, remaining |-> {}, attempts |-> 0,
              accepted |-> 0]

Gaps(t) == Facts[t].gaps
Unmet(p, t) == PlanFacts[p][t].unmet
Applied(p, t) == PlanFacts[p][t].applied

Revision(t, s, simulated) == [text |-> t, score |-> s, sim |-> simulated]

Init ==
    /\ pc = "refine" /\ call = "generate"
    /\ plan \in Plans
    /\ \E t \in Texts : model = Revision(t, 0, t)
    /\ blocked = NotBlocked /\ tries = 0 /\ seen = {} /\ gaps = {}
    /\ closure = NoClosure /\ projected = model /\ revised = {}

-----------------------------------------------------------------------------
(* refine: the revision _iterative_refinement returns.                     *)

\* Mutant: the refinement under a revised plan may ask for another revision.
MutReviseAgain == IF call = "generate" THEN "revise" ELSE "project"

AfterRefine == IF pc = "refine" /\ call = "generate" THEN "revise" ELSE "project"

Refine ==
    /\ pc \in {"refine", "again"}
    /\ \E t, u \in Texts, s \in Scores : model' = Revision(t, s, u)
    /\ blocked' \in IF plan = NoPlan THEN {NotBlocked}
                    ELSE {NotBlocked} \union {{Unmet(plan, t)} : t \in Texts}
    /\ pc' = AfterRefine
    /\ tries' = 0
    /\ UNCHANGED <<call, plan, seen, gaps, closure, projected, revised>>

(* No verdict, no plan, the ablation switch, or nothing to authorise a     *)
(* change with: the frozen plan stands.                                    *)
KeepPlan ==
    /\ pc = "revise" /\ tries = 0
    /\ pc' = "project"
    /\ UNCHANGED <<call, plan, model, blocked, tries, seen, gaps,
                   closure, projected, revised>>

(* PlanRevision.revise: an answer that does not parse, validate or keep to *)
(* what the issues name is sent back once.                                 *)
RevisionRefused ==
    /\ pc = "revise" /\ blocked # NotBlocked
    /\ tries' = tries + 1
    /\ pc' = IF tries' = MaximumAttempts THEN "project" ELSE "revise"
    /\ UNCHANGED <<call, plan, model, blocked, seen, gaps, closure,
                   projected, revised>>

(* The unmet obligations have to shrink strictly; a verdict without any is *)
(* about conformance, and then none may appear.                            *)
Monotonic(before, after) ==
    IF before = {} THEN after = {} ELSE after \subseteq before /\ after # before

Adoptable(p) ==
    LET t == Applied(p, model.text) IN
    /\ \A before \in blocked : Monotonic(before, Unmet(p, t))
    /\ Facts[t].errors = 0

(* An authorised plan is applied to the refined text, and adopted with it  *)
(* or not at all.                                                          *)
RevisionAuthorised ==
    /\ pc = "revise" /\ blocked # NotBlocked
    /\ \E p \in Plans \ {NoPlan} :
        IF Adoptable(p)
        THEN /\ plan' = p
             /\ model' = [model EXCEPT !.text = Applied(p, model.text)]
             /\ blocked' = NotBlocked
             /\ revised' = {[verdict |-> CHOOSE b \in blocked : TRUE,
                             before |-> Unmet(plan, model.text),
                             after |-> Unmet(p, model'.text)]}
             /\ pc' = "again"
        ELSE /\ pc' = "project" /\ UNCHANGED <<plan, model, blocked, revised>>
    /\ UNCHANGED <<call, tries, seen, gaps, closure, projected>>

-----------------------------------------------------------------------------
(* project_parameters: only generate may pass it a platform profile.       *)

ProjectParameters ==
    /\ pc = "project"
    /\ pc' \in IF call = "generate" THEN {"sitl", "close"} ELSE {"close"}
    /\ tries' = 0 /\ revised' = {}
    /\ UNCHANGED <<call, plan, model, blocked, seen, gaps, closure, projected>>

SitlPass ==
    LET unresolved == Facts[model.text].unresolved IN
    /\ pc = "sitl" /\ tries < MaximumAttempts
    /\ unresolved # {} /\ seen # {unresolved}
    /\ \E t \in Texts :
        /\ Facts[t].rule >= model.score - Tolerance
        /\ model' = Revision(t, Facts[t].rule, t)
    /\ seen' = {unresolved}
    /\ tries' = tries + 1
    /\ UNCHANGED <<pc, call, plan, blocked, gaps, closure, projected, revised>>

(* All parameters resolved, the same set as before, the passes used up, no *)
(* usable answer, or one that scores worse.                                *)
SitlEnds ==
    /\ pc = "sitl"
    /\ pc' = "close"
    /\ tries' = 0 /\ seen' = {}
    /\ UNCHANGED <<call, plan, model, blocked, gaps, closure, projected, revised>>

-----------------------------------------------------------------------------
(* close: _functional_closure_pass.                                        *)

StartClosure ==
    /\ pc = "close"
    /\ gaps' = Gaps(model.text)
    /\ closure' = [NoClosure EXCEPT !.initial = gaps', !.remaining = gaps',
                                    !.status = "REPAIRING"]
    /\ projected' = model
    /\ pc' = "repair"
    /\ UNCHANGED <<call, plan, model, blocked, tries, seen, revised>>

\* Mutant: a repair may swap one gap for another.
MutFewerGaps(t) == Cardinality(Gaps(t)) < Cardinality(gaps)

(* after_ids < before_ids, on sets of ids.                                 *)
Progress(t) == Gaps(t) \subseteq gaps /\ Gaps(t) # gaps

\* Mutant: the rule score is not compared.
MutNoScore(t) ==
    /\ Facts[t].errors = 0
    /\ Facts[t].failing <= Facts[model.sim].failing
    /\ Facts[t].behaviour >= Facts[model.sim].behaviour

(* The candidate against current_sim and current_score, which refine or    *)
(* the repair before left.                                                 *)
NotRegressed(t) ==
    /\ Facts[t].errors = 0
    /\ Facts[t].failing <= Facts[model.sim].failing
    /\ Facts[t].behaviour >= Facts[model.sim].behaviour
    /\ Facts[t].rule >= model.score - Tolerance

(* The plan is enforced on what the model wrote before it is judged.       *)
RepairAccepted ==
    /\ pc = "repair" /\ closure.attempts < MaximumAttempts /\ gaps # {}
    /\ \E raw \in Texts :
        LET t == Applied(plan, raw) IN
        /\ PlanFacts[plan][raw].conforms
        /\ Progress(t) /\ NotRegressed(t)
        /\ model' = Revision(t, Facts[t].rule, t)
        /\ gaps' = Gaps(t)
    /\ closure' = [closure EXCEPT !.attempts = @ + 1, !.accepted = @ + 1]
    /\ UNCHANGED <<pc, call, plan, blocked, tries, seen, projected, revised>>

(* No context, no usable answer, a plan deviation, no progress or a        *)
(* regression: the attempt is spent.                                       *)
RepairRejected ==
    /\ pc = "repair" /\ closure.attempts < MaximumAttempts /\ gaps # {}
    /\ closure' = [closure EXCEPT !.attempts = @ + 1]
    /\ UNCHANGED <<pc, call, plan, model, blocked, tries, seen, gaps,
                   projected, revised>>

EndClosure ==
    /\ pc = "repair" /\ (gaps = {} \/ closure.attempts = MaximumAttempts)
    /\ closure' = [closure EXCEPT !.remaining = gaps,
                                  !.status = IF gaps = {} THEN "CLOSED" ELSE "OPEN"]
    /\ pc' = "enforce"
    /\ gaps' = {}
    /\ UNCHANGED <<call, plan, model, blocked, tries, seen, projected, revised>>

-----------------------------------------------------------------------------
(* The terminal phases.                                                    *)

(* Plan enforcement, the A/G layer, the normalisers, the planned actions   *)
(* and an A/G repair each rewrite the text once more: any text may result. *)
TerminalPhases ==
    /\ pc = "enforce"
    /\ \E t \in Texts : model' = [model EXCEPT !.text = t]
    /\ projected' = model'
    /\ pc' = "verify"
    /\ UNCHANGED <<call, plan, blocked, tries, seen, gaps, closure, revised>>

\* Mutant: a closure that was CLOSED is not audited again.
MutTrustClosure == IF closure.status = "CLOSED" THEN {} ELSE Gaps(model.text)

TerminalGaps == Gaps(model.text)

VerifyTerminal ==
    /\ pc = "verify"
    /\ closure' = [closure EXCEPT !.remaining = TerminalGaps,
            !.status = IF TerminalGaps = {} THEN "CLOSED"
                       ELSE IF closure.status = "CLOSED"
                       THEN "REOPENED_BY_TERMINAL_MATERIALIZATION" ELSE "OPEN"]
    /\ pc' = IF TerminalGaps = {} THEN "snapshot" ELSE "raised"
    /\ UNCHANGED <<call, plan, model, blocked, tries, seen, gaps,
                   projected, revised>>

(* _synchronize_terminal_snapshot measures the returned text itself.       *)
Snapshot == Revision(model.text, Facts[model.text].rule, model.text)

SynchronizeSnapshot ==
    /\ pc = "snapshot"
    /\ model' = Snapshot
    /\ pc' = "returned"
    /\ UNCHANGED <<call, plan, blocked, tries, seen, gaps, closure,
                   projected, revised>>

(* explore goes on from the generated model; the exploration rewrites it   *)
(* before it is refined.                                                   *)
Explore ==
    /\ pc = "returned" /\ call = "generate"
    /\ call' = "explore" /\ pc' = "refine"
    /\ \E t \in Texts : model' = [model EXCEPT !.text = t]
    /\ tries' = 0
    /\ UNCHANGED <<plan, blocked, seen, gaps, closure, projected, revised>>

(* functional_verification_gap_issues raised inside close or               *)
(* verify_terminal: the call is refused, never marked closed.              *)
AuditFails ==
    /\ pc \in {"close", "repair", "verify"}
    /\ pc' = "raised"
    /\ UNCHANGED <<call, plan, model, blocked, tries, seen, gaps,
                   closure, projected, revised>>

Next ==
    \/ Refine \/ KeepPlan \/ RevisionRefused \/ RevisionAuthorised
    \/ ProjectParameters \/ SitlPass \/ SitlEnds
    \/ StartClosure \/ RepairAccepted \/ RepairRejected \/ EndClosure
    \/ TerminalPhases \/ VerifyTerminal \/ SynchronizeSnapshot \/ Explore
    \/ AuditFails

Spec == Init /\ [][Next]_vars /\ WF_vars(Next)

-----------------------------------------------------------------------------
Phases == {"refine", "revise", "again", "project", "sitl", "close", "repair",
           "enforce", "verify", "snapshot", "returned", "raised"}
Revisions == [text : Texts, score : Nat, sim : Texts]
Closures == [status : {"NONE", "REPAIRING", "CLOSED", "OPEN",
                       "REOPENED_BY_TERMINAL_MATERIALIZATION"},
             initial : SUBSET Requirements, remaining : SUBSET Requirements,
             attempts : 0..MaximumAttempts, accepted : 0..MaximumAttempts]

ClosureTypeOK ==
    /\ pc \in Phases /\ call \in {"generate", "explore"}
    /\ plan \in Plans
    /\ model \in Revisions /\ projected \in Revisions
    /\ blocked \in SUBSET SUBSET Obligations
    /\ tries \in 0..MaximumAttempts /\ seen \in SUBSET SUBSET Parameters
    /\ gaps \in SUBSET Requirements /\ closure \in Closures

(* What last_functional_closure says when close returns is true of the     *)
(* revision it returns: the remaining ids are that text's gaps, they are   *)
(* initial ones, each accepted repair closed at least one, and without an  *)
(* accepted repair the revision is the projected one.                      *)
ClosureAccounts ==
    pc = "enforce" =>
        /\ closure.remaining = Gaps(model.text)
        /\ closure.status = IF closure.remaining = {} THEN "CLOSED" ELSE "OPEN"
        /\ closure.initial = Gaps(projected.text)
        /\ closure.remaining \subseteq closure.initial
        /\ Cardinality(closure.initial) >= Cardinality(closure.remaining) + closure.accepted
        /\ closure.accepted <= closure.attempts
        /\ closure.accepted = 0 => model = projected

(* A chain of repairs, each within the tolerance, never loses more than    *)
(* the tolerance per repair of the score the closure began with.           *)
BoundedDrift ==
    pc = "enforce" => model.score + Tolerance * closure.accepted >= projected.score

(* A published revision has no functional gap whatever the terminal phases *)
(* did to the closed one, the record says so, and score and simulation     *)
(* are those of its own text.                                              *)
PublishedClosed ==
    pc = "returned" =>
        /\ Gaps(model.text) = {} /\ closure.remaining = {} /\ closure.status = "CLOSED"
        /\ model.sim = model.text /\ model.score = Facts[model.text].rule

(* Each call ends, with a model or with an exception: the plan is revised  *)
(* at most once, and every loop has its budget.                            *)
CallEnds == pc = "refine" ~> pc \in {"returned", "raised"}

(* The docstring of _attempt_frozen_plan_revision (generation_pipeline.py  *)
(* :166) says a revised plan is accepted only if the unsatisfied           *)
(* obligation set strictly shrinks: of the text it is applied to.          *)
RevisionGains ==
    \A r \in revised : Monotonic(r.before, r.after)
=============================================================================
