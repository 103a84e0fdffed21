---------------------------- MODULE Refinement ----------------------------
(***************************************************************************)
(* Phase 4-5 of the generator: _RefinementEngine._iterative_refinement     *)
(* with the candidate transaction it calls, its simulation repair loop and *)
(* its bounded exit passes (agents/refinement.py,                          *)
(* agents/refinement_transaction.py).                                      *)
(*                                                                         *)
(* Models are Python objects that several names refer to and that repairs  *)
(* rewrite in place, so the state keeps a heap from model objects to       *)
(* texts: best_model and current_model may be the same object.  A text is  *)
(* an opaque value; Facts[t] is what the deterministic checks (evaluator,  *)
(* syntax checker, simulator, plan projection, audits) return for it.      *)
(* Whatever the LLM writes is a nondeterministic choice of a text.         *)
(***************************************************************************)
EXTENDS Integers, Sequences

CONSTANTS
    Texts,          \* the model texts
    Facts,          \* Facts[t]: what the deterministic checks say of text t
    Models,         \* identities of model objects
    Obligations,    \* structural obligations of the typed plan
    NoText,         \* None where the code keeps a text or a simulation
    LLMScores,      \* the overall scores an LLM evaluation may return
    Threshold,      \* quality_threshold
    Tolerance,      \* the 5 pp regression tolerance
    MaxIterations   \* max_iterations

TextFacts == [
    rule : Nat,              \* evaluate(...).weighted_total
    errors : Nat,            \* check_syntax(t).total_errors()
    failing : Nat,           \* len(sim.failed_scenarios())
    behaviour : Nat,         \* behavioral sim_score, 1 and more is a full pass
    quality : Nat,           \* rank of _simulation_quality_key
    connects : Nat,          \* _connect_count
    unmet : SUBSET Obligations,
    residue : Nat,           \* plan-conformance issues once the plan is applied
    fatal : BOOLEAN,         \* _terminal_fatal_advisories is not empty
    findings : [{"anchor", "namespace", "response"} -> Nat],
    cleaned : Texts,         \* audit_connects(t).cleaned_text
    applied : Texts,         \* apply_generation_plan(t)
    stripped : Texts]        \* t without the additions its plan does not name

ASSUME FactsAssumption == Facts \in [Texts -> TextFacts]
ASSUME NoTextAssumption == NoText \notin Texts
ASSUME BoundsAssumption ==
    /\ Threshold \in Nat /\ Tolerance \in Nat
    /\ LLMScores \subseteq Nat
    /\ MaxIterations \in Nat \ {0}
ASSUME ModelsAssumption ==
    \A m1, m2 \in Models : \E m \in Models : m \notin {m1, m2}

VARIABLES
    pc,             \* the statement _iterative_refinement is at
    iteration,      \* state.iteration
    heap,           \* the text each model object holds
    blocked,        \* metadata["structural_repair_blocked"] of each object
    plan,           \* whether the metadata carries a whole-model plan
    floor,          \* connectivity_floor
    current,        \* current_model
    sim,            \* the text sim_result describes
    lastSim,        \* the text last_sim_result describes
    checked,        \* total_errors() of the loop-top syntax_result
    rule, score,    \* rule_score and score of this iteration
    forced,         \* _force_llm_refinement
    best,           \* best_model
    bestKey,        \* best_key, whose first element is best_score
    bestSim,        \* the text best_sim_result describes
    todo,           \* exit passes still to run
    route,          \* the exit or the repair the sub-steps belong to
    anchored,       \* anchor_accepted
    left,           \* passes left of the simulation inner loop
    accepted,       \* candidate_rule_score of the accepted candidate
    stalls,         \* fatal_stalls
    fatalBefore,    \* text of fatal_state_before
    signature,      \* previous_blocked_signature
    result,         \* what _iterative_refinement returned
    ranked,         \* history: every key that was compared with best_key
    rankedText      \* history: the text of best_model when it was ranked

(* No structural_repair_blocked entry; a blocked object has {the set of its *)
(* unmet obligations}.                                                     *)
NotBlocked == {}

loopVars == <<iteration, plan, floor, stalls, fatalBefore, signature>>
heapVars == <<heap, blocked, current>>
bestVars == <<best, bestKey, bestSim, ranked, rankedText>>
evalVars == <<sim, lastSim, checked, rule, score, forced>>
stepVars == <<todo, route, anchored, left, accepted>>
vars == <<pc, loopVars, heapVars, bestVars, evalVars, stepVars, result>>

Text == heap[current]
Key(s, e) == [score |-> s, errors |-> e, iteration |-> iteration]

\* Mutant: the score alone decides, as it did before 2026-08-30.
MutScoreOnly(k1, k2) == k1.score > k2.score

(* _model_rank_key compared as a tuple: score, then fewer syntax errors,   *)
(* then the later iteration.                                               *)
Better(k1, k2) ==
    \/ k1.score > k2.score
    \/ k1.score = k2.score /\ k1.errors < k2.errors
    \/ k1.score = k2.score /\ k1.errors = k2.errors /\ k1.iteration > k2.iteration

(* An object nothing refers to: what build_lite_model returns.             *)
Fresh == CHOOSE m \in Models : m \notin {current, best}

\* Mutant: the candidate's text is written into the current model's object.
MutInPlace(t) ==
    /\ heap' = [heap EXCEPT ![current] = t]
    /\ UNCHANGED <<current, blocked>>

NewModel(t) ==
    /\ current' = Fresh
    /\ heap' = [heap EXCEPT ![Fresh] = t]
    /\ blocked' = [blocked EXCEPT ![Fresh] = NotBlocked]

(* _sync_model_text: the object keeps its identity.                        *)
Rewrite(t) ==
    /\ heap' = [heap EXCEPT ![current] = t]
    /\ UNCHANGED <<current, blocked>>

(* The ranking at the loop top and after an accepted candidate.            *)
Rank(k) ==
    /\ ranked' = ranked \union {k}
    /\ IF Better(k, bestKey)
       THEN best' = current /\ bestKey' = k /\ bestSim' = Text /\ rankedText' = Text
       ELSE UNCHANGED <<best, bestKey, bestSim, rankedText>>

Return(s, simText, exit) ==
    /\ result' = [model |-> current, score |-> s, sim |-> simText, exit |-> exit]
    /\ pc' = "done"

NoResult == [model |-> NoText, score |-> 0, sim |-> NoText, exit |-> "none"]
NoSignature == <<>>

Init ==
    /\ pc = "prepare" /\ iteration = 0
    /\ plan \in BOOLEAN /\ floor \in BOOLEAN
    /\ current \in Models /\ current = (CHOOSE m \in Models : TRUE)
    /\ \E t \in Texts : heap = [m \in Models |-> t]
    /\ blocked = [m \in Models |-> NotBlocked]
    /\ sim = NoText /\ lastSim = NoText /\ bestSim = NoText /\ rankedText = Text
    /\ checked = 0 /\ rule = 0 /\ score = 0 /\ forced = FALSE
    /\ best = current
    /\ bestKey = [score |-> 0, errors |-> 1000000000, iteration |-> -1]
    /\ todo = <<>> /\ route = "none" /\ anchored = FALSE /\ left = 0 /\ accepted = 0
    /\ stalls = 0 /\ fatalBefore = NoText /\ signature = NoSignature
    /\ result = NoResult /\ ranked = {}

-----------------------------------------------------------------------------
(* The loop top.                                                           *)

(* _syntax_gate leaves a clean text alone; otherwise its fixers and LLM    *)
(* attempts rewrite the object in place, and the last attempt only         *)
(* reports.  _connect_audit_step then drops invalid connects in place.     *)
(* The syntax result is the one from before the audit.                     *)
Gated == IF Facts[Text].errors = 0 THEN {Text} ELSE Texts

(* range(self.max_iterations), counted from 1 as state.iteration is.        *)
\* Mutant: the iteration after a forced refinement is not counted.
MutUncounted == IF forced THEN iteration ELSE iteration + 1

Counted == iteration + 1

Prepare ==
    /\ pc = "prepare"
    /\ \E t \in Gated :
        /\ Rewrite(Facts[t].cleaned)
        /\ checked' = Facts[t].errors
        /\ sim' = Facts[t].cleaned
    /\ iteration' = Counted
    /\ forced' = FALSE
    /\ pc' = "evaluate"
    /\ UNCHANGED <<plan, floor, stalls, fatalBefore, signature, lastSim, rule,
                   score, bestVars, stepVars, result>>

(* _early_exit_gates: behaviour, reachability (the structural obligations  *)
(* where there is a plan) and sema.                                        *)
GatesPass ==
    /\ Facts[Text].behaviour > 0
    /\ IF plan THEN Facts[Text].unmet = {} ELSE Facts[Text].failing = 0
    /\ checked = 0

(* _blended_iteration_score with the weights 0.6 and 0.4; the LLM call is  *)
(* skipped at the threshold and may return no overall score.               *)
BlendedScores(r) ==
    IF r >= Threshold THEN {r}
    ELSE {r} \union {(3 * r + 2 * l) \div 5 : l \in LLMScores}

Evaluate ==
    /\ pc = "evaluate"
    /\ rule' = Facts[Text].rule
    /\ \E s \in BlendedScores(Facts[Text].rule) :
        /\ score' = s
        /\ Rank(Key(s, checked))
        /\ IF s < Threshold THEN pc' = "transact" /\ UNCHANGED <<todo, route, left>>
           ELSE IF GatesPass
           THEN /\ pc' = "passes" /\ route' = "clean"
                /\ todo' = <<"anchor", "namespace", "response", "unplanned">>
                /\ UNCHANGED left
           ELSE pc' = "fix" /\ route' = "forced" /\ left' = 2 /\ UNCHANGED todo
    /\ lastSim' = Text
    /\ UNCHANGED <<loopVars, heapVars, sim, checked, forced, anchored, accepted, result>>

-----------------------------------------------------------------------------
(* The bounded exit passes: one LLM answer each, kept as a new object only *)
(* when its finding count falls and nothing it is compared on gets worse.  *)

\* Mutant: a lost scenario is not compared.
MutBehaviourOnly(t) == Facts[t].behaviour >= Facts[sim].behaviour

NotWorse(t) ==
    /\ Facts[t].failing <= Facts[sim].failing
    /\ Facts[t].behaviour >= Facts[sim].behaviour

PassAdmits(p, t) ==
    /\ Facts[Text].findings[p] > 0
    /\ Facts[t].errors = 0 /\ Facts[t].connects >= Facts[Text].connects
    /\ NotWorse(t)
    /\ Facts[t].rule >= rule - Tolerance
    /\ Facts[t].findings[p] < Facts[Text].findings[p]

KeepPassResult(t) == NewModel(t) /\ sim' = t

SurgicalPass ==
    /\ pc = "passes" /\ todo # <<>> /\ Head(todo) # "unplanned"
    /\ \/ \E t \in Texts :
            /\ PassAdmits(Head(todo), t)
            /\ KeepPassResult(t)
            /\ anchored' = (anchored \/ (route = "resolved" /\ Head(todo) = "anchor"))
       \/ UNCHANGED <<heapVars, sim, anchored>>
    /\ todo' = Tail(todo)
    /\ UNCHANGED <<pc, loopVars, lastSim, checked, rule, score, forced,
                   bestVars, route, left, accepted, result>>

(* _unplanned_connect_removal_pass: no LLM, and no score gate.             *)
RemovalAdmits ==
    LET t == Facts[Text].stripped IN
    /\ plan /\ t # Text /\ Facts[t].errors = 0
    /\ NotWorse(t)
    /\ Facts[t].residue < Facts[Text].residue

UnplannedPass ==
    /\ pc = "passes" /\ todo # <<>> /\ Head(todo) = "unplanned"
    /\ IF RemovalAdmits THEN KeepPassResult(Facts[Text].stripped)
       ELSE UNCHANGED <<heapVars, sim>>
    /\ todo' = Tail(todo)
    /\ UNCHANGED <<pc, loopVars, lastSim, checked, rule, score, forced,
                   bestVars, route, anchored, left, accepted, result>>

(* A clean exit: terminal-fatal advisories spend an iteration unless the   *)
(* same text was already resampled for them once.                          *)
Stalls == IF Text = fatalBefore THEN stalls + 1 ELSE 0

CleanExit ==
    /\ pc = "passes" /\ todo = <<>> /\ route = "clean"
    /\ stalls' = Stalls /\ fatalBefore' = Text
    /\ IF Facts[Text].fatal /\ iteration < MaxIterations /\ Stalls < 1
       THEN forced' = TRUE /\ pc' = "transact" /\ UNCHANGED result
       ELSE Return(score, sim, "clean") /\ UNCHANGED forced
    /\ UNCHANGED <<iteration, plan, floor, signature, heapVars, sim, lastSim,
                   checked, rule, score, bestVars, stepVars>>

(* The end of _resolve_after_forced_fix: the score is measured again only  *)
(* when the anchor pass was accepted.                                      *)
ResolvedExit ==
    /\ pc = "passes" /\ todo = <<>> /\ route = "resolved"
    /\ Return(IF anchored THEN Facts[Text].rule ELSE score, sim, "resolved")
    /\ UNCHANGED <<loopVars, heapVars, evalVars, bestVars, stepVars>>

-----------------------------------------------------------------------------
(* _sim_refinement_loop: repairs the object it is given, in place.         *)

AfterRepair == IF route = "forced" THEN "resolve" ELSE "rank"

(* _fix_stuck_transitions: accepted transition lines are merged without a  *)
(* regression gate; they touch no connect.                                 *)
Restated ==
    IF Facts[Text].behaviour > 0 THEN {Text}
    ELSE {t \in Texts : Facts[t].connects = Facts[Text].connects} \union {Text}

FixTransitions ==
    /\ pc = "fix"
    /\ \E t \in Restated : Rewrite(t)
    /\ pc' = IF plan THEN "materialise" ELSE "connect"
    /\ UNCHANGED <<loopVars, evalVars, bestVars, stepVars, result>>

(* The plan branch restores what the plan authorises, once; a regression   *)
(* discards it, and anything left unmet marks the object blocked.          *)
MaterialisationAdmits ==
    LET t == Facts[Text].applied IN
    /\ t # Text /\ Facts[t].errors = 0
    /\ Facts[t].unmet \subseteq Facts[Text].unmet
    /\ Facts[t].behaviour >= Facts[Text].behaviour

Materialise ==
    /\ pc = "materialise"
    /\ LET t == IF MaterialisationAdmits THEN Facts[Text].applied ELSE Text
           conforms == /\ Facts[Text].residue = 0
                       /\ Facts[Text].applied = Text \/ MaterialisationAdmits
       IN /\ heap' = [heap EXCEPT ![current] = t]
          /\ blocked' = [blocked EXCEPT ![current] =
                IF conforms /\ Facts[t].unmet = {} THEN NotBlocked ELSE {Facts[t].unmet}]
    /\ pc' = AfterRepair
    /\ UNCHANGED <<loopVars, current, evalVars, bestVars, stepVars, result>>

(* Without a plan every connectivity edit, deterministic or proposed by    *)
(* the LLM, has to improve the simulation strictly; rejected ones are      *)
(* only recorded.  The edits add connects between declared ports or widen  *)
(* a port's direction: they neither cause nor cure a syntax error.         *)
Improved ==
    {t \in Texts : /\ Facts[t].quality > Facts[Text].quality
                   /\ Facts[t].errors = Facts[Text].errors
                   /\ Facts[t].connects >= Facts[Text].connects} \union {Text}

DeterministicConnects ==
    /\ pc = "connect"
    /\ \E t \in Improved :
        /\ Rewrite(t)
        /\ \/ (Facts[t].failing = 0 \/ left = 1) /\ pc' = AfterRepair
           \/ left > 1 /\ (Facts[t].failing > 0 \/ t # Text) /\ pc' = "propose"
    /\ UNCHANGED <<loopVars, evalVars, bestVars, stepVars, result>>

ProposeConnects ==
    /\ pc = "propose"
    /\ \/ (\E t \in Improved : Rewrite(t)) /\ left' = left - 1 /\ pc' = "connect"
       \/ UNCHANGED <<heapVars, left>> /\ pc' = AfterRepair
    /\ UNCHANGED <<loopVars, evalVars, bestVars, todo, route, anchored, accepted, result>>

(* After the forced fix the loop looks at the failed scenarios only.       *)
Resolve ==
    /\ pc = "resolve"
    /\ sim' = Text /\ lastSim' = Text
    /\ \/ /\ Facts[Text].failing = 0
          /\ rule' = Facts[Text].rule /\ score' = Facts[Text].rule
          /\ todo' = <<"anchor", "namespace", "unplanned", "response">>
          /\ route' = "resolved" /\ anchored' = FALSE
          /\ pc' = "passes"
          /\ UNCHANGED <<forced, result>>
       \/ /\ Facts[Text].failing > 0
          /\ IF iteration = MaxIterations
             THEN Return(score, Text, "spent") /\ UNCHANGED forced
             ELSE forced' = TRUE /\ pc' = "transact" /\ UNCHANGED result
          /\ UNCHANGED <<rule, score, todo, route, anchored>>
    /\ UNCHANGED <<loopVars, heapVars, checked, bestVars, left, accepted>>

-----------------------------------------------------------------------------
(* _RefinementTransaction.execute.                                         *)

(* Salvage: the text without unplanned additions, with the plan applied    *)
(* again, if that conforms and parses.                                     *)
Salvaged(c) == Facts[Facts[Facts[c].applied].stripped].applied

Salvageable(c) ==
    LET a == Facts[c].applied IN
    /\ Facts[a].stripped # a
    /\ Facts[Facts[a].stripped].residue = 0
    /\ Facts[Salvaged(c)].errors = 0

PlanAdmits(c) == ~plan \/ Facts[c].residue = 0 \/ Salvageable(c)

(* The text the gates judge and the accepted candidate holds.              *)
Judged(c) ==
    IF ~plan THEN c ELSE IF Facts[c].residue = 0 THEN Facts[c].applied ELSE Salvaged(c)

Admits(c) ==
    /\ PlanAdmits(c)
    /\ floor => Facts[Judged(c)].connects >= Facts[Text].connects
    /\ Facts[Judged(c)].rule >= rule - Tolerance

(* No issue, no feedback: the iteration asks for no candidate.             *)
SkipTransaction ==
    /\ pc = "transact" /\ ~forced
    /\ pc' = "futility"
    /\ UNCHANGED <<loopVars, heapVars, evalVars, bestVars, stepVars, result>>

(* NO_CANDIDATE, or a candidate one of the gates refuses: the outcome      *)
(* carries the model the request came with.                                *)
RefuseCandidate ==
    /\ pc = "transact"
    /\ pc' = "futility"
    /\ UNCHANGED <<loopVars, heapVars, evalVars, bestVars, stepVars, result>>

(* An accepted candidate is repaired (three passes) after it was scored.   *)
AcceptCandidate ==
    /\ pc = "transact"
    /\ \E c \in Texts :
        /\ Admits(c)
        /\ NewModel(Judged(c))
        /\ accepted' = Facts[Judged(c)].rule
    /\ route' = "candidate" /\ left' = 3
    /\ pc' = "fix"
    /\ UNCHANGED <<loopVars, evalVars, bestVars, todo, anchored, result>>

RankAccepted ==
    /\ pc = "rank"
    /\ Rank(Key(accepted, Facts[Text].errors))
    /\ lastSim' = IF best' = current THEN Text ELSE lastSim
    /\ pc' = "futility"
    /\ UNCHANGED <<loopVars, heapVars, sim, checked, rule, score, forced, stepVars, result>>

(* The plan-frozen futility guard, and the end of the loop body.           *)
BlockSignature ==
    IF blocked[current] = NotBlocked THEN NoSignature ELSE <<blocked[current], Text>>

EndIteration ==
    /\ pc = "futility"
    /\ IF \/ iteration = MaxIterations
          \/ BlockSignature # NoSignature /\ BlockSignature = signature
       THEN /\ result' = [model |-> best, score |-> bestKey.score, sim |-> bestSim,
                          exit |-> "exhausted"]
            /\ pc' = "done" /\ UNCHANGED signature
       ELSE /\ signature' = BlockSignature
            /\ pc' = "prepare" /\ UNCHANGED result
    /\ UNCHANGED <<iteration, plan, floor, stalls, fatalBefore, heapVars,
                   evalVars, bestVars, stepVars>>

Next ==
    \/ Prepare \/ Evaluate
    \/ SurgicalPass \/ UnplannedPass \/ CleanExit \/ ResolvedExit
    \/ FixTransitions \/ Materialise \/ DeterministicConnects \/ ProposeConnects
    \/ Resolve
    \/ SkipTransaction \/ RefuseCandidate \/ AcceptCandidate
    \/ RankAccepted \/ EndIteration

Spec == Init /\ [][Next]_vars /\ WF_vars(Next)

-----------------------------------------------------------------------------
(* The typed states of the loop.                                           *)
Steps == {"prepare", "evaluate", "passes", "fix", "materialise", "connect",
          "propose", "resolve", "transact", "rank", "futility", "done"}
Exits == {"none", "clean", "resolved", "spent", "exhausted"}
Keys == [score : Nat, errors : Nat, iteration : -1..MaxIterations]

RefinementTypeOK ==
    /\ pc \in Steps /\ iteration \in 0..MaxIterations
    /\ heap \in [Models -> Texts] /\ blocked \in [Models -> SUBSET SUBSET Obligations]
    /\ current \in Models /\ best \in Models
    /\ {sim, lastSim, bestSim, fatalBefore} \subseteq Texts \union {NoText}
    /\ {checked, rule, score, accepted, stalls} \subseteq Nat
    /\ bestKey \in Keys /\ ranked \subseteq Keys
    /\ left \in 0..3 /\ {plan, floor, forced, anchored} \subseteq BOOLEAN
    /\ route \in {"none", "clean", "forced", "resolved", "candidate"}
    /\ result.exit \in Exits

(* The model the loop keeps is never beaten by one it has ranked: best_key *)
(* is at least every key of an iteration or of an accepted candidate, ties *)
(* going to fewer syntax errors and then to the later iteration (the bug   *)
(* of 2026-08-30 in the comment on best_key, refinement.py:1461).          *)
PeakTracked ==
    \A k \in ranked :
        /\ k.score <= bestKey.score
        /\ k.score = bestKey.score => k.errors >= bestKey.errors
        /\ k.score = bestKey.score /\ k.errors = bestKey.errors
               => k.iteration <= bestKey.iteration

(* Whatever way the loop ends early, the simulation it returns is one of   *)
(* the text the returned model holds, through in-place repairs and exit    *)
(* passes that replace the model.                                          *)
SimulationDescribesModel ==
    result.exit \in {"clean", "resolved", "spent"} => result.sim = heap[result.model]

(* A model that leaves by the clean exit still passes what let it exit     *)
(* after the four passes rewrote it, and a resolved one has no failing     *)
(* scenario: the passes compare each candidate with the model it replaces. *)
CleanExitHolds ==
    /\ result.exit = "clean" =>
        /\ Facts[heap[result.model]].behaviour > 0
        /\ ~plan => Facts[heap[result.model]].failing = 0
    /\ result.exit = "resolved" => Facts[heap[result.model]].failing = 0

(* What an early exit returns is what it was allowed to exit with, and is  *)
(* described by the simulation beside it.                                  *)
ExitHolds == SimulationDescribesModel /\ CleanExitHolds

(* A transaction that is refused leaves every model as it was: only an     *)
(* accepted candidate replaces the current model, and it is a new object,  *)
(* so that best_model keeps its text while the candidate is repaired.      *)
CandidatesAreFresh ==
    [][/\ pc = "transact" /\ current' # current => current' # best
       /\ route = "candidate" /\ pc \in {"fix", "materialise", "connect", "propose"}
            => heap'[best] = heap[best]]_vars

(* The loop ends.                                                          *)
LoopEnds == <>(pc = "done")

(* The comment on the threshold exit (refinement.py:1643): exit only when  *)
(* behavioral simulation, reachability and sema are clean.                 *)
ThresholdExitIsClean ==
    result.exit \in {"clean", "resolved"} =>
        Facts[heap[result.model]].errors = 0 /\ Facts[heap[result.model]].behaviour > 0

(* The docstring of _iterative_refinement (refinement.py:1443): it tracks  *)
(* the peak-scoring model.                                                 *)
PeakModelReturned ==
    result.exit = "exhausted" => heap[result.model] = rankedText
=============================================================================
