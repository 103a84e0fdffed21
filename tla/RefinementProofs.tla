-------------------------- MODULE RefinementProofs --------------------------
(***************************************************************************)
(* Proofs about Refinement, for any texts, facts, model objects and        *)
(* bounds.  best_model and current_model may be one object; a candidate    *)
(* never is.  What an early exit returns is what its gates saw, carried    *)
(* through the exit passes because each is compared with the model before. *)
(***************************************************************************)
EXTENDS Refinement, TLAPS

Repairing == {"fix", "materialise", "connect", "propose"}

\* An iteration is left to count where one is begun.
Counting == pc = "prepare" => iteration < MaxIterations

\* A pass of the simulation repair is left where one is proposed.
PassLeft == pc = "propose" => left > 0

\* Nothing has been returned before the end.
Running == pc # "done" => result.exit = "none"

\* Where the gates and the exit passes work, the simulation is the current text's.
Simulated == pc \in {"evaluate", "passes"} => sim = Text

\* What let the model into the exit passes still holds between them.
Leaving ==
  pc = "passes" =>
    /\ route \in {"clean", "resolved"}
    /\ route = "clean" =>
         /\ Facts[Text].behaviour > 0
         /\ ~plan => Facts[Text].failing = 0
    /\ route = "resolved" => Facts[Text].failing = 0

\* A candidate under repair is not the object of the kept model.
Apart == route = "candidate" /\ pc \in Repairing => current # best

LoopInv ==
  /\ RefinementTypeOK /\ Counting /\ PassLeft /\ Running /\ Simulated /\ Leaving /\ Apart
  /\ PeakTracked /\ ExitHolds

USE DEF Steps, Repairing

-----------------------------------------------------------------------------
(* Texts, objects and keys                                                 *)

LEMMA FactTypes ==
  ASSUME NEW t \in Texts
  PROVE  /\ Facts[t].rule \in Nat /\ Facts[t].errors \in Nat
         /\ Facts[t].failing \in Nat /\ Facts[t].behaviour \in Nat
         /\ Facts[t].unmet \in SUBSET Obligations
         /\ Facts[t].cleaned \in Texts /\ Facts[t].applied \in Texts
         /\ Facts[t].stripped \in Texts
<1>1. Facts[t] \in TextFacts
  BY FactsAssumption
<1>2. QED
  BY <1>1 DEF TextFacts

LEMMA TextTyped == RefinementTypeOK => Text \in Texts
BY DEF RefinementTypeOK, Text

LEMMA FreshObject ==
  ASSUME RefinementTypeOK
  PROVE  Fresh \in Models /\ Fresh \notin {current, best}
<1>1. \E m \in Models : m \notin {current, best}
  BY ModelsAssumption DEF RefinementTypeOK
<1>2. QED
  BY <1>1 DEF Fresh

\* A new object holds its text and leaves the kept model alone.
LEMMA NewModelTypes ==
  ASSUME RefinementTypeOK, NEW t \in Texts, NewModel(t)
  PROVE  /\ heap' \in [Models -> Texts] /\ current' \in Models /\ current' # best
         /\ blocked' \in [Models -> SUBSET SUBSET Obligations]
         /\ Text' = t /\ heap'[best] = heap[best]
<1>1. Fresh \in Models /\ Fresh \notin {current, best}
  BY FreshObject
<1>2. /\ heap \in [Models -> Texts] /\ best \in Models
      /\ blocked \in [Models -> SUBSET SUBSET Obligations]
  BY DEF RefinementTypeOK
<1>3. /\ current' = Fresh /\ heap' = [heap EXCEPT ![Fresh] = t]
      /\ blocked' = [blocked EXCEPT ![Fresh] = {}]
  BY DEF NewModel, NotBlocked
<1>4. QED
  BY <1>1, <1>2, <1>3 DEF Text

LEMMA RewriteTypes ==
  ASSUME RefinementTypeOK, NEW t \in Texts, Rewrite(t)
  PROVE  /\ heap' \in [Models -> Texts] /\ current' = current
         /\ blocked' = blocked /\ Text' = t
         /\ current # best => heap'[best] = heap[best]
BY DEF RefinementTypeOK, Rewrite, Text

LEMMA KeyTypes ==
  ASSUME RefinementTypeOK, NEW s \in Nat, NEW e \in Nat
  PROVE  Key(s, e) \in Keys
BY DEF RefinementTypeOK, Key, Keys

LEMMA BlendedTypes ==
  ASSUME NEW r \in Nat, NEW s \in BlendedScores(r)
  PROVE  s \in Nat
<1>1. ASSUME NEW l \in LLMScores PROVE (3 * r + 2 * l) \div 5 \in Nat
  <2>1. l \in Nat
    BY BoundsAssumption
  <2>2. 3 * r + 2 * l \in Nat
    BY <2>1
  <2>3. ASSUME NEW n \in Nat PROVE n \div 5 \in Nat
    OBVIOUS
  <2>4. QED
    BY <2>2, <2>3
<1>2. QED
  BY <1>1 DEF BlendedScores

\* Ranking a model keeps the greatest key, and the object, key and simulation together.
LEMMA RankTypes ==
  ASSUME RefinementTypeOK, PeakTracked, NEW k \in Keys, Rank(k)
  PROVE  /\ bestKey' \in Keys /\ ranked' \subseteq Keys /\ PeakTracked'
         /\ best' \in {best, current} /\ bestSim' \in {bestSim, Text}
<1>1. bestKey \in Keys /\ ranked \subseteq Keys /\ ranked' = ranked \union {k}
  BY DEF RefinementTypeOK, Rank
<1>2. CASE Better(k, bestKey)
  <2>1. bestKey' = k /\ best' = current /\ bestSim' = Text
    BY <1>2 DEF Rank
  <2>2. PeakTracked'
    <3>1. SUFFICES ASSUME NEW j \in ranked'
                   PROVE  /\ j.score <= k.score
                          /\ j.score = k.score => j.errors >= k.errors
                          /\ j.score = k.score /\ j.errors = k.errors
                               => j.iteration <= k.iteration
      BY <2>1 DEF PeakTracked
    <3>2. CASE j = k
      BY <3>2 DEF Keys
    <3>3. CASE j \in ranked
      <4>1. /\ j.score \in Nat /\ j.errors \in Nat /\ j.iteration \in Int
            /\ k.score \in Nat /\ k.errors \in Nat /\ k.iteration \in Int
            /\ bestKey.score \in Nat /\ bestKey.errors \in Nat /\ bestKey.iteration \in Int
        BY <1>1, <3>3, BoundsAssumption DEF Keys
      <4>2. /\ j.score <= bestKey.score
            /\ j.score = bestKey.score => j.errors >= bestKey.errors
            /\ j.score = bestKey.score /\ j.errors = bestKey.errors
                 => j.iteration <= bestKey.iteration
        BY <3>3 DEF PeakTracked
      <4>3. QED
        BY <1>2, <4>1, <4>2 DEF Better
    <3>4. QED
      BY <1>1, <3>2, <3>3
  <2>3. QED
    BY <1>1, <2>1, <2>2
<1>3. CASE ~Better(k, bestKey)
  <2>1. UNCHANGED <<best, bestKey, bestSim>>
    BY <1>3 DEF Rank
  <2>2. PeakTracked'
    <3>1. SUFFICES ASSUME NEW j \in ranked'
                   PROVE  /\ j.score <= bestKey.score
                          /\ j.score = bestKey.score => j.errors >= bestKey.errors
                          /\ j.score = bestKey.score /\ j.errors = bestKey.errors
                               => j.iteration <= bestKey.iteration
      BY <2>1 DEF PeakTracked
    <3>2. CASE j = k
      <4>1. /\ k.score \in Nat /\ k.errors \in Nat /\ k.iteration \in Int
            /\ bestKey.score \in Nat /\ bestKey.errors \in Nat /\ bestKey.iteration \in Int
        BY <1>1, BoundsAssumption DEF Keys
      <4>2. QED
        BY <1>3, <3>2, <4>1 DEF Better
    <3>3. CASE j \in ranked
      BY <3>3 DEF PeakTracked
    <3>4. QED
      BY <1>1, <3>2, <3>3
  <2>3. QED
    BY <1>1, <2>1, <2>2
<1>4. QED
  BY <1>2, <1>3

-----------------------------------------------------------------------------
LEMMA InitInv == Init => LoopInv
<1> SUFFICES ASSUME Init PROVE LoopInv
  OBVIOUS
<1>1. heap \in [Models -> Texts] /\ current \in Models /\ best \in Models
  BY DEF Init
<1>2. bestKey \in Keys /\ iteration < MaxIterations
  BY BoundsAssumption DEF Init, Keys
<1>3. RefinementTypeOK
  <2>1. /\ pc = "prepare" /\ iteration = 0 /\ result.exit = "none" /\ ranked = {}
        /\ plan \in BOOLEAN /\ floor \in BOOLEAN /\ forced = FALSE /\ anchored = FALSE
        /\ left = 0 /\ route = "none"
    BY DEF Init, NoResult
  <2>2. blocked = [m \in Models |-> {}]
    BY DEF Init, NotBlocked
  <2>3. sim = NoText /\ lastSim = NoText /\ bestSim = NoText /\ fatalBefore = NoText
    BY DEF Init
  <2>4. checked = 0 /\ rule = 0 /\ score = 0 /\ accepted = 0 /\ stalls = 0
    BY DEF Init
  <2>5. iteration \in 0 .. MaxIterations
    BY <2>1, BoundsAssumption
  <2>6. /\ pc \in Steps /\ result.exit \in Exits /\ left \in 0 .. 3
        /\ route \in {"none", "clean", "forced", "resolved", "candidate"}
    BY <2>1 DEF Exits
  <2>7. {plan, floor, forced, anchored} \subseteq BOOLEAN
    BY <2>1
  <2>8. blocked \in [Models -> SUBSET SUBSET Obligations]
    BY <2>2
  <2>9. ranked \subseteq Keys
    BY <2>1
  <2>10. QED
    BY <1>1, <1>2, <2>3, <2>4, <2>5, <2>6, <2>7, <2>8, <2>9 DEF RefinementTypeOK
<1>4. result.exit = "none"
  BY DEF Init, NoResult
<1>5. QED
  BY <1>2, <1>3, <1>4
     DEF Init, LoopInv, Counting, PassLeft, Running, Simulated, Leaving, Apart,
         PeakTracked, ExitHolds, SimulationDescribesModel, CleanExitHolds

\* A step that does not return keeps what the returned model owes.
LEMMA NothingReturned ==
  ASSUME LoopInv, pc # "done", result' = result
  PROVE  Running' /\ ExitHolds'
BY DEF LoopInv, Running, ExitHolds, SimulationDescribesModel, CleanExitHolds

\* Where neither the keys nor the kept key move, the peak stays.
LEMMA PeakStays ==
  ASSUME LoopInv, UNCHANGED <<bestKey, ranked>>
  PROVE  PeakTracked'
BY DEF LoopInv, PeakTracked

-----------------------------------------------------------------------------
(* The loop top                                                            *)

LEMMA PrepareInv ==
  ASSUME LoopInv, Prepare
  PROVE  LoopInv'
<1>1. RefinementTypeOK /\ Text \in Texts /\ iteration < MaxIterations
  BY TextTyped DEF LoopInv, Counting, Prepare
<1>2. PICK t \in Texts :
        /\ Rewrite(Facts[t].cleaned) /\ checked' = Facts[t].errors
        /\ sim' = Facts[t].cleaned
  BY <1>1 DEF Prepare, Gated
<1>3. /\ heap' \in [Models -> Texts] /\ current' = current /\ blocked' = blocked
      /\ Text' = sim' /\ sim' \in Texts /\ checked' \in Nat
  BY <1>1, <1>2, FactTypes, RewriteTypes
<1>4. iteration' \in 0 .. MaxIterations
  BY <1>1, BoundsAssumption DEF Prepare, Counted, RefinementTypeOK
<1>5. RefinementTypeOK'
  BY <1>1, <1>3, <1>4 DEF RefinementTypeOK, Prepare, bestVars, stepVars
<1>6. pc' = "evaluate" /\ Simulated' /\ Counting' /\ PassLeft' /\ Leaving' /\ Apart'
  BY <1>3 DEF Prepare, Simulated, Counting, PassLeft, Leaving, Apart
<1>7. PeakTracked' /\ Running' /\ ExitHolds'
  BY PeakStays, NothingReturned DEF Prepare, bestVars
<1>8. QED
  BY <1>5, <1>6, <1>7 DEF LoopInv

LEMMA EvaluateInv ==
  ASSUME LoopInv, Evaluate
  PROVE  LoopInv'
<1>1. /\ RefinementTypeOK /\ Text \in Texts /\ PeakTracked /\ sim = Text
      /\ checked \in Nat
  BY TextTyped DEF LoopInv, Simulated, Evaluate, RefinementTypeOK
<1>2. PICK s \in BlendedScores(Facts[Text].rule) :
        /\ score' = s /\ Rank(Key(s, checked))
        /\ \/ pc' = "transact" /\ UNCHANGED <<route, left>>
           \/ GatesPass /\ pc' = "passes" /\ route' = "clean" /\ left' = left
           \/ pc' = "fix" /\ route' = "forced" /\ left' = 2
  BY DEF Evaluate
<1>3. s \in Nat /\ Facts[Text].rule \in Nat
  BY <1>1, FactTypes, BlendedTypes
<1>4. /\ bestKey' \in Keys /\ ranked' \subseteq Keys /\ PeakTracked'
      /\ best' \in {best, current} /\ bestSim' \in {bestSim, Text}
  BY <1>1, <1>2, <1>3, KeyTypes, RankTypes
<1>5. /\ UNCHANGED <<iteration, plan, floor, stalls, fatalBefore, heap, blocked, current>>
      /\ UNCHANGED <<sim, checked, forced, anchored, accepted, result>>
      /\ rule' = Facts[Text].rule /\ lastSim' = Text
  BY DEF Evaluate, loopVars, heapVars
<1>6. pc' \in {"transact", "passes", "fix"} /\ left' \in 0 .. 3
      /\ route' \in {"none", "clean", "forced", "resolved", "candidate"}
  BY <1>1, <1>2 DEF RefinementTypeOK
<1>7. RefinementTypeOK'
  BY <1>1, <1>2, <1>3, <1>4, <1>5, <1>6 DEF RefinementTypeOK
<1>8. Text' = Text
  BY <1>5 DEF Text
<1>9. Simulated' /\ Leaving'
  BY <1>1, <1>2, <1>5, <1>8 DEF Simulated, Leaving, GatesPass
<1>10. Counting' /\ PassLeft' /\ Apart'
  BY <1>2, <1>6 DEF Counting, PassLeft, Apart
<1>11. Running' /\ ExitHolds'
  BY <1>5, NothingReturned DEF Evaluate
<1>12. QED
  BY <1>4, <1>7, <1>9, <1>10, <1>11 DEF LoopInv

-----------------------------------------------------------------------------
(* The exit passes                                                         *)

\* A candidate of an exit pass that is not worse in the simulation of the model before
\* keeps what that model may leave with.
LEMMA NotWorseLeaves ==
  ASSUME LoopInv, pc = "passes", NEW t \in Texts, NotWorse(t)
  PROVE  /\ route = "clean" => /\ Facts[t].behaviour > 0
                               /\ ~plan => Facts[t].failing = 0
         /\ route = "resolved" => Facts[t].failing = 0
<1>1. Text \in Texts /\ sim = Text /\ Leaving
  BY TextTyped DEF LoopInv, Simulated
<1>2. /\ Facts[t].failing \in Nat /\ Facts[t].behaviour \in Nat
      /\ Facts[Text].failing \in Nat /\ Facts[Text].behaviour \in Nat
  BY <1>1, FactTypes
<1>3. /\ Facts[t].failing <= Facts[Text].failing
      /\ Facts[t].behaviour >= Facts[Text].behaviour
  BY <1>1 DEF NotWorse
<1>4. QED
  BY <1>1, <1>2, <1>3 DEF Leaving

\* A pass keeps a new object that is not worse, or leaves everything.
LEMMA PassInv ==
  ASSUME LoopInv, pc = "passes", pc' = pc, anchored' \in BOOLEAN,
         UNCHANGED <<loopVars, lastSim, checked, rule, score, forced, bestVars,
                     route, left, accepted, result>>,
         \/ \E t \in Texts : NotWorse(t) /\ KeepPassResult(t)
         \/ UNCHANGED <<heapVars, sim>>
  PROVE  LoopInv'
<1>1. RefinementTypeOK /\ sim = Text /\ Text \in Texts
  BY TextTyped DEF LoopInv, Simulated
<1>2. UNCHANGED <<iteration, plan, floor, stalls, fatalBefore, best, bestKey, bestSim,
                  ranked>>
  BY DEF loopVars, bestVars
<1>3. CASE \E t \in Texts : NotWorse(t) /\ KeepPassResult(t)
  <2>1. PICK t \in Texts : NotWorse(t) /\ NewModel(t) /\ sim' = t
    BY <1>3 DEF KeepPassResult
  <2>2. /\ heap' \in [Models -> Texts] /\ current' \in Models /\ Text' = t
        /\ blocked' \in [Models -> SUBSET SUBSET Obligations]
    BY <1>1, <2>1, NewModelTypes
  <2>3. RefinementTypeOK'
    BY <1>1, <1>2, <2>1, <2>2 DEF RefinementTypeOK
  <2>4. Leaving'
    BY <1>2, <2>1, <2>2, NotWorseLeaves DEF LoopInv, Leaving
  <2>5. Simulated' /\ Counting' /\ PassLeft' /\ Apart'
    BY <2>1, <2>2 DEF Simulated, Counting, PassLeft, Apart
  <2>6. QED
    BY <1>2, <2>3, <2>4, <2>5, PeakStays, NothingReturned DEF LoopInv
<1>4. CASE UNCHANGED <<heapVars, sim>>
  <2>1. UNCHANGED <<heap, blocked, current, sim>> /\ Text' = Text
    BY <1>4 DEF heapVars, Text
  <2>2. RefinementTypeOK'
    BY <1>1, <1>2, <2>1 DEF RefinementTypeOK
  <2>3. Leaving' /\ Simulated' /\ Counting' /\ PassLeft' /\ Apart'
    BY <1>2, <2>1 DEF LoopInv, Leaving, Simulated, Counting, PassLeft, Apart
  <2>4. QED
    BY <1>2, <2>2, <2>3, PeakStays, NothingReturned DEF LoopInv
<1>5. QED
  BY <1>3, <1>4

LEMMA SurgicalPassInv ==
  ASSUME LoopInv, SurgicalPass
  PROVE  LoopInv'
<1>1. \/ \E t \in Texts : NotWorse(t) /\ KeepPassResult(t)
      \/ UNCHANGED <<heapVars, sim>>
  BY DEF SurgicalPass, PassAdmits
<1>2. anchored' \in BOOLEAN
  <2>1. anchored \in BOOLEAN
    BY DEF LoopInv, RefinementTypeOK
  <2>2. \/ anchored' = (anchored \/ (route = "resolved" /\ Head(todo) = "anchor"))
        \/ anchored' = anchored
    BY DEF SurgicalPass
  <2>3. QED
    BY <2>1, <2>2
<1>3. QED
  BY <1>1, <1>2, PassInv DEF SurgicalPass

LEMMA UnplannedPassInv ==
  ASSUME LoopInv, UnplannedPass
  PROVE  LoopInv'
<1>1. Facts[Text].stripped \in Texts
  BY TextTyped, FactTypes DEF LoopInv
<1>2. \/ \E t \in Texts : NotWorse(t) /\ KeepPassResult(t)
      \/ UNCHANGED <<heapVars, sim>>
  BY <1>1 DEF UnplannedPass, RemovalAdmits
<1>3. anchored' \in BOOLEAN
  BY DEF LoopInv, RefinementTypeOK, UnplannedPass
<1>4. QED
  BY <1>2, <1>3, PassInv DEF UnplannedPass
\* An early exit returns the current object with the simulation of its text.
LEMMA CleanExitInv ==
  ASSUME LoopInv, CleanExit \/ ResolvedExit
  PROVE  LoopInv'
<1>1. /\ RefinementTypeOK /\ Text \in Texts /\ sim = Text /\ Leaving
      /\ pc = "passes" /\ result.exit = "none"
      /\ current \in Models /\ Facts[Text].rule \in Nat
  BY TextTyped, FactTypes
     DEF LoopInv, Simulated, Running, RefinementTypeOK, CleanExit, ResolvedExit
<1>2. /\ UNCHANGED <<iteration, plan, floor, signature, heap, blocked, current, sim,
                     lastSim, checked, rule, score>>
      /\ UNCHANGED <<best, bestKey, bestSim, ranked, rankedText>>
      /\ UNCHANGED <<route, anchored, left, accepted>>
  BY DEF CleanExit, ResolvedExit, loopVars, heapVars, evalVars, bestVars, stepVars
<1>3. stalls' \in Nat /\ fatalBefore' \in Texts \union {NoText} /\ forced' \in BOOLEAN
  <2>1. stalls \in Nat /\ forced \in BOOLEAN /\ fatalBefore \in Texts \union {NoText}
    BY <1>1 DEF RefinementTypeOK
  <2>2. CASE CleanExit
    <3>1. stalls' = Stalls /\ fatalBefore' = Text /\ forced' \in {TRUE, forced}
      BY <2>2 DEF CleanExit
    <3>2. Stalls \in Nat
      BY <2>1 DEF Stalls
    <3>3. forced' \in BOOLEAN
      BY <2>1, <3>1
    <3>4. QED
      BY <1>1, <3>1, <3>2, <3>3
  <2>3. CASE ResolvedExit
    BY <2>1, <2>3 DEF ResolvedExit, loopVars, evalVars
  <2>4. QED
    BY <2>2, <2>3
<1>4. \/ pc' = "transact" /\ result' = result
      \/ /\ pc' = "done" /\ result'.model = current /\ result'.sim = Text
         /\ result'.exit = route /\ route \in {"clean", "resolved"}
  <2>1. CASE CleanExit
    BY <1>1, <2>1 DEF CleanExit, Return
  <2>2. CASE ResolvedExit
    BY <1>1, <2>2 DEF ResolvedExit, Return
  <2>3. QED
    BY <2>1, <2>2
<1>5. result'.exit \in Exits /\ pc' \in {"transact", "done"}
  BY <1>1, <1>4 DEF Exits
<1>6. RefinementTypeOK'
  BY <1>1, <1>2, <1>3, <1>5 DEF RefinementTypeOK
<1>7. ExitHolds' /\ Running'
  BY <1>1, <1>2, <1>4 DEF ExitHolds, SimulationDescribesModel, CleanExitHolds, Running,
       Leaving, Text
<1>8. Simulated' /\ Leaving' /\ Counting' /\ PassLeft' /\ Apart'
  BY <1>5 DEF Simulated, Leaving, Counting, PassLeft, Apart
<1>9. QED
  BY <1>2, <1>6, <1>7, <1>8, PeakStays DEF LoopInv

-----------------------------------------------------------------------------
(* The simulation repair                                                   *)

LEMMA AfterRepairSteps == AfterRepair \in {"resolve", "rank"}
BY DEF AfterRepair

\* A repair rewrites the object at hand, and stays apart from the kept one.
LEMMA RepairStepInv ==
  ASSUME LoopInv, pc \in Repairing,
         heap' \in [Models -> Texts], blocked' \in [Models -> SUBSET SUBSET Obligations],
         pc' \in {"materialise", "connect", "propose", "resolve", "rank"},
         left' \in 0 .. 3, pc' = "propose" => left' > 0,
         UNCHANGED <<current, loopVars, evalVars, bestVars, todo, route, anchored,
                     accepted, result>>
  PROVE  LoopInv'
<1>1. /\ UNCHANGED <<iteration, plan, floor, stalls, fatalBefore, sim, lastSim, checked>>
      /\ UNCHANGED <<rule, score, forced, best, bestKey, bestSim, ranked>>
  BY DEF loopVars, evalVars, bestVars
<1>2. RefinementTypeOK'
  BY <1>1 DEF LoopInv, RefinementTypeOK
<1>3. Simulated' /\ Leaving' /\ Counting' /\ PassLeft'
  BY DEF Simulated, Leaving, Counting, PassLeft
<1>4. Apart'
  BY <1>1 DEF LoopInv, Apart
<1>5. QED
  BY <1>1, <1>2, <1>3, <1>4, PeakStays, NothingReturned DEF LoopInv

LEMMA FixTransitionsInv ==
  ASSUME LoopInv, FixTransitions
  PROVE  LoopInv'
<1>1. RefinementTypeOK /\ Text \in Texts
  BY TextTyped DEF LoopInv
<1>2. PICK t \in Texts : Rewrite(t)
  BY <1>1 DEF FixTransitions, Restated
<1>3. /\ heap' \in [Models -> Texts] /\ current' = current
      /\ blocked' \in [Models -> SUBSET SUBSET Obligations]
  BY <1>1, <1>2, RewriteTypes DEF RefinementTypeOK
<1>4. left' \in 0 .. 3 /\ pc' \in {"materialise", "connect"}
  BY <1>1 DEF FixTransitions, stepVars, RefinementTypeOK
<1>5. QED
  BY <1>3, <1>4, RepairStepInv DEF FixTransitions, stepVars

LEMMA MaterialiseInv ==
  ASSUME LoopInv, Materialise
  PROVE  LoopInv'
<1>1. RefinementTypeOK /\ Text \in Texts /\ Facts[Text].applied \in Texts
  BY TextTyped, FactTypes DEF LoopInv
<1>2. PICK t \in Texts :
        /\ heap' = [heap EXCEPT ![current] = t]
        /\ \/ blocked' = [blocked EXCEPT ![current] = {}]
           \/ blocked' = [blocked EXCEPT ![current] = {Facts[t].unmet}]
  BY <1>1 DEF Materialise, NotBlocked
<1>3. {Facts[t].unmet} \in SUBSET SUBSET Obligations
  BY FactTypes
<1>4. /\ heap' \in [Models -> Texts]
      /\ blocked' \in [Models -> SUBSET SUBSET Obligations]
  BY <1>1, <1>2, <1>3 DEF RefinementTypeOK
<1>5. left' \in 0 .. 3 /\ pc' \in {"resolve", "rank"}
  BY <1>1, AfterRepairSteps DEF Materialise, stepVars, RefinementTypeOK
<1>6. QED
  BY <1>4, <1>5, RepairStepInv DEF Materialise, stepVars

LEMMA ConnectsInv ==
  ASSUME LoopInv, DeterministicConnects \/ ProposeConnects
  PROVE  LoopInv'
<1>1. RefinementTypeOK /\ Text \in Texts /\ left \in 0 .. 3
  BY TextTyped DEF LoopInv, RefinementTypeOK
<1>2. /\ heap' \in [Models -> Texts] /\ current' = current
      /\ blocked' \in [Models -> SUBSET SUBSET Obligations]
  <2>1. \/ \E t \in Texts : Rewrite(t)
        \/ UNCHANGED heapVars
    BY <1>1 DEF DeterministicConnects, ProposeConnects, Improved
  <2>2. QED
    BY <1>1, <2>1, RewriteTypes DEF RefinementTypeOK, heapVars
<1>3. CASE DeterministicConnects
  <2>1. /\ left' = left /\ pc' \in {"resolve", "rank", "propose"}
        /\ pc' = "propose" => left > 1
    BY <1>3, AfterRepairSteps DEF DeterministicConnects, stepVars
  <2>2. QED
    BY <1>1, <1>2, <1>3, <2>1, RepairStepInv DEF DeterministicConnects, stepVars
<1>4. CASE ProposeConnects
  <2>1. left > 0
    BY <1>4 DEF LoopInv, PassLeft, ProposeConnects
  <2>2. left' \in 0 .. 3 /\ pc' \in {"connect", "resolve", "rank"}
    BY <1>1, <1>4, <2>1, AfterRepairSteps DEF ProposeConnects
  <2>3. QED
    BY <1>2, <1>4, <2>2, RepairStepInv DEF ProposeConnects
<1>5. QED
  BY <1>3, <1>4

LEMMA ResolveInv ==
  ASSUME LoopInv, Resolve
  PROVE  LoopInv'
<1>1. /\ RefinementTypeOK /\ Text \in Texts /\ current \in Models
      /\ Facts[Text].rule \in Nat /\ result.exit = "none"
  BY TextTyped, FactTypes DEF LoopInv, RefinementTypeOK, Running, Resolve
<1>2. /\ UNCHANGED <<iteration, plan, floor, stalls, fatalBefore, heap, blocked, current>>
      /\ UNCHANGED <<checked, best, bestKey, bestSim, ranked, left, accepted>>
      /\ sim' = Text /\ lastSim' = Text /\ Text' = Text
  BY DEF Resolve, loopVars, heapVars, bestVars, Text
<1>3. \/ /\ pc' = "passes" /\ route' = "resolved" /\ anchored' = FALSE
         /\ Facts[Text].failing = 0
         /\ rule' = Facts[Text].rule /\ score' = rule' /\ UNCHANGED <<forced, result>>
      \/ /\ pc' = "transact" /\ forced' = TRUE
         /\ UNCHANGED <<rule, score, route, anchored, result>>
      \/ /\ pc' = "done" /\ result'.exit = "spent"
         /\ result'.sim = Text /\ result'.model = current
         /\ UNCHANGED <<rule, score, route, anchored, forced>>
  BY DEF Resolve, Return
<1>4. /\ pc' \in {"passes", "transact", "done"} /\ result'.exit \in Exits
      /\ route' \in {"none", "clean", "forced", "resolved", "candidate"}
      /\ {forced', anchored'} \subseteq BOOLEAN /\ {rule', score'} \subseteq Nat
  BY <1>1, <1>3 DEF Exits, RefinementTypeOK
<1>5. RefinementTypeOK'
  BY <1>1, <1>2, <1>4 DEF RefinementTypeOK
<1>6. ExitHolds' /\ Running'
  BY <1>1, <1>2, <1>3 DEF ExitHolds, SimulationDescribesModel, CleanExitHolds, Running, Text
<1>7. Simulated' /\ Leaving' /\ Counting' /\ PassLeft' /\ Apart'
  BY <1>2, <1>3 DEF Simulated, Leaving, Counting, PassLeft, Apart
<1>8. QED
  BY <1>2, <1>5, <1>6, <1>7, PeakStays DEF LoopInv

-----------------------------------------------------------------------------
(* The transaction and the end of an iteration                             *)

LEMMA RefusedInv ==
  ASSUME LoopInv, SkipTransaction \/ RefuseCandidate
  PROVE  LoopInv'
<1>1. pc' = "futility" /\ pc = "transact"
      /\ UNCHANGED <<loopVars, heapVars, evalVars, bestVars, stepVars, result>>
  BY DEF SkipTransaction, RefuseCandidate
<1>2. RefinementTypeOK'
  BY <1>1 DEF LoopInv, RefinementTypeOK, loopVars, heapVars, evalVars, bestVars, stepVars
<1>3. Simulated' /\ Leaving' /\ Counting' /\ PassLeft' /\ Apart'
  BY <1>1 DEF Simulated, Leaving, Counting, PassLeft, Apart
<1>4. QED
  BY <1>1, <1>2, <1>3, PeakStays, NothingReturned DEF LoopInv, bestVars

\* The accepted candidate is an object that nothing else refers to.
LEMMA AcceptCandidateInv ==
  ASSUME LoopInv, AcceptCandidate
  PROVE  LoopInv'
<1>1. RefinementTypeOK
  BY DEF LoopInv
<1>2. PICK c \in Texts : NewModel(Judged(c)) /\ accepted' = Facts[Judged(c)].rule
  BY DEF AcceptCandidate
<1>3. Judged(c) \in Texts
  <2>1. Facts[c].applied \in Texts
    BY FactTypes
  <2>2. Facts[Facts[c].applied].stripped \in Texts
    BY <2>1, FactTypes
  <2>3. Salvaged(c) \in Texts
    BY <2>2, FactTypes DEF Salvaged
  <2>4. QED
    BY <2>1, <2>3 DEF Judged
<1>4. /\ heap' \in [Models -> Texts] /\ current' \in Models /\ current' # best
      /\ blocked' \in [Models -> SUBSET SUBSET Obligations] /\ accepted' \in Nat
  BY <1>1, <1>2, <1>3, NewModelTypes, FactTypes
<1>5. /\ UNCHANGED <<iteration, plan, floor, stalls, fatalBefore, sim, lastSim, checked>>
      /\ UNCHANGED <<rule, score, forced, best, bestKey, bestSim, ranked, anchored, result>>
      /\ pc = "transact" /\ pc' = "fix" /\ route' = "candidate" /\ left' = 3
  BY DEF AcceptCandidate, loopVars, evalVars, bestVars
<1>6. RefinementTypeOK'
  BY <1>1, <1>4, <1>5 DEF RefinementTypeOK
<1>7. Simulated' /\ Leaving' /\ Counting' /\ PassLeft' /\ Apart'
  BY <1>4, <1>5 DEF Simulated, Leaving, Counting, PassLeft, Apart
<1>8. QED
  BY <1>5, <1>6, <1>7, PeakStays, NothingReturned DEF LoopInv

LEMMA RankAcceptedInv ==
  ASSUME LoopInv, RankAccepted
  PROVE  LoopInv'
<1>1. /\ RefinementTypeOK /\ Text \in Texts /\ PeakTracked
      /\ accepted \in Nat /\ Facts[Text].errors \in Nat
  BY TextTyped, FactTypes DEF LoopInv, RefinementTypeOK
<1>2. Key(accepted, Facts[Text].errors) \in Keys
  BY <1>1, KeyTypes
<1>3. /\ bestKey' \in Keys /\ ranked' \subseteq Keys /\ PeakTracked'
      /\ best' \in {best, current} /\ bestSim' \in {bestSim, Text}
  BY <1>1, <1>2, RankTypes DEF RankAccepted
<1>4. /\ UNCHANGED <<iteration, plan, floor, stalls, fatalBefore, heap, blocked, current>>
      /\ UNCHANGED <<sim, checked, rule, score, forced, route, anchored, left, accepted,
                     result>>
      /\ lastSim' \in {Text, lastSim} /\ pc = "rank" /\ pc' = "futility"
  BY DEF RankAccepted, loopVars, heapVars, stepVars
<1>5. RefinementTypeOK'
  BY <1>1, <1>3, <1>4 DEF RefinementTypeOK
<1>6. Simulated' /\ Leaving' /\ Counting' /\ PassLeft' /\ Apart'
  BY <1>4 DEF Simulated, Leaving, Counting, PassLeft, Apart
<1>7. QED
  BY <1>3, <1>4, <1>5, <1>6, NothingReturned DEF LoopInv

LEMMA EndIterationInv ==
  ASSUME LoopInv, EndIteration
  PROVE  LoopInv'
<1>1. RefinementTypeOK /\ result.exit = "none" /\ iteration \in 0 .. MaxIterations
  BY DEF LoopInv, Running, RefinementTypeOK, EndIteration
<1>2. /\ UNCHANGED <<iteration, plan, floor, stalls, fatalBefore, heap, blocked, current>>
      /\ UNCHANGED <<sim, lastSim, checked, rule, score, forced>>
      /\ UNCHANGED <<best, bestKey, bestSim, ranked, route, anchored, left, accepted>>
  BY DEF EndIteration, heapVars, evalVars, bestVars, stepVars
<1>3. \/ pc' = "done" /\ result'.exit = "exhausted"
      \/ pc' = "prepare" /\ result' = result /\ iteration # MaxIterations
  BY DEF EndIteration
<1>4. pc' \in {"done", "prepare"} /\ result'.exit \in Exits
  BY <1>1, <1>3 DEF Exits
<1>5. RefinementTypeOK'
  BY <1>1, <1>2, <1>4 DEF RefinementTypeOK
<1>6. Counting'
  BY <1>1, <1>2, <1>3, BoundsAssumption DEF Counting
<1>7. Simulated' /\ Leaving' /\ PassLeft' /\ Apart'
  BY <1>4 DEF Simulated, Leaving, PassLeft, Apart
<1>8. Running' /\ ExitHolds'
  BY <1>1, <1>3 DEF Running, ExitHolds, SimulationDescribesModel, CleanExitHolds
<1>9. QED
  BY <1>2, <1>5, <1>6, <1>7, <1>8, PeakStays DEF LoopInv

-----------------------------------------------------------------------------
LEMMA NextInv == LoopInv /\ [Next]_vars => LoopInv'
<1> SUFFICES ASSUME LoopInv, [Next]_vars PROVE LoopInv'
  OBVIOUS
<1>1. CASE Prepare
  BY <1>1, PrepareInv
<1>2. CASE Evaluate
  BY <1>2, EvaluateInv
<1>3. CASE SurgicalPass
  BY <1>3, SurgicalPassInv
<1>4. CASE UnplannedPass
  BY <1>4, UnplannedPassInv
<1>5. CASE CleanExit \/ ResolvedExit
  BY <1>5, CleanExitInv
<1>6. CASE FixTransitions
  BY <1>6, FixTransitionsInv
<1>7. CASE Materialise
  BY <1>7, MaterialiseInv
<1>8. CASE DeterministicConnects \/ ProposeConnects
  BY <1>8, ConnectsInv
<1>9. CASE Resolve
  BY <1>9, ResolveInv
<1>10. CASE SkipTransaction \/ RefuseCandidate
  BY <1>10, RefusedInv
<1>11. CASE AcceptCandidate
  BY <1>11, AcceptCandidateInv
<1>12. CASE RankAccepted
  BY <1>12, RankAcceptedInv
<1>13. CASE EndIteration
  BY <1>13, EndIterationInv
<1>14. CASE UNCHANGED vars
  BY <1>14 DEF vars, loopVars, heapVars, bestVars, evalVars, stepVars, LoopInv,
       RefinementTypeOK, Counting, PassLeft, Running, Simulated, Leaving, Apart, Text,
       PeakTracked, ExitHolds, SimulationDescribesModel, CleanExitHolds
<1>15. QED
  BY <1>1, <1>2, <1>3, <1>4, <1>5, <1>6, <1>7, <1>8, <1>9, <1>10, <1>11, <1>12, <1>13,
     <1>14 DEF Next

LEMMA LoopInvariant == Spec => []LoopInv
<1>1. QED
  BY InitInv, NextInv, PTL DEF Spec

\* The loop's variables keep their types, for any texts and bounds.
THEOREM RefinementTypeCorrect == Spec => []RefinementTypeOK
<1>1. LoopInv => RefinementTypeOK
  BY DEF LoopInv
<1>2. QED
  BY <1>1, LoopInvariant, PTL

\* No model the loop has ranked beats the one it keeps.
THEOREM PeakKept == Spec => []PeakTracked
<1>1. LoopInv => PeakTracked
  BY DEF LoopInv
<1>2. QED
  BY <1>1, LoopInvariant, PTL

\* Every early exit returns what its gates let through, with the simulation of its text.
THEOREM ExitsHold == Spec => []ExitHolds
<1>1. LoopInv => ExitHolds
  BY DEF LoopInv
<1>2. QED
  BY <1>1, LoopInvariant, PTL

\* A transaction replaces the current model by a new object only, and the repair of a
\* candidate never writes the kept model.
THEOREM CandidatesFresh == Spec => CandidatesAreFresh
<1> DEFINE Kept ==
      /\ pc = "transact" /\ current' # current => current' # best
      /\ route = "candidate" /\ pc \in {"fix", "materialise", "connect", "propose"}
           => heap'[best] = heap[best]
<1>1. ASSUME LoopInv, [Next]_vars PROVE Kept
  <2>1. RefinementTypeOK /\ Text \in Texts /\ Facts[Text].applied \in Texts
    BY <1>1, TextTyped, FactTypes DEF LoopInv
  <2>2. ASSUME pc = "transact", current' # current PROVE current' # best
    <3>1. AcceptCandidate
      BY <1>1, <2>2 DEF Next, vars, heapVars, Prepare, Evaluate, SurgicalPass,
           UnplannedPass, CleanExit, ResolvedExit, FixTransitions, Materialise,
           DeterministicConnects, ProposeConnects, Resolve, SkipTransaction,
           RefuseCandidate, RankAccepted, EndIteration
    <3>2. PICK c \in Texts : NewModel(Judged(c))
      BY <3>1 DEF AcceptCandidate
    <3>3. QED
      BY <2>1, <3>2, FreshObject DEF NewModel
  <2>3. ASSUME route = "candidate", pc \in Repairing PROVE heap'[best] = heap[best]
    <3>1. current # best /\ current \in Models /\ best \in Models
          /\ heap \in [Models -> Texts]
      BY <1>1, <2>1, <2>3 DEF LoopInv, Apart, RefinementTypeOK
    <3>2. \/ FixTransitions \/ Materialise \/ DeterministicConnects \/ ProposeConnects
          \/ UNCHANGED vars
      BY <1>1, <2>3 DEF Next, Prepare, Evaluate, SurgicalPass, UnplannedPass, CleanExit,
           ResolvedExit, Resolve, SkipTransaction, RefuseCandidate, AcceptCandidate,
           RankAccepted, EndIteration
    <3>3. \/ \E t \in Texts : heap' = [heap EXCEPT ![current] = t]
          \/ heap' = heap
      <4>1. Restated \subseteq Texts /\ Improved \subseteq Texts
        BY <2>1 DEF Restated, Improved
      <4>2. QED
        BY <2>1, <3>2, <4>1 DEF FixTransitions, Materialise, DeterministicConnects,
             ProposeConnects, Rewrite, vars, heapVars
    <3>4. QED
      BY <3>1, <3>3
  <2>4. QED
    BY <2>2, <2>3
<1>2. QED
  BY <1>1, LoopInvariant, PTL DEF Spec, CandidatesAreFresh
=============================================================================
