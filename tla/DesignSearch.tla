---------------------------- MODULE DesignSearch ----------------------------
(***************************************************************************)
(* Design space exploration: the Pareto archive and the multi-objective    *)
(* tree search of dse/mo_mcts.py, the constraint pipeline around it in     *)
(* dse/variation_dse.py, the catalogue search of dse/pipeline_adapter.py   *)
(* that replaces it when a model declares no admissible variation point,   *)
(* and what _explore_variations hands on to refinement.                    *)
(*                                                                         *)
(* A design resolves every point to a variant.  Its objective vector and   *)
(* the gates it passes are opaque: any vector, fixed when it is first      *)
(* scored, and any number of gates.  Objectives are numbers on a grid      *)
(* above the reference point 0; which child UCB prefers is left open.      *)
(***************************************************************************)
EXTENDS Integers, Sequences, FiniteSets, Functions

CONSTANTS
    Points,        \* the variation points (operators)
    Spaces,        \* what a search explores: "variation" or "catalogue"
    Variants,      \* Variants[space][p]: how many variants p has, numbered from 1
    Clashes,       \* pairs <<<<p, v>>, <<q, w>>>> the catalogue operators exclude
    Seeds,         \* the points that carry the catalogue architecture seed
    MaxVariant,    \* the most variants a point has
    Dims,          \* objective names
    Vectors,       \* the objective vectors a design may have
    Budget,        \* Budget[space]: search iterations
    Layouts        \* orders of variant types and variation blocks in a text

ASSUME PointsAssumption == Points # {} /\ IsFiniteSet(Points)
ASSUME VectorsAssumption == IsFiniteSet(Dims) /\ Vectors \subseteq [Dims -> Nat]
ASSUME SpacesAssumption ==
    /\ Spaces = {"variation", "catalogue"}
    /\ MaxVariant \in Nat /\ Variants \in [Spaces -> [Points -> 1 .. MaxVariant]]
    /\ Budget \in [Spaces -> Nat]

VARIABLES
    phase,       \* what the phase is doing
    space,       \* which space is searched
    tree,        \* the nodes of the search tree, as the actions that lead to them
    visits, reward,      \* MONode.visits and total_reward
    scores,      \* the designs scored so far, with their vectors (cache)
    rolled,      \* the designs that rollouts added to the archive
    archive,     \* ParetoArchive.members, as designs
    coverage,    \* how run_variation_dse covered the space: coverage_mode
    survivors,   \* the designs that passed the gates run so far
    passed,      \* how many gates each scored design passes
    recommended, \* the chosen design, or NoDesign
    layout, widths, spans,   \* the model text and the spans parsed from it
    text         \* what refinement gets: pre, introduced, resolved or garbled

vars == <<phase, space, tree, visits, reward, scores, rolled, archive, coverage,
          survivors, passed, recommended, layout, widths, spans, text>>

-----------------------------------------------------------------------------
(* The Pareto archive.                                                     *)

Dominates(a, b) == (\A d \in Dims : a[d] >= b[d]) /\ (\E d \in Dims : a[d] > b[d])

\* Mutant: members that the new point dominates are kept.
MutKeepDominated(members, score, s) ==
    IF \E m \in members : Dominates(score[m], score[s]) \/ score[m] = score[s]
    THEN members ELSE members \union {s}
\* ParetoArchive.add: a dominated or equal point is refused; otherwise it replaces every
\* member it dominates.
Add(members, score, s) ==
    IF \E m \in members : Dominates(score[m], score[s]) \/ score[m] = score[s]
    THEN members
    ELSE {m \in members : ~Dominates(score[s], score[m])} \union {s}

\* The cells of the grid between the reference and some point: the volume that
\* hypervolume_nd computes by slicing.
Cells(points) ==
    LET top == UNION {{v[d] : d \in Dims} : v \in points}
        edge == IF top = {} THEN {} ELSE 1 .. (CHOOSE n \in top : \A k \in top : k <= n)
    IN  {c \in [Dims -> edge] : \E v \in points : \A d \in Dims : c[d] <= v[d]}
Hypervolume(members, score) == Cardinality(Cells({score[m] : m \in members}))

-----------------------------------------------------------------------------
(* Designs and the tree.                                                   *)

NoDesign == [p \in Points |-> 0]
Complete(s) == \A p \in Points : s[p] # 0
\* Operator.feasible: the catalogue's redundancy and sensing operators check each other;
\* a variation point accepts each of its variants.
Feasible(s) ==
    \/ space = "variation"
    \/ \A c \in Clashes : ~(s[c[1][1]] = c[1][2] /\ s[c[2][1]] = c[2][2])
Designs == {s \in [Points -> 0 .. MaxVariant] :
               (\A p \in Points : s[p] <= Variants[space][p]) /\ Feasible(s)}

\* _actions: every feasible variant of every unresolved point.
Actions(s) == {a \in Points \X (1 .. MaxVariant) :
                  s[a[1]] = 0 /\ [s EXCEPT ![a[1]] = a[2]] \in Designs}
StateOf(node) ==
    [p \in Points |-> LET at == {i \in DOMAIN node : node[i][1] = p}
                      IN  IF at = {} THEN 0 ELSE node[CHOOSE i \in at : TRUE][2]]
Untried(n) == {a \in Actions(StateOf(n)) : Append(n, a) \notin tree}
Path(n) == {SubSeq(n, 1, k) : k \in 0 .. Len(n)}

\* _select: down from the root through expanded nodes to one with an untried action or
\* without children. UCB decides which; every child has been visited, so any may win.
Selected == {n \in tree : /\ \A m \in Path(n) \ {n} : Untried(m) = {}
                          /\ Untried(n) # {} \/ Actions(StateOf(n)) = {}}

\* _simulate: random feasible choices until the design is complete or nothing is feasible.
Rollouts(s) == {t \in Designs : /\ \A p \in Points : s[p] # 0 => t[p] = s[p]
                                /\ Complete(t) \/ Actions(t) = {}}

-----------------------------------------------------------------------------
Init ==
    /\ phase = "start" /\ space = "variation"
    /\ tree = {<<>>} /\ visits = [n \in tree |-> 0] /\ reward = [n \in tree |-> 0]
    /\ scores = <<>> /\ rolled = {} /\ archive = {}
    /\ coverage = "none" /\ survivors = {} /\ passed = <<>>
    /\ recommended = NoDesign
    /\ layout \in Layouts /\ widths \in [DOMAIN layout -> {1}] /\ spans = <<>>
    /\ text = "pre"

\* Where the pieces of the text start.
Offset(i) == SumFunctionOnSet(widths, 1 .. i - 1)
Blocks == {i \in DOMAIN layout : layout[i][1] = "block"}

\* parse_variation_points, admitted and port_safe_split on the model with the introduced
\* variation points: every block's span is noted. normalize_variation_space then strips
\* attributes that two points declare, or that the inner loop sizes, from variant types.
DeclareVariations ==
    /\ phase = "start"
    /\ text' = "introduced"
    /\ spans' = [i \in Blocks |-> Offset(i)]
    /\ \E doubled \in SUBSET (DOMAIN layout \ Blocks) :
          widths' = [i \in DOMAIN layout |-> IF i \in doubled THEN 0 ELSE widths[i]]
    /\ phase' = "search"
    /\ UNCHANGED <<space, tree, visits, reward, scores, rolled, archive, coverage,
                   survivors, passed, recommended, layout>>

\* No point is admissible: run_variation_dse returns None before it searches, and
\* _explore_bilevel searches the catalogue.  Variation points that were introduced
\* but not admitted stay in the text.
FallBack ==
    /\ phase = "start"
    /\ space' = "catalogue" /\ phase' = "search"
    /\ text' \in {"pre", "introduced"}
    /\ UNCHANGED <<tree, visits, reward, scores, rolled, archive, coverage, survivors,
                   passed, recommended, layout, widths, spans>>

\* f with x mapped to y, whether x was in its domain or not.
With(f, x, y) == [e \in DOMAIN f \union {x} |-> IF e = x THEN y ELSE f[e]]
Grown(f, n) == IF n \in DOMAIN f THEN f ELSE With(f, n, 0)
\* Mutant: only the node itself is credited.
MutCreditNode(f, n, k) == [m \in DOMAIN f |-> f[m] + (IF m = n THEN k ELSE 0)]
\* _backpropagate: from the node up to the root.
Credit(f, n, k) == [m \in DOMAIN f |-> f[m] + (IF m \in Path(n) THEN k ELSE 0)]

\* A rollout that ends in design t: an incomplete one is not scored and worth nothing, a
\* complete one is worth the volume that it adds to the archive.
Rollout(new, t) ==
    \/ /\ ~Complete(t)
       /\ reward' = Grown(reward, new)
       /\ UNCHANGED <<scores, archive, rolled>>
    \/ /\ Complete(t)
       /\ \E v \in IF t \in DOMAIN scores THEN {scores[t]} ELSE Vectors :
             scores' = With(scores, t, v)
       /\ archive' = Add(archive, scores', t)
       /\ rolled' = rolled \union {t}
       /\ reward' = Credit(Grown(reward, new), new,
                           Hypervolume(archive', scores') - Hypervolume(archive, scores))

\* One iteration of search: select, expand, simulate, backpropagate.
Iterate ==
    /\ phase = "search" /\ visits[<<>>] < Budget[space]
    /\ \E n \in Selected :
       \E new \in IF Untried(n) = {} THEN {n} ELSE {Append(n, a) : a \in Untried(n)} :
          /\ tree' = tree \union {new}
          /\ visits' = Credit(Grown(visits, new), new, 1)
          /\ \E t \in Rollouts(StateOf(new)) : Rollout(new, t)
    /\ UNCHANGED <<phase, space, coverage, survivors, passed, recommended, layout,
                   widths, spans, text>>

-----------------------------------------------------------------------------
(* The constraint pipeline of run_variation_dse.                           *)

\* Every design is scored when the space is small; otherwise each variant of a seed point
\* is scored once, with a baseline choice for the other points. The tree and its archive
\* are not used any more.
Cover ==
    /\ phase = "search" /\ space = "variation" /\ visits[<<>>] = Budget[space]
    /\ \E mode \in {"exhaustive", "stratified"}, base \in {s \in Designs : Complete(s)} :
       LET forced == IF mode = "exhaustive" THEN {s \in Designs : Complete(s)}
                     ELSE {s \in Designs : /\ Complete(s)
                                           /\ \E p \in Seeds : \A q \in Points \ {p} :
                                                 s[q] = base[q]}
       IN  \E more \in [forced \ DOMAIN scores -> Vectors] :
              /\ scores' = [s \in DOMAIN scores \union forced |->
                               IF s \in DOMAIN scores THEN scores[s] ELSE more[s]]
              /\ coverage' = mode
    /\ survivors' = DOMAIN scores'
    /\ phase' = "gates"
    /\ tree' = {<<>>} /\ visits' = [n \in {<<>>} |-> 0] /\ reward' = [n \in {<<>>} |-> 0]
    /\ rolled' = {} /\ archive' = {}
    /\ UNCHANGED <<space, passed, recommended, layout, widths, spans, text>>

ParetoFront(members) ==
    {s \in members : ~\E o \in members : Dominates(scores[o], scores[s])}

\* The three gates, each on what the one before left: performance and mass, catalogue
\* mapping, Phase 8 closure. A predicate that raises does not pass.
Gates ==
    /\ phase = "gates"
    /\ passed' \in [DOMAIN scores -> 0 .. 3]
    /\ LET estimator == {s \in survivors : passed'[s] >= 1}
           mapped    == {s \in estimator : passed'[s] >= 2}
       IN  survivors' = {s \in mapped : passed'[s] >= 3}
    /\ phase' = "front"
    /\ UNCHANGED <<space, tree, visits, reward, scores, rolled, archive, coverage,
                   recommended, layout, widths, spans, text>>

\* Mutant: the official front is the unconstrained one, filtered.
MutFilterFront == ParetoFront(DOMAIN scores) \intersect survivors
\* _pareto_members: the front is rebuilt from the designs that passed; equals stay.
Official == ParetoFront(survivors)

\* resolve_model: each block is replaced at the span it was parsed at.
Resolved == IF \A i \in Blocks : spans[i] = Offset(i) THEN "resolved" ELSE "garbled"

\* weighted_recommend, or the datasheet rank with its ties, picks one of the official
\* front; _explore_variations hands on the resolved text, or the one from before.
Recommend ==
    /\ phase = "front"
    /\ \/ /\ Official = {}
          /\ recommended' = NoDesign /\ text' = "pre"
       \/ /\ recommended' \in Official
          /\ text' = Resolved
    /\ phase' = "done"
    /\ UNCHANGED <<space, tree, visits, reward, scores, rolled, archive, coverage,
                   survivors, passed, layout, widths, spans>>

\* run_bilevel_dse recommends from the archive; recommend raises on an empty one, and
\* _explore_bilevel goes on without a decision.
RecommendCatalogue ==
    /\ phase = "search" /\ space = "catalogue" /\ visits[<<>>] = Budget[space]
    /\ IF archive = {} THEN recommended' = NoDesign ELSE recommended' \in archive
    /\ phase' = "done"
    /\ UNCHANGED <<space, tree, visits, reward, scores, rolled, archive, coverage,
                   survivors, passed, layout, widths, spans, text>>

Next == \/ DeclareVariations \/ FallBack \/ Iterate \/ Cover \/ Gates
        \/ Recommend \/ RecommendCatalogue

Spec == Init /\ [][Next]_vars

-----------------------------------------------------------------------------
(* Properties.                                                             *)

\* The archive is the Pareto front of all rollouts so far, whatever their order: no member
\* dominates or equals another, and every scored rollout is matched or dominated by a
\* member (mo_mcts.py:77, "Maintains the non-dominated set").
ArchiveIsFront ==
    /\ archive \subseteq rolled
    /\ \A a, b \in archive :
          a # b => ~Dominates(scores[a], scores[b]) /\ scores[a] # scores[b]
    /\ \A s \in rolled : \E a \in archive :
          scores[a] = scores[s] \/ Dominates(scores[a], scores[s])

\* The rewards along every path add up: the root holds the volume of the archive, no
\* rollout is counted twice or lost, and a node's visits are its own rollout and those of
\* its children (mo_mcts.py:207).
SearchAccounts ==
    LET kids(n) == {m \in tree : Len(m) = Len(n) + 1 /\ n \in Path(m)}
    IN  phase = "search" =>
           /\ reward[<<>>] = Hypervolume(archive, scores)
           /\ \A n \in tree : kids(n) # {} =>
                 visits[n] = SumFunctionOnSet(visits, kids(n)) + (IF n = <<>> THEN 0 ELSE 1)
           /\ \A n \in tree : reward[n] >= SumFunctionOnSet(reward, kids(n))

\* The recommended design passes every gate and no design that passes them all dominates
\* it, among all designs of a space that was covered exhaustively; there is no
\* recommendation only if no such design exists (variation_dse.py:432, "constrained
\* multi-objective optimisation rather than a filter over an unconstrained front").
RecommendedIsBest ==
    phase = "done" /\ space = "variation" =>
       LET good == {s \in DOMAIN scores : passed[s] = 3}
       IN  /\ coverage = "exhaustive" => \A s \in Designs : Complete(s) => s \in DOMAIN scores
           /\ recommended = NoDesign <=> good = {}
           /\ recommended # NoDesign =>
                 /\ recommended \in good
                 /\ \A s \in good : ~Dominates(scores[s], scores[recommended])

\* "Return concrete SysML with each variation point bound to its chosen variant"
\* (variation_parser.py:111): the recommended model is handed on with every block replaced
\* at its place in the text it is replaced in.
ConcreteIsResolved ==
    phase = "done" /\ space = "variation" /\ recommended # NoDesign => text = "resolved"
=============================================================================
