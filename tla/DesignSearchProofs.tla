------------------------- MODULE DesignSearchProofs -------------------------
(***************************************************************************)
(* Proofs about DesignSearch, for any points, variants, vectors, gates and *)
(* budgets.  Dominance is a strict partial order, so an archive that       *)
(* refuses what is dominated and drops what becomes dominated is the front *)
(* of everything it was given, in any order; and a finite set of designs   *)
(* that pass every gate has a member that none of them dominates.  What a  *)
(* rollout is worth reaches every node on its path by exactly one child,   *)
(* so the visits and rewards add up along the tree.                        *)
(***************************************************************************)
EXTENDS DesignSearch, FiniteSetTheorems, FunctionTheorems, SequenceTheorems,
        WellFoundedInduction, TLAPS

\* What ArchiveIsFront says, of any members of a set of designs seen.
Front(members, seen, score) ==
  /\ members \subseteq seen
  /\ \A a, b \in members :
        a # b => ~Dominates(score[a], score[b]) /\ score[a] # score[b]
  /\ \A s \in seen : \E a \in members :
        score[a] = score[s] \/ Dominates(score[a], score[s])

Good == {s \in DOMAIN scores : passed[s] = 3}

Scored ==
  /\ scores \in [DOMAIN scores -> Vectors]
  /\ \A s \in DOMAIN scores : Complete(s) /\ s \in [Points -> 0 .. MaxVariant]

Archived == rolled \subseteq DOMAIN scores /\ Front(archive, rolled, scores)

\* What the pipeline has established when it enters a phase.
Staged ==
  /\ phase \in {"start", "search", "gates", "front", "done"}
  /\ phase \in {"start", "search"} => coverage = "none"
  /\ phase \in {"gates", "front"} => space = "variation"
  /\ phase = "gates" => survivors = DOMAIN scores
  /\ phase = "front" => survivors = Good
  /\ coverage = "exhaustive" => \A s \in Designs : Complete(s) => s \in DOMAIN scores

SearchInv == Scored /\ Archived /\ Staged /\ RecommendedIsBest

-----------------------------------------------------------------------------
(* Dominance                                                               *)

\* Dominance is transitive and irreflexive on objective vectors.
LEMMA DominanceOrder ==
  ASSUME NEW a \in Vectors, NEW b \in Vectors, NEW c \in Vectors
  PROVE  /\ ~Dominates(a, a)
         /\ Dominates(a, b) /\ Dominates(b, c) => Dominates(a, c)
<1>1. \A d \in Dims : a[d] \in Nat /\ b[d] \in Nat /\ c[d] \in Nat
  BY VectorsAssumption
<1>2. ~Dominates(a, a)
  BY <1>1 DEF Dominates
<1>3. ASSUME Dominates(a, b), Dominates(b, c) PROVE Dominates(a, c)
  <2>1. PICK e \in Dims : a[e] > b[e]
    BY <1>3 DEF Dominates
  <2>2. \A d \in Dims : a[d] >= b[d] /\ b[d] >= c[d]
    BY <1>3 DEF Dominates
  <2>3. \A d \in Dims : a[d] >= c[d]
    BY <1>1, <2>2
  <2>4. a[e] > c[e]
    BY <1>1, <2>1, <2>2
  <2>5. QED
    BY <2>3, <2>4 DEF Dominates
<1>4. QED
  BY <1>2, <1>3

\* ParetoArchive.add keeps the front, with the new design among those seen.
LEMMA AddFront ==
  ASSUME NEW D, NEW score \in [D -> Vectors], NEW seen \in SUBSET D,
         NEW members, Front(members, seen, score), NEW s \in D
  PROVE  Front(Add(members, score, s), seen \union {s}, score)
<1>1. members \subseteq D /\ score[s] \in Vectors /\ \A a \in D : score[a] \in Vectors
  BY DEF Front
<1>2. CASE \E m \in members : Dominates(score[m], score[s]) \/ score[m] = score[s]
  <2>1. Add(members, score, s) = members
    BY <1>2 DEF Add
  <2>2. QED
    BY <1>2, <2>1 DEF Front
<1>3. CASE ~\E m \in members : Dominates(score[m], score[s]) \/ score[m] = score[s]
  <2> DEFINE kept == {m \in members : ~Dominates(score[s], score[m])}
  <2>1. Add(members, score, s) = kept \union {s}
    BY <1>3 DEF Add
  <2>2. kept \union {s} \subseteq seen \union {s}
    BY DEF Front
  <2>3. ASSUME NEW a \in kept \union {s}, NEW b \in kept \union {s}, a # b
        PROVE  ~Dominates(score[a], score[b]) /\ score[a] # score[b]
    BY <1>3, <2>3 DEF Front
  <2>4. ASSUME NEW t \in seen \union {s}
        PROVE  \E a \in kept \union {s} : score[a] = score[t] \/ Dominates(score[a], score[t])
    <3>1. CASE t = s
      BY <3>1
    <3>2. CASE t \in seen
      <4>1. PICK m \in members : score[m] = score[t] \/ Dominates(score[m], score[t])
        BY <3>2 DEF Front
      <4>2. CASE m \in kept
        BY <4>1, <4>2
      <4>3. CASE m \notin kept
        <5>1. Dominates(score[s], score[m])
          BY <4>3
        <5>2. t \in D /\ m \in D
          BY <1>1, <3>2
        <5>3. score[s] \in Vectors /\ score[m] \in Vectors /\ score[t] \in Vectors
          BY <1>1, <5>2
        <5>4. Dominates(score[s], score[t])
          BY <4>1, <5>1, <5>3, DominanceOrder
        <5>5. QED
          BY <5>4
      <4>4. QED
        BY <4>2, <4>3
    <3>3. QED
      BY <3>1, <3>2
  <2>5. QED
    BY <2>1, <2>2, <2>3, <2>4 DEF Front
<1>4. QED
  BY <1>2, <1>3

\* There are finitely many functions to an interval: each is a set of pairs.
LEMMA FunctionsFinite ==
  ASSUME NEW D, IsFiniteSet(D), NEW n \in Nat
  PROVE  IsFiniteSet([D -> 0 .. n])
<1> DEFINE S == [D -> 0 .. n]
           T == SUBSET (D \X (0 .. n))
           graph == [s \in S |-> {<<p, s[p]>> : p \in D}]
<1>1. IsFiniteSet(T)
  <2>1. IsFiniteSet(0 .. n)
    BY FS_Interval
  <2>2. IsFiniteSet(D \X (0 .. n))
    BY <2>1, FS_Product
  <2>3. QED
    BY <2>2, FS_SUBSET
<1>2. graph \in [S -> T]
  OBVIOUS
<1>3. ASSUME NEW s \in S, NEW t \in S, graph[s] = graph[t] PROVE s = t
  <2>1. ASSUME NEW p \in D PROVE s[p] = t[p]
    <3>1. <<p, s[p]>> \in {<<q, t[q]>> : q \in D}
      BY <1>3
    <3>2. QED
      BY <3>1
  <2>2. QED
    BY <2>1
<1>4. graph \in Injection(S, T)
  BY <1>2, <1>3, Fun_IsInj
<1>5. QED
  BY <1>1, <1>4, FS_Injection

\* There are finitely many designs.
LEMMA DesignsFinite == IsFiniteSet([Points -> 0 .. MaxVariant])
BY PointsAssumption, SpacesAssumption, FunctionsFinite

\* Among finitely many designs, if there are any, one is dominated by none of them.
LEMMA FrontExists ==
  ASSUME NEW D, NEW score \in [D -> Vectors], NEW S \in SUBSET D, IsFiniteSet(S), S # {}
  PROVE  \E s \in S : ~\E o \in S : Dominates(score[o], score[s])
<1> DEFINE above(s) == {o \in S : Dominates(score[o], score[s])}
           sets == {above(s) : s \in S}
<1>1. IsWellFoundedOn(StrictSubsetOrdering(S), FiniteSubsetsOf(S))
  BY FS_StrictSubsetOrderingWellFounded
<1>2. sets \subseteq FiniteSubsetsOf(S) /\ sets # {}
  <2>1. ASSUME NEW s \in S PROVE above(s) \in FiniteSubsetsOf(S)
    BY FS_Subset DEF FiniteSubsetsOf
  <2>2. QED
    BY <2>1
<1>3. PICK x \in sets : \A y \in sets : ~(<<y, x>> \in StrictSubsetOrdering(S))
  BY <1>1, <1>2, WFMin
<1>4. PICK s \in S : x = above(s)
  OBVIOUS
<1>5. ASSUME NEW o \in S, Dominates(score[o], score[s]) PROVE FALSE
  <2>1. score[o] \in Vectors /\ score[s] \in Vectors /\ \A t \in S : score[t] \in Vectors
    OBVIOUS
  <2>2. above(o) \subseteq above(s)
    <3>1. ASSUME NEW t \in S, Dominates(score[t], score[o])
          PROVE  Dominates(score[t], score[s])
      BY <1>5, <2>1, <3>1, DominanceOrder
    <3>2. QED
      BY <3>1
  <2>3. o \in above(s) /\ o \notin above(o)
    BY <1>5, <2>1, DominanceOrder
  <2>4. <<above(o), above(s)>> \in StrictSubsetOrdering(S)
    BY <2>2, <2>3 DEF StrictSubsetOrdering
  <2>5. QED
    BY <1>3, <1>4, <2>4
<1>6. QED
  BY <1>5
\* A front is about the scores of its designs only.
LEMMA SameScores ==
  ASSUME NEW D, NEW seen \in SUBSET D, NEW members, NEW old, NEW new,
         Front(members, seen, old), \A s \in seen : new[s] = old[s]
  PROVE  Front(members, seen, new)
BY DEF Front

LEMMA EmptyFront == \A score : Front({}, {}, score)
BY DEF Front

-----------------------------------------------------------------------------
LEMMA InitInv == Init => SearchInv
<1> SUFFICES ASSUME Init PROVE SearchInv
  OBVIOUS
<1>1. DOMAIN scores = {} /\ scores \in [{} -> Vectors]
  BY DEF Init
<1>2. Scored
  BY <1>1 DEF Scored
<1>3. Archived
  BY EmptyFront DEF Init, Archived
<1>4. Staged /\ RecommendedIsBest
  BY DEF Init, Staged, RecommendedIsBest
<1>5. QED
  BY <1>2, <1>3, <1>4 DEF SearchInv

\* Declaring the variation points or falling back to the catalogue scores nothing.
LEMMA StartInv ==
  ASSUME SearchInv, DeclareVariations \/ FallBack
  PROVE  SearchInv'
<1>1. /\ phase = "start" /\ phase' = "search" /\ coverage' = "none"
      /\ UNCHANGED <<scores, rolled, archive>>
  BY DEF SearchInv, Staged, DeclareVariations, FallBack
<1>2. Scored' /\ Archived'
  BY <1>1 DEF SearchInv, Scored, Archived, Complete
<1>3. Staged' /\ RecommendedIsBest'
  BY <1>1 DEF Staged, RecommendedIsBest
<1>4. QED
  BY <1>2, <1>3 DEF SearchInv

\* A rollout that is scored joins the archive as ParetoArchive.add lets it.
LEMMA RolloutInv ==
  ASSUME Scored, Archived, NEW new, NEW t \in Designs, Rollout(new, t)
  PROVE  Scored' /\ Archived'
<1>1. CASE UNCHANGED <<scores, archive, rolled>>
  BY <1>1 DEF Scored, Archived, Complete
<1>2. CASE Complete(t)
  <2>1. PICK v \in IF t \in DOMAIN scores THEN {scores[t]} ELSE Vectors :
          scores' = With(scores, t, v)
    BY <1>2 DEF Rollout
  <2>2. archive' = Add(archive, scores', t) /\ rolled' = rolled \union {t}
    BY <1>2 DEF Rollout
  <2>3. v \in Vectors
    BY <2>1 DEF Scored
  <2>4. /\ DOMAIN scores' = DOMAIN scores \union {t}
        /\ scores' \in [DOMAIN scores' -> Vectors]
        /\ \A s \in DOMAIN scores : scores'[s] = scores[s]
    BY <2>1, <2>3 DEF With, Scored
  <2>5. Scored'
    <3>1. t \in [Points -> 0 .. MaxVariant] /\ Complete(t)
      BY <1>2 DEF Designs
    <3>2. QED
      BY <2>4, <3>1 DEF Scored, Complete
  <2>6. Front(archive, rolled, scores')
    <3>1. rolled \subseteq DOMAIN scores /\ Front(archive, rolled, scores)
      BY DEF Archived
    <3>2. QED
      BY <2>4, <3>1, SameScores
  <2>7. Front(archive', rolled', scores')
    <3>1. rolled \subseteq DOMAIN scores' /\ t \in DOMAIN scores'
      BY <2>4 DEF Archived
    <3>2. QED
      BY <2>2, <2>4, <2>6, <3>1, AddFront
  <2>8. Archived'
    BY <2>2, <2>4, <2>7 DEF Archived
  <2>9. QED
    BY <2>5, <2>8
<1>3. QED
  BY <1>1, <1>2 DEF Rollout

LEMMA IterateInv ==
  ASSUME SearchInv, Iterate
  PROVE  SearchInv'
<1>1. PICK new : \E t \in Designs : Rollout(new, t)
  <2>1. ASSUME NEW s PROVE Rollouts(s) \subseteq Designs
    BY DEF Rollouts
  <2>2. \E new : \E t \in Rollouts(StateOf(new)) : Rollout(new, t)
    BY DEF Iterate
  <2>3. QED
    BY <2>1, <2>2
<1>2. Scored' /\ Archived'
  BY <1>1, RolloutInv DEF SearchInv
<1>3. /\ phase = "search" /\ phase' = "search" /\ coverage' = coverage
  BY DEF Iterate
<1>4. Staged' /\ RecommendedIsBest'
  BY <1>3 DEF SearchInv, Staged, RecommendedIsBest
<1>5. QED
  BY <1>2, <1>4 DEF SearchInv

\* An exhaustive coverage scores every complete design of the space.
LEMMA CoverInv ==
  ASSUME SearchInv, Cover
  PROVE  SearchInv'
<1>1. /\ space = "variation" /\ space' = space /\ phase' = "gates"
      /\ survivors' = DOMAIN scores' /\ rolled' = {} /\ archive' = {}
  BY DEF Cover
<1>2. PICK mode \in {"exhaustive", "stratified"}, forced \in SUBSET {s \in Designs : Complete(s)} :
        /\ mode = "exhaustive" => forced = {s \in Designs : Complete(s)}
        /\ coverage' = mode
        /\ \E more \in [forced \ DOMAIN scores -> Vectors] :
              scores' = [s \in DOMAIN scores \union forced |->
                           IF s \in DOMAIN scores THEN scores[s] ELSE more[s]]
  <2>1. PICK mode \in {"exhaustive", "stratified"}, base \in {s \in Designs : Complete(s)} :
          LET all == IF mode = "exhaustive" THEN {s \in Designs : Complete(s)}
                     ELSE {s \in Designs : /\ Complete(s)
                                           /\ \E p \in Seeds : \A q \in Points \ {p} :
                                                 s[q] = base[q]}
          IN  \E more \in [all \ DOMAIN scores -> Vectors] :
                 /\ scores' = [s \in DOMAIN scores \union all |->
                                  IF s \in DOMAIN scores THEN scores[s] ELSE more[s]]
                 /\ coverage' = mode
    BY DEF Cover
  <2> DEFINE forced == IF mode = "exhaustive" THEN {s \in Designs : Complete(s)}
                       ELSE {s \in Designs : /\ Complete(s)
                                             /\ \E p \in Seeds : \A q \in Points \ {p} :
                                                   s[q] = base[q]}
  <2>2. forced \in SUBSET {s \in Designs : Complete(s)}
    OBVIOUS
  <2>3. mode = "exhaustive" => forced = {s \in Designs : Complete(s)}
    OBVIOUS
  <2>4. QED
    BY <2>1, <2>2, <2>3
<1>3. /\ DOMAIN scores' = DOMAIN scores \union forced
      /\ scores' \in [DOMAIN scores' -> Vectors]
  BY <1>2 DEF SearchInv, Scored
<1>4. Scored'
  <2>1. \A s \in forced : s \in [Points -> 0 .. MaxVariant] /\ Complete(s)
    BY <1>2 DEF Designs
  <2>2. QED
    BY <1>3, <2>1 DEF SearchInv, Scored, Complete
<1>5. Archived'
  BY <1>1, EmptyFront DEF Archived
<1>6. Staged'
  <2>1. Designs' = Designs
    BY <1>1 DEF Designs, Feasible
  <2>2. coverage' = "exhaustive" => \A s \in Designs : Complete(s) => s \in DOMAIN scores'
    BY <1>2, <1>3
  <2>3. QED
    BY <1>1, <2>1, <2>2 DEF Staged, Complete
<1>7. RecommendedIsBest'
  BY <1>1 DEF RecommendedIsBest
<1>8. QED
  BY <1>4, <1>5, <1>6, <1>7 DEF SearchInv

\* The three gates, one after the other, leave the designs that pass all of them.
LEMMA GatesInv ==
  ASSUME SearchInv, Gates
  PROVE  SearchInv'
<1>1. /\ phase = "gates" /\ phase' = "front" /\ survivors = DOMAIN scores
      /\ UNCHANGED <<space, scores, rolled, archive, coverage>>
      /\ passed' \in [DOMAIN scores -> 0 .. 3]
      /\ space = "variation"
  BY DEF SearchInv, Staged, Gates
<1>2. survivors' = Good'
  <2>1. \A s \in DOMAIN scores : passed'[s] \in 0 .. 3
    BY <1>1
  <2>2. survivors' = {s \in DOMAIN scores :
                        passed'[s] >= 1 /\ passed'[s] >= 2 /\ passed'[s] >= 3}
    BY <1>1 DEF Gates
  <2>3. \A n \in 0 .. 3 : (n >= 1 /\ n >= 2 /\ n >= 3) <=> n = 3
    OBVIOUS
  <2>4. QED
    BY <1>1, <2>1, <2>2, <2>3 DEF Good
<1>3. Scored' /\ Archived'
  BY <1>1 DEF SearchInv, Scored, Archived, Complete
<1>4. Staged'
  <2>1. Designs' = Designs
    BY <1>1 DEF Designs, Feasible
  <2>2. QED
    BY <1>1, <1>2, <2>1 DEF SearchInv, Staged, Complete
<1>5. RecommendedIsBest'
  BY <1>1 DEF RecommendedIsBest
<1>6. QED
  BY <1>3, <1>4, <1>5 DEF SearchInv

\* The official front is empty only when no design passes every gate, and what it holds
\* is never dominated by one that does.
LEMMA OfficialFront ==
  ASSUME Scored, survivors = Good
  PROVE  /\ Official = {} <=> Good = {}
         /\ NoDesign \notin Good
         /\ \A s \in Official : /\ s \in Good
                                /\ \A o \in Good : ~Dominates(scores[o], scores[s])
<1>1. Official = {s \in Good : ~\E o \in Good : Dominates(scores[o], scores[s])}
  BY DEF Official, ParetoFront
<1>2. ASSUME Good # {} PROVE Official # {}
  <2>1. Good \subseteq [Points -> 0 .. MaxVariant] /\ Good \in SUBSET DOMAIN scores
    BY DEF Good, Scored
  <2>2. IsFiniteSet(Good)
    BY <2>1, DesignsFinite, FS_Subset
  <2>3. \E s \in Good : ~\E o \in Good : Dominates(scores[o], scores[s])
    BY <1>2, <2>1, <2>2, FrontExists DEF Scored
  <2>4. QED
    BY <1>1, <2>3
<1>3. NoDesign \notin Good
  <2>1. ~Complete(NoDesign)
    BY PointsAssumption DEF Complete, NoDesign
  <2>2. QED
    BY <2>1 DEF Good, Scored
<1>4. QED
  BY <1>1, <1>2, <1>3

LEMMA RecommendInv ==
  ASSUME SearchInv, Recommend
  PROVE  SearchInv'
<1>1. /\ phase = "front" /\ phase' = "done" /\ survivors = Good /\ Scored
      /\ UNCHANGED <<space, scores, rolled, archive, coverage, survivors, passed>>
      /\ \/ Official = {} /\ recommended' = NoDesign
         \/ recommended' \in Official
  BY DEF SearchInv, Staged, Recommend
<1>2. Scored' /\ Archived'
  BY <1>1 DEF SearchInv, Scored, Archived, Complete
<1>3. Designs' = Designs /\ Good' = Good
  BY <1>1 DEF Designs, Feasible, Good
<1>4. Staged'
  BY <1>1, <1>3 DEF SearchInv, Staged, Complete
<1>5. /\ recommended' = NoDesign <=> Good = {}
      /\ recommended' # NoDesign =>
           /\ recommended' \in Good
           /\ \A s \in Good : ~Dominates(scores[s], scores[recommended'])
  BY <1>1, OfficialFront
<1>6. RecommendedIsBest'
  <2>1. coverage = "exhaustive" => \A s \in Designs : Complete(s) => s \in DOMAIN scores
    BY DEF SearchInv, Staged
  <2>2. QED
    BY <1>1, <1>3, <1>5, <2>1 DEF RecommendedIsBest, Good, Complete
<1>7. QED
  BY <1>2, <1>4, <1>6 DEF SearchInv

LEMMA RecommendCatalogueInv ==
  ASSUME SearchInv, RecommendCatalogue
  PROVE  SearchInv'
<1>1. /\ phase = "search" /\ phase' = "done" /\ space' = "catalogue" /\ coverage' = "none"
      /\ UNCHANGED <<scores, rolled, archive>>
  BY DEF SearchInv, Staged, RecommendCatalogue
<1>2. Scored' /\ Archived'
  BY <1>1 DEF SearchInv, Scored, Archived, Complete
<1>3. Staged' /\ RecommendedIsBest'
  BY <1>1 DEF Staged, RecommendedIsBest
<1>4. QED
  BY <1>2, <1>3 DEF SearchInv

-----------------------------------------------------------------------------
LEMMA NextInv == SearchInv /\ [Next]_vars => SearchInv'
<1> SUFFICES ASSUME SearchInv, [Next]_vars PROVE SearchInv'
  OBVIOUS
<1>1. CASE DeclareVariations \/ FallBack
  BY <1>1, StartInv
<1>2. CASE Iterate
  BY <1>2, IterateInv
<1>3. CASE Cover
  BY <1>3, CoverInv
<1>4. CASE Gates
  BY <1>4, GatesInv
<1>5. CASE Recommend
  BY <1>5, RecommendInv
<1>6. CASE RecommendCatalogue
  BY <1>6, RecommendCatalogueInv
<1>7. CASE UNCHANGED vars
  <2>1. UNCHANGED <<phase, space, scores, rolled, archive, coverage, survivors, passed,
                    recommended>>
    BY <1>7 DEF vars
  <2>2. Designs' = Designs /\ Good' = Good
    BY <2>1 DEF Designs, Feasible, Good
  <2>3. Scored' /\ Archived'
    BY <2>1 DEF SearchInv, Scored, Archived, Complete
  <2>4. Staged' /\ RecommendedIsBest'
    BY <2>1, <2>2 DEF SearchInv, Staged, RecommendedIsBest, Complete
  <2>5. QED
    BY <2>3, <2>4 DEF SearchInv
<1>8. QED
  BY <1>1, <1>2, <1>3, <1>4, <1>5, <1>6, <1>7 DEF Next

LEMMA SearchInvariant == Spec => []SearchInv
<1>1. QED
  BY InitInv, NextInv, PTL DEF Spec

\* The archive is the Pareto front of everything that was rolled out, whatever the order.
THEOREM ArchiveCorrect == Spec => []ArchiveIsFront
<1>1. SearchInv => ArchiveIsFront
  BY DEF SearchInv, Archived, Front, ArchiveIsFront
<1>2. QED
  BY <1>1, SearchInvariant, PTL

\* The recommended design passes every gate, no design that does dominates it, and there
\* is one whenever a design passes.
THEOREM RecommendationBest == Spec => []RecommendedIsBest
<1>1. SearchInv => RecommendedIsBest
  BY DEF SearchInv
<1>2. QED
  BY <1>1, SearchInvariant, PTL

-----------------------------------------------------------------------------
(* Sums over finite sets.                                                  *)

\* Induction on the parts of a finite set.
LEMMA SubsetInduction ==
  ASSUME NEW S, IsFiniteSet(S), NEW G,
         \A T \in SUBSET S : (\A U \in SUBSET T : U # T => U \in G) => T \in G
  PROVE  \A T \in SUBSET S : T \in G
<1> DEFINE bad == {T \in SUBSET S : T \notin G}
<1> SUFFICES ASSUME bad # {} PROVE FALSE
  OBVIOUS
<1>1. IsWellFoundedOn(StrictSubsetOrdering(S), FiniteSubsetsOf(S))
  BY FS_StrictSubsetOrderingWellFounded
<1>2. bad \subseteq FiniteSubsetsOf(S)
  BY FS_FiniteSubsetsOfFinite
<1> HIDE DEF bad
<1>3. PICK T \in bad : \A U \in bad : ~(<<U, T>> \in StrictSubsetOrdering(S))
  BY <1>1, <1>2, WFMin
<1>4. T \in SUBSET S /\ T \notin G
  BY <1>3 DEF bad
<1>5. ASSUME NEW U \in SUBSET T, U # T PROVE U \in G
  BY <1>3, <1>4, <1>5 DEF StrictSubsetOrdering, bad
<1>6. QED
  BY <1>4, <1>5

Any(s) == CHOOSE x \in s : TRUE
Rest(s) == s \ {Any(s)}

\* h is the sum of f, over every part of S.
SumsTo(f, S, h) ==
  h = [s \in SUBSET S |-> IF s = {} THEN 0 ELSE f[Any(s)] + h[Rest(s)]]

\* SumFunctionOnSet folds over the elements, one that CHOOSE takes first.
LEMMA SumDef ==
  \A f, S : SumFunctionOnSet(f, S) = (CHOOSE h : SumsTo(f, S, h))[S]
BY DEF SumFunctionOnSet, FoldFunctionOnSet, MapThenFoldSet, SumsTo, Any, Rest

\* The rest of a set is a smaller part of it.
LEMMA RestIsLess == \A s : s # {} => /\ Any(s) \in s /\ Any(s) \notin Rest(s)
                                     /\ Rest(s) \subseteq s /\ Rest(s) # s
BY DEF Any, Rest

\* What SumsTo says of one part.
LEMMA SumsAt ==
  ASSUME NEW f, NEW S, NEW h, SumsTo(f, S, h), NEW s \in SUBSET S
  PROVE  /\ h[{}] = 0
         /\ s # {} => h[s] = f[Any(s)] + h[Rest(s)]
<1>1. h[s] = IF s = {} THEN 0 ELSE f[Any(s)] + h[Rest(s)]
  BY DEF SumsTo
<1>2. h[{}] = 0
  BY DEF SumsTo
<1>3. QED
  BY <1>1, <1>2

\* Two such functions agree wherever both are defined.
LEMMA SumsUnique ==
  ASSUME NEW f, NEW S, IsFiniteSet(S), NEW T \in SUBSET S, NEW g, NEW h,
         SumsTo(f, S, g), SumsTo(f, T, h)
  PROVE  \A s \in SUBSET T : g[s] = h[s]
<1> DEFINE G == {s \in SUBSET T : g[s] = h[s]}
<1>1. IsFiniteSet(T)
  BY FS_Subset
<1>2. ASSUME NEW s \in SUBSET T, \A U \in SUBSET s : U # s => U \in G PROVE s \in G
  <2>1. CASE s = {}
    BY <2>1, SumsAt
  <2>2. CASE s # {}
    <3>1. Rest(s) \in SUBSET s /\ Rest(s) # s
      BY <2>2, RestIsLess
    <3>2. Rest(s) \in G
      BY <1>2, <3>1
    <3>3. s \in SUBSET S
      OBVIOUS
    <3>4. g[s] = f[Any(s)] + g[Rest(s)]
      BY <2>2, <3>3, SumsAt
    <3>5. h[s] = f[Any(s)] + h[Rest(s)]
      BY <2>2, SumsAt
    <3>6. QED
      BY <3>2, <3>4, <3>5
  <2>3. QED
    BY <2>1, <2>2
<1> HIDE DEF G
<1>3. \A s \in SUBSET T : s \in G
  BY <1>1, <1>2, SubsetInduction
<1>4. QED
  BY <1>3 DEF G

\* There is one for every finite set.
LEMMA SumsExist ==
  ASSUME NEW f, NEW S, IsFiniteSet(S)
  PROVE  \E h : SumsTo(f, S, h)
<1> DEFINE Sums(T) == CHOOSE h : SumsTo(f, T, h)
           G == {T \in SUBSET S : SumsTo(f, T, Sums(T))}
<1>1. ASSUME NEW T \in SUBSET S, \A U \in SUBSET T : U # T => U \in G PROVE T \in G
  <2> DEFINE h == [s \in SUBSET T |->
                     IF s = {} THEN 0
                     ELSE f[Any(s)] + Sums(Rest(s))[Rest(s)]]
  <2>1. ASSUME NEW u \in SUBSET T, u # T PROVE h[u] = Sums(u)[u]
    <3>1. SumsTo(f, u, Sums(u)) /\ IsFiniteSet(u)
      BY <1>1, <2>1, FS_Subset
    <3>2. CASE u = {}
      BY <3>1, <3>2, SumsAt
    <3>3. CASE u # {}
      <4> DEFINE v == Rest(u)
      <4>1. v \in SUBSET u /\ v \in SUBSET T /\ v # T
        BY <3>3, RestIsLess
      <4>2. SumsTo(f, v, Sums(v))
        BY <1>1, <4>1
      <4> HIDE DEF Sums, v
      <4>3. Sums(u)[v] = Sums(v)[v]
        BY <3>1, <4>1, <4>2, SumsUnique
      <4>4. Sums(u)[u] = f[Any(u)] + Sums(u)[v]
        BY <3>1, <3>3, SumsAt DEF v
      <4>5. h[u] = f[Any(u)] + Sums(v)[v]
        BY <3>3 DEF v
      <4>6. QED
        BY <4>3, <4>4, <4>5
    <3>4. QED
      BY <3>2, <3>3
  <2>2. ASSUME NEW s \in SUBSET T, s # {}
        PROVE  Sums(Rest(s))[Rest(s)] = h[Rest(s)]
    <3>1. Rest(s) \in SUBSET T /\ Rest(s) # T
      BY <2>2, RestIsLess
    <3> HIDE DEF h, Sums
    <3>2. QED
      BY <2>1, <3>1
  <2>3. SumsTo(f, T, h)
    <3> HIDE DEF Sums
    <3>1. h = [s \in SUBSET T |-> IF s = {} THEN 0 ELSE f[Any(s)] + h[Rest(s)]]
      BY <2>2
    <3> HIDE DEF h
    <3>2. QED
      BY <3>1 DEF SumsTo
  <2> HIDE DEF h
  <2>4. SumsTo(f, T, Sums(T))
    BY <2>3
  <2>5. QED
    BY <2>4
<1> HIDE DEF G
<1>2. \A T \in SUBSET S : T \in G
  BY <1>1, SubsetInduction
<1>3. S \in G
  BY <1>2
<1>4. QED
  BY <1>3 DEF G

\* The sum of nothing is 0; that of a set is its chosen element's and the rest's.
LEMMA SumRecursive ==
  ASSUME NEW f, NEW S, IsFiniteSet(S)
  PROVE  /\ SumFunctionOnSet(f, {}) = 0
         /\ S # {} => SumFunctionOnSet(f, S)
                        = f[Any(S)] + SumFunctionOnSet(f, Rest(S))
<1> DEFINE Sums(T) == CHOOSE h : SumsTo(f, T, h)
<1>1. ASSUME NEW T, IsFiniteSet(T) PROVE SumsTo(f, T, Sums(T))
  BY <1>1, SumsExist
<1>2. \A T : SumFunctionOnSet(f, T) = Sums(T)[T]
  BY SumDef
<1> HIDE DEF Sums
<1>3. SumFunctionOnSet(f, {}) = 0
  <2>1. SumsTo(f, {}, Sums({}))
    BY <1>1, FS_EmptySet
  <2>2. QED
    BY <1>2, <2>1, SumsAt
<1>4. ASSUME S # {}
      PROVE  SumFunctionOnSet(f, S) = f[Any(S)] + SumFunctionOnSet(f, Rest(S))
  <2> DEFINE R == Rest(S)
  <2>1. R \in SUBSET S /\ IsFiniteSet(R)
    BY <1>4, RestIsLess, FS_Subset
  <2>2. SumsTo(f, S, Sums(S)) /\ SumsTo(f, R, Sums(R))
    BY <1>1, <2>1
  <2>3. Sums(S)[R] = Sums(R)[R]
    <3> HIDE DEF R
    <3>1. QED
      BY <2>1, <2>2, SumsUnique
  <2>4. Sums(S)[S] = f[Any(S)] + Sums(S)[R]
    BY <1>4, <2>2, SumsAt
  <2>5. QED
    BY <1>2, <2>3, <2>4
<1>5. QED
  BY <1>3, <1>4

\* What is summed decides the sum, which is an integer when all of it is.
LEMMA SumSame ==
  ASSUME NEW f, NEW g, NEW S, IsFiniteSet(S), \A x \in S : f[x] = g[x] /\ f[x] \in Int
  PROVE  /\ SumFunctionOnSet(f, S) = SumFunctionOnSet(g, S)
         /\ SumFunctionOnSet(f, S) \in Int
<1> DEFINE G == {T \in SUBSET S : /\ SumFunctionOnSet(f, T) = SumFunctionOnSet(g, T)
                                  /\ SumFunctionOnSet(f, T) \in Int}
<1>1. ASSUME NEW T \in SUBSET S, \A U \in SUBSET T : U # T => U \in G PROVE T \in G
  <2>1. IsFiniteSet(T)
    BY FS_Subset
  <2>2. SumFunctionOnSet(f, {}) = 0 /\ SumFunctionOnSet(g, {}) = 0
    BY FS_EmptySet, SumRecursive
  <2>3. CASE T = {}
    BY <2>3, <2>2
  <2>4. CASE T # {}
    <3>1. /\ Rest(T) \in SUBSET T /\ Rest(T) # T
          /\ Any(T) \in S
      BY <2>4, RestIsLess
    <3>2. Rest(T) \in G
      BY <1>1, <3>1
    <3>3. /\ SumFunctionOnSet(f, T) = f[Any(T)] + SumFunctionOnSet(f, Rest(T))
          /\ SumFunctionOnSet(g, T) = g[Any(T)] + SumFunctionOnSet(g, Rest(T))
      BY <2>1, <2>4, SumRecursive
    <3>4. QED
      BY <3>1, <3>2, <3>3
  <2>5. QED
    BY <2>3, <2>4
<1> HIDE DEF G
<1>2. \A T \in SUBSET S : T \in G
  BY <1>1, SubsetInduction
<1>3. QED
  BY <1>2 DEF G

\* Any element may be the one added last.
LEMMA SumWithout ==
  ASSUME NEW f, NEW S, IsFiniteSet(S), \A x \in S : f[x] \in Int
  PROVE  \A x \in S : SumFunctionOnSet(f, S) = f[x] + SumFunctionOnSet(f, S \ {x})
<1> DEFINE G == {T \in SUBSET S : \A x \in T :
                   SumFunctionOnSet(f, T) = f[x] + SumFunctionOnSet(f, T \ {x})}
<1>1. ASSUME NEW T \in SUBSET S
      PROVE  IsFiniteSet(T) /\ SumFunctionOnSet(f, T) \in Int
  <2>1. IsFiniteSet(T) /\ \A x \in T : f[x] \in Int
    BY FS_Subset
  <2>2. QED
    BY <2>1, SumSame
<1>2. ASSUME NEW T \in SUBSET S, \A U \in SUBSET T : U # T => U \in G PROVE T \in G
  <2>1. ASSUME NEW x \in T
        PROVE  SumFunctionOnSet(f, T) = f[x] + SumFunctionOnSet(f, T \ {x})
    <3> DEFINE c == Any(T)
    <3>1. SumFunctionOnSet(f, T) = f[c] + SumFunctionOnSet(f, T \ {c})
      <4>1. Rest(T) = T \ {c}
        BY DEF Rest
      <4>2. T # {}
        OBVIOUS
      <4>3. QED
        BY <1>1, <4>1, <4>2, SumRecursive
    <3>2. CASE x = c
      BY <3>1, <3>2
    <3>3. CASE x # c
      <4>1. c \in T
        BY RestIsLess
      <4> HIDE DEF c
      <4>2. T \ {c} \in G /\ T \ {x} \in G
        BY <1>2, <4>1
      <4>3. SumFunctionOnSet(f, T \ {c}) = f[x] + SumFunctionOnSet(f, (T \ {c}) \ {x})
        BY <3>3, <4>2
      <4>4. SumFunctionOnSet(f, T \ {x}) = f[c] + SumFunctionOnSet(f, (T \ {x}) \ {c})
        BY <3>3, <4>1, <4>2
      <4> DEFINE rest == SumFunctionOnSet(f, (T \ {c}) \ {x})
      <4>5. (T \ {x}) \ {c} = (T \ {c}) \ {x} /\ (T \ {c}) \ {x} \in SUBSET S
        OBVIOUS
      <4>6. rest \in Int /\ f[c] \in Int /\ f[x] \in Int
        BY <1>1, <4>1, <4>5
      <4>7. /\ SumFunctionOnSet(f, T) = f[c] + (f[x] + rest)
            /\ SumFunctionOnSet(f, T \ {x}) = f[c] + rest
        BY <3>1, <4>3, <4>4, <4>5
      <4> HIDE DEF rest
      <4>8. QED
        BY <4>6, <4>7
    <3>4. QED
      BY <3>2, <3>3
  <2>2. QED
    BY <2>1
<1> HIDE DEF G
<1>3. \A T \in SUBSET S : T \in G
  BY <1>2, SubsetInduction
<1>4. QED
  BY <1>3 DEF G

\* g is f on S, but for k more at y.
GrownAt(f, g, S, y, k) ==
  \A x \in S : f[x] \in Int /\ g[x] = f[x] + (IF x = y THEN k ELSE 0)

\* A sum over the children grows as the one child on the path does.
LEMMA SumChanged ==
  ASSUME NEW S, IsFiniteSet(S), NEW f, NEW g, NEW y \in S, NEW k \in Int, GrownAt(f, g, S, y, k)
  PROVE  SumFunctionOnSet(g, S) = SumFunctionOnSet(f, S) + k
<1> USE DEF GrownAt
<1>1. \A x \in S : g[x] \in Int
  OBVIOUS
<1>2. /\ SumFunctionOnSet(f, S) = f[y] + SumFunctionOnSet(f, S \ {y})
      /\ SumFunctionOnSet(g, S) = g[y] + SumFunctionOnSet(g, S \ {y})
  BY <1>1, SumWithout
<1>3. IsFiniteSet(S \ {y}) /\ \A x \in S \ {y} : f[x] = g[x] /\ f[x] \in Int
  BY FS_RemoveElement
<1>4. /\ SumFunctionOnSet(f, S \ {y}) = SumFunctionOnSet(g, S \ {y})
      /\ SumFunctionOnSet(f, S \ {y}) \in Int
  BY <1>3, SumSame
<1>5. f[y] \in Int /\ g[y] = f[y] + k
  OBVIOUS
<1>6. QED
  BY <1>2, <1>4, <1>5

-----------------------------------------------------------------------------
(* Paths and children.                                                     *)

\* A node is the actions that lead to it; its children in T; what an iteration does to a
\* number kept at every node.
Node == Seq(Points \X (1 .. MaxVariant))
Below(T, n) == {m \in T : Len(m) = Len(n) + 1 /\ n \in Path(m)}
Grows(f, new, k) == Credit(Grown(f, new), new, k)

\* The path to the root is the root.
LEMMA RootPath == Path(<<>>) = {<<>>} /\ <<>> \in Node /\ Len(<<>>) = 0
<1>1. <<>> \in Node /\ Len(<<>>) = 0
  BY EmptySeq DEF Node
<1>2. 0 .. Len(<<>>) = {0}
  BY <1>1
<1>3. SubSeq(<<>>, 1, 0) = <<>>
  BY SubSeqEmpty
<1>4. QED
  BY <1>1, <1>2, <1>3 DEF Path

\* The path to a node holds the beginnings of it, one of every length.
LEMMA PathParts ==
  ASSUME NEW n \in Node
  PROVE  /\ Len(n) \in Nat /\ n \in Path(n) /\ <<>> \in Path(n)
         /\ \A m \in Path(n) : m \in Node /\ Len(m) <= Len(n)
         /\ \A m \in Path(n) : Len(m) = Len(n) => m = n
         /\ \A m \in Path(n) : m = SubSeq(n, 1, Len(m))
         /\ \A k \in 0 .. Len(n) : SubSeq(n, 1, k) \in Path(n) /\ Len(SubSeq(n, 1, k)) = k
<1>1. Len(n) \in Nat /\ \A i \in 1 .. Len(n) : n[i] \in Points \X (1 .. MaxVariant)
  BY LenProperties, ElementOfSeq DEF Node
<1>2. ASSUME NEW k \in 0 .. Len(n)
      PROVE  SubSeq(n, 1, k) \in Node /\ Len(SubSeq(n, 1, k)) = k
  <2>1. \A i \in 1 .. k : n[i] \in Points \X (1 .. MaxVariant)
    BY <1>1
  <2>2. Len(SubSeq(n, 1, k)) = IF 1 <= k THEN k - 1 + 1 ELSE 0
    BY <2>1, SubSeqProperties
  <2>3. SubSeq(n, 1, k) \in Node
    BY <2>1, SubSeqProperties DEF Node
  <2>4. QED
    BY <1>1, <2>2, <2>3
<1>3. SubSeq(n, 1, Len(n)) = n
  BY SubSeqFull DEF Node
<1>4. SubSeq(n, 1, 0) = <<>>
  BY SubSeqEmpty
<1>5. 0 \in 0 .. Len(n) /\ Len(n) \in 0 .. Len(n)
  BY <1>1
<1>6. n \in Path(n) /\ <<>> \in Path(n)
  BY <1>3, <1>4, <1>5 DEF Path
<1>7. \A m \in Path(n) : m \in Node /\ Len(m) <= Len(n) /\ m = SubSeq(n, 1, Len(m))
  <2>1. ASSUME NEW m \in Path(n)
        PROVE  m \in Node /\ Len(m) <= Len(n) /\ m = SubSeq(n, 1, Len(m))
    <3>1. PICK k \in 0 .. Len(n) : m = SubSeq(n, 1, k)
      BY DEF Path
    <3>2. m \in Node /\ Len(m) = k
      BY <1>2, <3>1
    <3>3. QED
      BY <1>1, <3>1, <3>2
  <2>2. QED
    BY <2>1
<1>8. \A m \in Path(n) : Len(m) = Len(n) => m = n
  BY <1>3, <1>7
<1>9. \A k \in 0 .. Len(n) : SubSeq(n, 1, k) \in Path(n)
  BY DEF Path
<1>10. QED
  BY <1>1, <1>2, <1>6, <1>7, <1>8, <1>9

\* The path to a new child is the path to its parent and the child.
LEMMA PathAppend ==
  ASSUME NEW n \in Node, NEW a \in Points \X (1 .. MaxVariant)
  PROVE  /\ Append(n, a) \in Node /\ Append(n, a) # <<>> /\ Append(n, a) # n
         /\ Len(Append(n, a)) = Len(n) + 1
         /\ Path(Append(n, a)) = Path(n) \union {Append(n, a)}
<1> DEFINE m == Append(n, a)
<1>1. /\ m \in Node /\ m # <<>> /\ Len(m) = Len(n) + 1
      /\ \A i \in 1 .. Len(n) : m[i] = n[i]
  BY AppendProperties DEF Node
<1>2. Len(n) \in Nat /\ n \in [1 .. Len(n) -> Points \X (1 .. MaxVariant)]
  BY LenProperties DEF Node
<1> HIDE DEF m
<1>3. ASSUME NEW k \in 0 .. Len(n) PROVE SubSeq(m, 1, k) = SubSeq(n, 1, k)
  <2> DEFINE A == Points \X (1 .. MaxVariant)
  <2>1. \A i \in 1 .. k : n[i] \in A /\ m[i] = n[i] /\ m[i] \in A
    <3>1. \A i \in 1 .. k : i \in 1 .. Len(n)
      BY <1>2
    <3>2. QED
      BY <1>1, <1>2, <3>1
  <2>2. k \in Int /\ 1 \in Int
    BY <1>2
  <2>3. /\ SubSeq(n, 1, k) \in Seq(A)
        /\ Len(SubSeq(n, 1, k)) = IF 1 <= k THEN k - 1 + 1 ELSE 0
        /\ \A i \in 1 .. k - 1 + 1 : SubSeq(n, 1, k)[i] = n[1 + i - 1]
    BY <2>1, <2>2, SubSeqProperties
  <2>4. /\ SubSeq(m, 1, k) \in Seq(A)
        /\ Len(SubSeq(m, 1, k)) = IF 1 <= k THEN k - 1 + 1 ELSE 0
        /\ \A i \in 1 .. k - 1 + 1 : SubSeq(m, 1, k)[i] = m[1 + i - 1]
    BY <2>1, <2>2, SubSeqProperties
  <2>5. /\ Len(SubSeq(n, 1, k)) = Len(SubSeq(m, 1, k))
        /\ \A i \in 1 .. Len(SubSeq(n, 1, k)) : SubSeq(n, 1, k)[i] = SubSeq(m, 1, k)[i]
    BY <1>2, <2>1, <2>3, <2>4
  <2> HIDE DEF A
  <2>6. QED
    BY <2>3, <2>4, <2>5, SeqEqual
<1>4. SubSeq(m, 1, Len(n) + 1) = m
  BY <1>1, SubSeqFull DEF Node
<1>5. 0 .. Len(m) = (0 .. Len(n)) \union {Len(n) + 1}
  BY <1>1, <1>2
<1>6. Path(m) = Path(n) \union {m}
  <2> DEFINE part(k) == SubSeq(m, 1, k)
             old(k) == SubSeq(n, 1, k)
  <2>1. Path(m) = {part(k) : k \in (0 .. Len(n)) \union {Len(n) + 1}}
    BY <1>5 DEF Path
  <2>2. Path(n) = {old(k) : k \in 0 .. Len(n)}
    BY DEF Path
  <2>3. \A k \in 0 .. Len(n) : part(k) = old(k)
    BY <1>3, Zenon
  <2> HIDE DEF part, old
  <2>4. Path(n) = {part(k) : k \in 0 .. Len(n)}
    BY <2>2, <2>3
  <2>5. Path(m) = {part(k) : k \in 0 .. Len(n)} \union {part(Len(n) + 1)}
    BY <2>1
  <2> USE DEF part
  <2>6. QED
    BY <1>4, <2>5, <2>4
<1>7. m # n
  BY <1>1, <1>2
<1>8. QED
  BY <1>1, <1>6, <1>7, Zenon DEF m

\* The path to a node on a path is the part of it that is no longer.
LEMMA PathOfPart ==
  ASSUME NEW n \in Node, NEW m \in Path(n)
  PROVE  \A x : x \in Path(m) <=> x \in Path(n) /\ Len(x) <= Len(m)
<1>1. /\ m \in Node /\ m = SubSeq(n, 1, Len(m)) /\ Len(m) \in 0 .. Len(n)
      /\ Len(n) \in Nat /\ Len(m) \in Nat
  <2>1. m \in Node /\ m = SubSeq(n, 1, Len(m)) /\ Len(m) <= Len(n) /\ Len(n) \in Nat
    BY PathParts
  <2>2. Len(m) \in Nat
    BY <2>1, PathParts
  <2>3. QED
    BY <2>1, <2>2
<1>2. ASSUME NEW k \in 0 .. Len(m) PROVE SubSeq(m, 1, k) = SubSeq(n, 1, k)
  <2> DEFINE A == Points \X (1 .. MaxVariant)
  <2>1. k \in 0 .. Len(n) /\ k \in Int /\ 1 \in Int
    BY <1>1
  <2>2. /\ \A i \in 1 .. Len(n) : n[i] \in A
        /\ \A i \in 1 .. Len(m) : m[i] \in A
    BY <1>1, ElementOfSeq DEF Node
  <2>3. \A i \in 1 .. k : n[i] \in A /\ m[i] \in A
    BY <1>1, <2>2
  <2>4. \A i \in 1 .. Len(m) : n[i] \in A
    BY <1>1, <2>2
  <2>5. \A i \in 1 .. Len(m) - 1 + 1 : SubSeq(n, 1, Len(m))[i] = n[1 + i - 1]
    BY <1>1, <2>4, <2>1, SubSeqProperties
  <2>6. \A i \in 1 .. Len(m) : m[i] = n[i]
    <3> DEFINE part == SubSeq(n, 1, Len(m))
    <3>1. \A i \in 1 .. Len(m) : part[i] = n[i]
      BY <1>1, <2>5
    <3>2. m = part
      BY <1>1, Zenon
    <3> HIDE DEF part
    <3>3. QED
      BY <3>1, <3>2, Zenon
  <2>7. /\ SubSeq(n, 1, k) \in Seq(A)
        /\ Len(SubSeq(n, 1, k)) = IF 1 <= k THEN k - 1 + 1 ELSE 0
        /\ \A i \in 1 .. k - 1 + 1 : SubSeq(n, 1, k)[i] = n[1 + i - 1]
    BY <2>3, <2>1, SubSeqProperties
  <2>8. /\ SubSeq(m, 1, k) \in Seq(A)
        /\ Len(SubSeq(m, 1, k)) = IF 1 <= k THEN k - 1 + 1 ELSE 0
        /\ \A i \in 1 .. k - 1 + 1 : SubSeq(m, 1, k)[i] = m[1 + i - 1]
    BY <2>3, <2>1, SubSeqProperties
  <2>9. /\ Len(SubSeq(n, 1, k)) = Len(SubSeq(m, 1, k))
        /\ \A i \in 1 .. Len(SubSeq(n, 1, k)) : SubSeq(n, 1, k)[i] = SubSeq(m, 1, k)[i]
    BY <1>1, <2>6, <2>7, <2>8
  <2> HIDE DEF A
  <2>10. QED
    BY <2>7, <2>8, <2>9, SeqEqual
<1>3. ASSUME NEW x \in Path(m) PROVE x \in Path(n) /\ Len(x) <= Len(m)
  <2>1. Len(x) <= Len(m) /\ x = SubSeq(m, 1, Len(x)) /\ x \in Node
    BY <1>1, PathParts
  <2>2. Len(x) \in 0 .. Len(m) /\ Len(x) \in 0 .. Len(n)
    BY <1>1, <2>1, PathParts
  <2>3. x = SubSeq(n, 1, Len(x))
    BY <1>2, <2>1, <2>2, Zenon
  <2>4. QED
    BY <2>1, <2>2, <2>3, Zenon DEF Path
<1>4. ASSUME NEW x \in Path(n), Len(x) <= Len(m) PROVE x \in Path(m)
  <2>1. x = SubSeq(n, 1, Len(x)) /\ x \in Node
    BY PathParts
  <2>2. Len(x) \in 0 .. Len(m)
    BY <1>1, <1>4, <2>1, PathParts
  <2>3. x = SubSeq(m, 1, Len(x))
    BY <1>2, <2>1, <2>2, Zenon
  <2>4. QED
    BY <2>2, <2>3, Zenon DEF Path
<1>5. QED
  BY <1>3, <1>4

-----------------------------------------------------------------------------
(* Sums over the children                                                  *)

\* The children of a node are its extensions by one action.
LEMMA ChildOf ==
  ASSUME NEW p \in Node, NEW a \in Points \X (1 .. MaxVariant), NEW n \in Node
  PROVE  Len(Append(p, a)) = Len(n) + 1 /\ n \in Path(Append(p, a)) <=> n = p
<1> DEFINE m == Append(p, a)
<1>1. /\ Len(m) = Len(p) + 1 /\ Path(m) = Path(p) \union {m}
      /\ Len(p) \in Nat /\ Len(n) \in Nat
  BY PathAppend, PathParts
<1> HIDE DEF m
<1>2. ASSUME Len(m) = Len(n) + 1, n \in Path(m) PROVE n = p
  <2>1. n # m /\ Len(n) = Len(p)
    BY <1>1, <1>2
  <2>2. n \in Path(p)
    BY <1>1, <1>2, <2>1
  <2>3. QED
    BY <2>1, <2>2, PathParts
<1>3. p \in Path(m)
  BY <1>1, PathParts
<1>4. QED
  BY <1>1, <1>2, <1>3 DEF m

\* What a rollout adds on its path reaches every node on it by exactly one child, but
\* for the node it started from.
LEMMA PathSums ==
  ASSUME NEW T \in SUBSET Node, IsFiniteSet(T), NEW new \in T, Path(new) \subseteq T,
         NEW f \in [T -> Int], NEW k \in Int, NEW n \in T
  PROVE  SumFunctionOnSet(Credit(f, new, k), Below(T, n))
           = SumFunctionOnSet(f, Below(T, n))
               + (IF n \in Path(new) /\ n # new THEN k ELSE 0)
<1> DEFINE g == Credit(f, new, k)
           K == Below(T, n)
<1>1. /\ IsFiniteSet(K) /\ K \subseteq T
      /\ \A x \in K : Len(x) = Len(n) + 1 /\ n \in Path(x)
  BY FS_Subset DEF Below
<1>2. /\ Len(n) \in Nat /\ Len(new) \in Nat /\ new \in Path(new) /\ n \in Node /\ new \in Node
  BY PathParts
<1>3. \A x \in T : f[x] \in Int /\ g[x] = f[x] + (IF x \in Path(new) THEN k ELSE 0)
  BY DEF Credit
<1>4. CASE n \in Path(new) /\ n # new
  <2> DEFINE y == SubSeq(new, 1, Len(n) + 1)
  <2>1. Len(n) + 1 \in 0 .. Len(new)
    <3>1. Len(n) <= Len(new) /\ Len(n) # Len(new)
      BY <1>2, <1>4, PathParts
    <3>2. QED
      BY <1>2, <3>1
  <2>2. y \in Path(new) /\ Len(y) = Len(n) + 1
    BY <1>2, <2>1, PathParts, Zenon
  <2>3. y \in T /\ y \in Node
    BY <1>2, <2>2, PathParts
  <2>4. \A x \in K : x \in Path(new) => x = SubSeq(new, 1, Len(x))
    BY <1>2, PathParts, Zenon
  <2>5. \A x \in K : x \in Path(new) => x = y
    BY <1>1, <2>4, Zenon
  <2> HIDE DEF y
  <2>6. n \in Path(y)
    BY <1>2, <1>4, <2>2, PathOfPart
  <2>7. y \in K
    BY <2>2, <2>3, <2>6 DEF Below
  <2>8. GrownAt(f, g, K, y, k)
    BY <1>1, <1>3, <2>2, <2>5 DEF GrownAt
  <2> HIDE DEF g, K
  <2>9. SumFunctionOnSet(g, K) = SumFunctionOnSet(f, K) + k
    BY <1>1, <2>7, <2>8, SumChanged
  <2>10. QED
    BY <1>4, <2>9 DEF g, K
<1>5. CASE ~(n \in Path(new) /\ n # new)
  <2>1. ASSUME NEW x \in K, x \in Path(new) PROVE FALSE
    <3>1. n \in Path(new)
      BY <1>1, <1>2, <2>1, PathOfPart
    <3>2. n = new
      BY <1>5, <3>1
    <3>3. Len(x) <= Len(new)
      BY <1>2, <2>1, PathParts
    <3>4. QED
      BY <1>1, <1>2, <3>2, <3>3
  <2>2. \A x \in K : g[x] = f[x] /\ f[x] \in Int /\ g[x] \in Int
    BY <1>1, <1>3, <2>1
  <2> HIDE DEF g, K
  <2>3. /\ SumFunctionOnSet(f, K) = SumFunctionOnSet(g, K)
        /\ SumFunctionOnSet(f, K) \in Int
    BY <1>1, <2>2, SumSame
  <2>4. QED
    BY <1>5, <2>3 DEF g, K
<1>6. QED
  BY <1>4, <1>5

\* A finite tree with the path to each of its nodes.
PrefixTree(T) ==
  /\ IsFiniteSet(T) /\ T \subseteq Node /\ <<>> \in T
  /\ \A n \in T : Path(n) \subseteq T

\* new is p and one more action.
IsChild(new, p) == \E a \in Points \X (1 .. MaxVariant) : new = Append(p, a)

\* new is in the tree, or the extension of a node that is.
Extends(T, new) == new \in T \/ \E p \in T : IsChild(new, p)

\* A tree with one more child is a tree.
LEMMA ExtendedTree ==
  ASSUME NEW T, PrefixTree(T), NEW new, Extends(T, new)
  PROVE  PrefixTree(T \union {new}) /\ new \in Node
<1>1. IsFiniteSet(T \union {new})
  BY FS_AddElement DEF PrefixTree
<1>2. CASE new \in T
  <2>1. T \union {new} = T
    BY <1>2
  <2>2. QED
    BY <1>2, <2>1 DEF PrefixTree
<1>3. ASSUME NEW p \in T, NEW a \in Points \X (1 .. MaxVariant), new = Append(p, a)
      PROVE  PrefixTree(T \union {new}) /\ new \in Node
  <2>1. p \in Node /\ Path(p) \subseteq T
    BY DEF PrefixTree
  <2>2. new \in Node /\ Path(new) = Path(p) \union {new}
    BY <1>3, <2>1, PathAppend, Zenon
  <2>3. QED
    BY <1>1, <2>1, <2>2 DEF PrefixTree
<1>4. QED
  BY <1>2, <1>3 DEF Extends, IsChild

\* Node p has new as a child, which has none itself; the others have those they had.
OnlyBelow(T, p, new) ==
  /\ Below(T \union {new}, new) = {}
  /\ \A n \in T : Below(T \union {new}, n) =
                  IF n = p THEN Below(T, n) \union {new} ELSE Below(T, n)

\* Who has a new node as a child, and that it has none itself.
LEMMA NewChild ==
  ASSUME NEW T, PrefixTree(T), NEW p \in T, NEW new, IsChild(new, p), new \notin T
  PROVE  OnlyBelow(T, p, new)
<1>1. PICK a \in Points \X (1 .. MaxVariant) : new = Append(p, a)
  BY DEF IsChild
<1>2. p \in Node /\ new \in Node /\ Len(new) \in Nat
  <2>1. p \in Node
    BY DEF PrefixTree
  <2>2. new \in Node
    BY <1>1, <2>1, PathAppend, Zenon
  <2>3. QED
    BY <2>1, <2>2, PathParts
<1>3. ASSUME NEW m \in Below(T \union {new}, new) PROVE FALSE
  <2>1. m \in T \union {new} /\ Len(m) = Len(new) + 1 /\ new \in Path(m)
    BY DEF Below
  <2>2. m \in T
    BY <1>2, <2>1
  <2>3. new \in T
    BY <2>1, <2>2 DEF PrefixTree
  <2>4. QED
    BY <2>3
<1>4. ASSUME NEW n \in T
      PROVE  Below(T \union {new}, n) =
                         IF n = p THEN Below(T, n) \union {new} ELSE Below(T, n)
  <2>1. n \in Node
    BY DEF PrefixTree
  <2>2. Len(new) = Len(n) + 1 /\ n \in Path(new) <=> n = p
    BY <1>1, <1>2, <2>1, ChildOf, Zenon
  <2>3. QED
    BY <2>2 DEF Below
<1>5. QED
  BY <1>3, <1>4 DEF OnlyBelow

\* What one iteration does to a number kept at every node.
LEMMA GrowthSums ==
  ASSUME NEW T, PrefixTree(T), NEW new, Extends(T, new),
         NEW f \in [T -> Int], NEW k \in Int
  PROVE  /\ Grows(f, new, k) \in [T \union {new} -> Int]
         /\ \A n \in T \union {new} :
              /\ Grows(f, new, k)[n] = (IF n \in T THEN f[n] ELSE 0)
                                         + (IF n \in Path(new) THEN k ELSE 0)
              /\ SumFunctionOnSet(Grows(f, new, k), Below(T \union {new}, n))
                   = (IF n \in T THEN SumFunctionOnSet(f, Below(T, n)) ELSE 0)
                       + (IF n \in Path(new) /\ n # new THEN k ELSE 0)
         /\ \A n \in T : SumFunctionOnSet(f, Below(T, n)) \in Int
<1> DEFINE U == T \union {new}
           g == Grown(f, new)
           h == Grows(f, new, k)
<1>1. PrefixTree(U) /\ new \in Node
  BY ExtendedTree
<1>2. g \in [U -> Int] /\ \A n \in U : g[n] = IF n \in T THEN f[n] ELSE 0
  BY DEF Grown, With
<1>3. h = Credit(g, new, k) /\ h \in [U -> Int]
      /\ \A n \in U : h[n] = g[n] + (IF n \in Path(new) THEN k ELSE 0)
  BY <1>2 DEF Grows, Credit
<1>4. \A n : IsFiniteSet(Below(T, n)) /\ IsFiniteSet(Below(U, n))
  BY <1>1, FS_Subset DEF Below, PrefixTree
<1>5. ASSUME NEW n \in T
      PROVE  /\ SumFunctionOnSet(f, Below(T, n)) \in Int
             /\ SumFunctionOnSet(g, Below(T, n)) = SumFunctionOnSet(f, Below(T, n))
  <2>1. \A x \in Below(T, n) : f[x] = g[x] /\ f[x] \in Int
    BY <1>2 DEF Below
  <2>2. QED
    BY <1>4, <2>1, SumSame
<1>6. \A q : SumFunctionOnSet(q, {}) = 0
  BY FS_EmptySet, SumRecursive
<1>7. ASSUME NEW n \in U
      PROVE  SumFunctionOnSet(g, Below(U, n)) =
               IF n \in T THEN SumFunctionOnSet(f, Below(T, n)) ELSE 0
  <2>1. CASE new \in T
    <3>1. U = T
      BY <2>1
    <3>2. QED
      BY <1>5, <3>1
  <2>2. CASE new \notin T
    <3>1. PICK p \in T : IsChild(new, p)
      BY <2>2 DEF Extends
    <3>2. /\ Below(U, new) = {}
          /\ \A m \in T : Below(U, m) = IF m = p THEN Below(T, m) \union {new} ELSE Below(T, m)
      <4>1. OnlyBelow(T, p, new)
        BY <2>2, <3>1, NewChild
      <4>2. QED
        BY <4>1 DEF OnlyBelow
    <3>3. CASE n = new
      BY <1>6, <2>2, <3>2, <3>3
    <3>4. CASE n \in T /\ n # p
      BY <1>5, <3>2, <3>4
    <3>5. CASE n = p
      <4> DEFINE K == Below(U, n)
      <4>1. new \in K /\ K \ {new} = Below(T, n)
        BY <2>2, <3>2, <3>5 DEF Below
      <4>2. \A x \in K : g[x] \in Int
        BY <1>2 DEF Below
      <4>3. IsFiniteSet(K)
        BY <1>4
      <4> HIDE DEF K
      <4>4. SumFunctionOnSet(g, K) = g[new] + SumFunctionOnSet(g, K \ {new})
        BY <4>1, <4>2, <4>3, SumWithout
      <4>5. g[new] = 0
        BY <1>2, <2>2
      <4>6. SumFunctionOnSet(f, Below(T, n)) \in Int
            /\ SumFunctionOnSet(g, Below(T, n)) = SumFunctionOnSet(f, Below(T, n))
        BY <1>5, <3>5
      <4>7. SumFunctionOnSet(g, K \ {new}) = SumFunctionOnSet(g, Below(T, n))
        BY <4>1
      <4> HIDE DEF g
      <4>8. SumFunctionOnSet(g, K) = SumFunctionOnSet(f, Below(T, n))
        BY <4>7, <4>4, <4>5, <4>6
      <4>9. QED
        BY <3>5, <4>8 DEF K
    <3>6. QED
      BY <3>3, <3>4, <3>5
  <2>3. QED
    BY <2>1, <2>2
<1>8. ASSUME NEW n \in U
      PROVE  SumFunctionOnSet(h, Below(U, n)) =
               SumFunctionOnSet(g, Below(U, n)) + (IF n \in Path(new) /\ n # new THEN k ELSE 0)
  <2>1. U \in SUBSET Node /\ IsFiniteSet(U) /\ new \in U /\ Path(new) \subseteq U
    BY <1>1 DEF PrefixTree
  <2> HIDE DEF U, g, h
  <2>2. g \in [U -> Int]
    BY <1>2
  <2>3. SumFunctionOnSet(Credit(g, new, k), Below(U, n))
          = SumFunctionOnSet(g, Below(U, n)) + (IF n \in Path(new) /\ n # new THEN k ELSE 0)
    BY <2>1, <2>2, PathSums
  <2>4. QED
    BY <1>3, <2>3
<1> HIDE DEF g
<1>9. \A n \in U :
        /\ h[n] = (IF n \in T THEN f[n] ELSE 0) + (IF n \in Path(new) THEN k ELSE 0)
        /\ SumFunctionOnSet(h, Below(U, n))
             = (IF n \in T THEN SumFunctionOnSet(f, Below(T, n)) ELSE 0)
                 + (IF n \in Path(new) /\ n # new THEN k ELSE 0)
  <2> HIDE DEF U, h
  <2>1. QED
    BY <1>2, <1>3, <1>7, <1>8
<1>10. QED
  BY <1>3, <1>5, <1>9

-----------------------------------------------------------------------------
(* The volume of an archive.                                               *)

\* The image of a finite set is finite.
LEMMA ImageFinite ==
  ASSUME NEW S, IsFiniteSet(S), NEW f
  PROVE  IsFiniteSet({f[x] : x \in S})
<1> DEFINE g == [x \in S |-> f[x]]
           T == {f[x] : x \in S}
<1>1. g \in [S -> T] /\ \A y \in T : \E x \in S : g[x] = y
  OBVIOUS
<1>2. g \in Surjection(S, T)
  BY <1>1 DEF Surjection
<1>3. QED
  BY <1>2, FS_Surjection

\* A finite set of numbers has a greatest.
LEMMA GreatestExists ==
  ASSUME NEW S \in SUBSET Nat, IsFiniteSet(S), S # {}
  PROVE  \E n \in S : \A k \in S : k <= n
<1> DEFINE G == {T \in SUBSET S : T # {} => \E n \in T : \A k \in T : k <= n}
<1>1. ASSUME NEW T \in SUBSET S, \A U \in SUBSET T : U # T => U \in G PROVE T \in G
  <2>1. ASSUME NEW x \in T PROVE \E n \in T : \A k \in T : k <= n
    <3> DEFINE U == T \ {x}
    <3>1. U \in G
      BY <1>1
    <3>2. CASE U = {}
      <4>1. \A k \in T : k = x /\ x <= x
        BY <3>2
      <4>2. QED
        BY <4>1
    <3>3. CASE U # {}
      <4>1. PICK m \in U : \A k \in U : k <= m
        BY <3>1, <3>3
      <4>2. m \in Nat /\ x \in Nat /\ U \subseteq Nat
        OBVIOUS
      <4>3. CASE m <= x
        BY <4>1, <4>2, <4>3
      <4>4. CASE ~(m <= x)
        BY <4>1, <4>2, <4>4
      <4>5. QED
        BY <4>3, <4>4
    <3>4. QED
      BY <3>2, <3>3
  <2>2. QED
    BY <2>1
<1> HIDE DEF G
<1>2. S \in G
  BY <1>1, SubsetInduction
<1>3. QED
  BY <1>2 DEF G

\* The cells below some point, without the bound that makes them enumerable.
LEMMA CellsAre ==
  ASSUME NEW P \in SUBSET [Dims -> Nat], IsFiniteSet(P)
  PROVE  /\ Cells(P) = {c \in [Dims -> Nat \ {0}] : \E v \in P : \A d \in Dims : c[d] <= v[d]}
         /\ IsFiniteSet(Cells(P))
<1> DEFINE top == UNION {{v[d] : d \in Dims} : v \in P}
           edge == IF top = {} THEN {} ELSE 1 .. (CHOOSE n \in top : \A k \in top : k <= n)
           below == {c \in [Dims -> Nat \ {0}] : \E v \in P : \A d \in Dims : c[d] <= v[d]}
<1>1. Cells(P) = {c \in [Dims -> edge] : \E v \in P : \A d \in Dims : c[d] <= v[d]}
  BY DEF Cells
<1>2. IsFiniteSet(top) /\ top \subseteq Nat
  <2> DEFINE at(v) == {v[d] : d \in Dims}
             all == {at(v) : v \in P}
  <2>1. \A v \in P : IsFiniteSet(at(v))
    BY VectorsAssumption, ImageFinite
  <2>2. IsFiniteSet(all)
    <3> DEFINE f == [v \in P |-> at(v)]
    <3>1. \A v \in P : f[v] = at(v)
      OBVIOUS
    <3>2. all = {f[v] : v \in P}
      <4> HIDE DEF at, f
      <4>1. QED
        BY <3>1
    <3> HIDE DEF f, all
    <3>3. IsFiniteSet({f[v] : v \in P})
      BY ImageFinite
    <3>4. QED
      BY <3>2, <3>3
  <2>3. IsFiniteSet(UNION all)
    <3>1. \A s \in all : IsFiniteSet(s)
      BY <2>1
    <3> HIDE DEF all
    <3>2. QED
      BY <2>2, <3>1, FS_UNION
  <2>4. QED
    BY <2>3
<1>3. CASE top = {}
  <2>1. P = {} \/ Dims = {}
    <3>1. \A v \in P, d \in Dims : v[d] \in top
      OBVIOUS
    <3> HIDE DEF top
    <3>2. QED
      BY <1>3, <3>1
  <2>2. edge = {}
    BY <1>3
  <2> HIDE DEF edge, top
  <2>3. CASE P = {}
    BY <1>1, <2>3, FS_EmptySet
  <2>4. CASE Dims = {}
    <3>1. [Dims -> edge] = [Dims -> Nat \ {0}] /\ [Dims -> edge] = [Dims -> 0 .. 0]
      BY <2>4
    <3>2. IsFiniteSet([Dims -> 0 .. 0])
      BY VectorsAssumption, FunctionsFinite
    <3>3. IsFiniteSet(Cells(P))
      BY <1>1, <3>1, <3>2, FS_Subset
    <3>4. QED
      BY <1>1, <3>1, <3>3
  <2>5. QED
    BY <2>1, <2>3, <2>4
<1>4. CASE top # {}
  <2>1. PICK n \in Nat : n \in top /\ edge = 1 .. n /\ \A k \in top : k <= n
    <3> DEFINE g == CHOOSE n \in top : \A k \in top : k <= n
    <3>1. \E n \in top : \A k \in top : k <= n
      <4> HIDE DEF top
      <4>1. QED
        BY <1>2, <1>4, GreatestExists
    <3>2. g \in top /\ \A k \in top : k <= g
      <4> HIDE DEF top
      <4>1. QED
        BY <3>1
    <3>3. edge = 1 .. g
      BY <1>4
    <3> HIDE DEF g, edge, top
    <3>4. QED
      BY <1>2, <3>2, <3>3
  <2>2. \A v \in P, d \in Dims : v[d] \in top
    OBVIOUS
  <2> HIDE DEF edge, top
  <2>3. ASSUME NEW c \in below PROVE c \in Cells(P)
    <3>1. PICK v \in P : \A d \in Dims : c[d] <= v[d]
      OBVIOUS
    <3>2. \A d \in Dims : c[d] \in 1 .. n
      <4>1. ASSUME NEW d \in Dims PROVE c[d] \in 1 .. n
        <5>1. c[d] \in Nat \ {0} /\ v[d] \in Nat /\ c[d] <= v[d] /\ v[d] <= n
          BY <2>1, <2>2, <3>1
        <5>2. QED
          BY <5>1
      <4>2. QED
        BY <4>1
    <3>3. c \in [Dims -> edge]
      BY <2>1, <3>2
    <3>4. QED
      BY <1>1, <3>1, <3>3
  <2>4. Cells(P) \subseteq below
    BY <1>1, <2>1
  <2>5. Cells(P) \in SUBSET [Dims -> 0 .. n]
    BY <1>1, <2>1
  <2>6. IsFiniteSet(Cells(P))
    BY <2>5, VectorsAssumption, FunctionsFinite, FS_Subset
  <2>7. QED
    BY <2>3, <2>4, <2>6
<1>5. QED
  BY <1>3, <1>4

\* A set of points that reaches as far as another encloses at least its volume.
LEMMA VolumeGrows ==
  ASSUME NEW P \in SUBSET [Dims -> Nat], IsFiniteSet(P),
         NEW Q \in SUBSET [Dims -> Nat], IsFiniteSet(Q),
         \A v \in P : \E w \in Q : \A d \in Dims : v[d] <= w[d]
  PROVE  /\ Cardinality(Cells(P)) \in Nat /\ Cardinality(Cells(Q)) \in Nat
         /\ Cardinality(Cells(P)) <= Cardinality(Cells(Q))
<1>1. Cells(P) \subseteq Cells(Q)
  <2>1. ASSUME NEW c \in Cells(P) PROVE c \in Cells(Q)
    <3>1. c \in [Dims -> Nat \ {0}] /\ \E v \in P : \A d \in Dims : c[d] <= v[d]
      BY CellsAre
    <3>2. PICK v \in P, w \in Q : \A d \in Dims : c[d] <= v[d] /\ v[d] <= w[d]
      BY <3>1
    <3>3. \A d \in Dims : c[d] \in Nat /\ v[d] \in Nat /\ w[d] \in Nat
      BY <3>1
    <3>4. \A d \in Dims : c[d] <= w[d]
      BY <3>2, <3>3
    <3>5. QED
      BY <3>1, <3>4, CellsAre
  <2>2. QED
    BY <2>1
<1>2. IsFiniteSet(Cells(P)) /\ IsFiniteSet(Cells(Q))
  BY CellsAre
<1>3. QED
  BY <1>1, <1>2, FS_Subset, FS_CardinalityType

-----------------------------------------------------------------------------
(* The accounts of a search.                                               *)

\* A node's own rollout; the root has none.
Added(n) == IF n = <<>> THEN 0 ELSE 1

\* The search tree: every node but the root is a child by a feasible action.
GrownTree ==
  /\ PrefixTree(tree)
  /\ \A n \in tree : n # <<>> =>
       \E p \in tree : \E a \in Actions(StateOf(p)) : n = Append(p, a)
  /\ visits \in [tree -> Int] /\ reward \in [tree -> Int]

\* The two accounts, and the one visit of a node that has no child yet but may get one.
Balanced ==
  /\ reward[<<>>] = Hypervolume(archive, scores)
  /\ \A n \in tree :
       /\ Below(tree, n) # {} =>
            visits[n] = SumFunctionOnSet(visits, Below(tree, n)) + Added(n)
       /\ Below(tree, n) = {} /\ Actions(StateOf(n)) # {} => visits[n] = Added(n)
       /\ reward[n] >= SumFunctionOnSet(reward, Below(tree, n))

\* The inductive invariant: in every search, the tree is grown and balanced.
AccountsInv ==
  /\ phase = "start" => /\ tree = {<<>>} /\ archive = {}
                        /\ visits = [n \in tree |-> 0] /\ reward = [n \in tree |-> 0]
  /\ phase = "search" => GrownTree /\ Balanced

\* An action is a point and a variant.
LEMMA ActionsType == \A s : Actions(s) \subseteq Points \X (1 .. MaxVariant)
BY DEF Actions

\* The search starts with a tree of the root alone and an empty archive, which balance.
LEMMA StartAccounts ==
  ASSUME AccountsInv, DeclareVariations \/ FallBack
  PROVE  AccountsInv'
<1>1. /\ tree' = {<<>>} /\ archive' = {} /\ visits' = [n \in {<<>>} |-> 0]
      /\ reward' = [n \in {<<>>} |-> 0] /\ phase' = "search"
  BY DEF AccountsInv, DeclareVariations, FallBack
<1>2. PrefixTree(tree')
  <2>1. IsFiniteSet({<<>>})
    BY FS_Singleton
  <2>2. QED
    BY <1>1, <2>1, RootPath DEF PrefixTree
<1>3. GrownTree'
  BY <1>1, <1>2 DEF GrownTree
<1>4. Below(tree', <<>>) = {}
  BY <1>1, RootPath DEF Below
<1>5. Hypervolume(archive', scores') = 0
  <2>1. {scores'[m] : m \in archive'} = {}
    BY <1>1
  <2>2. Cells({}) = {}
    BY DEF Cells
  <2>3. QED
    BY <2>1, <2>2, FS_EmptySet DEF Hypervolume
<1>6. SumFunctionOnSet(reward', Below(tree', <<>>)) = 0
  <2>1. SumFunctionOnSet(reward', {}) = 0
    BY FS_EmptySet, SumRecursive
  <2>2. QED
    BY <1>4, <2>1
<1>7. reward'[<<>>] = 0 /\ visits'[<<>>] = 0
  BY <1>1
<1>8. Balanced'
  <2>1. ASSUME NEW n \in tree'
        PROVE  /\ Below(tree', n) = {} /\ visits'[n] = Added(n)
               /\ reward'[n] >= SumFunctionOnSet(reward', Below(tree', n))
    <3>1. n = <<>>
      BY <1>1
    <3>2. QED
      BY <1>4, <1>6, <1>7, <3>1 DEF Added
  <2>2. QED
    BY <1>5, <1>7, <2>1 DEF Balanced
<1>9. QED
  BY <1>1, <1>3, <1>8 DEF AccountsInv

\* The archive of a rollout encloses at least the volume of the one before it.
LEMMA VolumeOfRollout ==
  ASSUME Scored, Archived, NEW new, NEW t \in Designs, Rollout(new, t), Complete(t)
  PROVE  /\ Hypervolume(archive, scores) \in Nat /\ Hypervolume(archive', scores') \in Nat
         /\ Hypervolume(archive, scores) <= Hypervolume(archive', scores')
<1> DEFINE P == {scores[m] : m \in archive}
           Q == {scores'[m] : m \in archive'}
<1>1. PICK v \in IF t \in DOMAIN scores THEN {scores[t]} ELSE Vectors :
        scores' = With(scores, t, v)
  BY DEF Rollout
<1>2. archive' = Add(archive, scores', t)
  BY DEF Rollout
<1>3. v \in Vectors
  BY <1>1 DEF Scored
<1>4. /\ DOMAIN scores' = DOMAIN scores \union {t}
      /\ scores' \in [DOMAIN scores' -> Vectors]
      /\ \A s \in DOMAIN scores : scores'[s] = scores[s]
  BY <1>1, <1>3 DEF With, Scored
<1>5. archive \subseteq DOMAIN scores /\ archive' \subseteq DOMAIN scores'
  BY <1>2, <1>4 DEF Archived, Front, Add
<1>6. IsFiniteSet(DOMAIN scores) /\ IsFiniteSet(DOMAIN scores')
  <2>1. IsFiniteSet([Points -> 0 .. MaxVariant])
    BY PointsAssumption, SpacesAssumption, FunctionsFinite
  <2>2. DOMAIN scores \subseteq [Points -> 0 .. MaxVariant]
    BY DEF Scored
  <2>3. t \in [Points -> 0 .. MaxVariant]
    BY DEF Designs
  <2>4. QED
    BY <1>4, <2>1, <2>2, <2>3, FS_Subset
<1>7. /\ P \in SUBSET [Dims -> Nat] /\ Q \in SUBSET [Dims -> Nat]
      /\ IsFiniteSet(P) /\ IsFiniteSet(Q)
  <2>1. IsFiniteSet(archive) /\ IsFiniteSet(archive')
    BY <1>5, <1>6, FS_Subset
  <2>2. IsFiniteSet(P) /\ IsFiniteSet(Q)
    BY <2>1, ImageFinite
  <2>3. \A m \in archive : scores[m] \in Vectors
    BY <1>5 DEF Scored
  <2>4. \A m \in archive' : scores'[m] \in Vectors
    BY <1>4, <1>5
  <2>5. QED
    BY <2>2, <2>3, <2>4, VectorsAssumption
<1>8. ASSUME NEW p \in P PROVE \E q \in Q : \A d \in Dims : p[d] <= q[d]
  <2>1. PICK m \in archive : p = scores[m] /\ p = scores'[m]
    BY <1>4, <1>5
  <2>2. p \in [Dims -> Nat]
    BY <1>7
  <2>3. CASE m \in archive'
    BY <2>1, <2>2, <2>3
  <2>4. CASE m \notin archive'
    <3>1. t \in archive' /\ Dominates(scores'[t], scores'[m])
      BY <1>2, <2>4 DEF Add
    <3>2. scores'[t] \in Q /\ scores'[t] \in [Dims -> Nat]
      BY <1>7, <3>1
    <3>3. \A d \in Dims : p[d] <= scores'[t][d]
      BY <2>1, <2>2, <3>1, <3>2 DEF Dominates
    <3>4. QED
      BY <3>2, <3>3
  <2>5. QED
    BY <2>3, <2>4
<1>9. Hypervolume(archive, scores) = Cardinality(Cells(P))
      /\ Hypervolume(archive', scores') = Cardinality(Cells(Q))
  BY DEF Hypervolume
<1> HIDE DEF P, Q
<1>10. QED
  BY <1>7, <1>8, <1>9, VolumeGrows

\* A rollout is worth what it adds to the archive, on its whole path.
LEMMA RolloutWorth ==
  ASSUME Scored, Archived, GrownTree, Balanced, NEW new, Extends(tree, new),
         NEW t \in Designs, Rollout(new, t)
  PROVE  \E k \in Nat : /\ reward' = Grows(reward, new, k)
                        /\ Hypervolume(archive', scores') = Hypervolume(archive, scores) + k
<1>1. CASE Complete(t)
  <2> DEFINE old == Hypervolume(archive, scores)
             now == Hypervolume(archive', scores')
  <2>1. old \in Nat /\ now \in Nat /\ old <= now
    BY <1>1, VolumeOfRollout
  <2>2. reward' = Grows(reward, new, now - old)
    BY <1>1 DEF Rollout, Grows
  <2> HIDE DEF old, now
  <2>3. now - old \in Nat /\ now = old + (now - old)
    BY <2>1
  <2>4. QED
    BY <2>2, <2>3 DEF old, now
<1>2. CASE ~Complete(t)
  <2>1. reward' = Grown(reward, new) /\ UNCHANGED <<scores, archive>>
    BY <1>2 DEF Rollout
  <2>2. Grown(reward, new) \in [tree \union {new} -> Int]
    BY DEF GrownTree, Grown, With
  <2>3. Grows(reward, new, 0) = Grown(reward, new)
    BY <2>2 DEF Grows, Credit
  <2>4. reward[<<>>] \in Int
    BY DEF GrownTree, PrefixTree
  <2>5. Hypervolume(archive', scores') = Hypervolume(archive, scores) + 0
    BY <2>1, <2>4 DEF Balanced
  <2>6. QED
    BY <2>1, <2>3, <2>5
<1>3. QED
  BY <1>1, <1>2

\* What _select and _expand leave: a terminal node, or one more child.
LEMMA Expanded ==
  ASSUME GrownTree, Iterate
  PROVE  \E new :
           /\ Extends(tree, new) /\ tree' = tree \union {new}
           /\ visits' = Grows(visits, new, 1)
           /\ \E t \in Designs : Rollout(new, t)
           /\ \/ new \in tree /\ Actions(StateOf(new)) = {}
              \/ new \notin tree
                   /\ \E p \in tree : /\ Actions(StateOf(p)) # {}
                                      /\ IsChild(new, p)
                                      /\ \E a \in Actions(StateOf(p)) : new = Append(p, a)
<1>1. PICK n \in Selected :
        \E new \in IF Untried(n) = {} THEN {n} ELSE {Append(n, a) : a \in Untried(n)} :
           /\ tree' = tree \union {new}
           /\ visits' = Credit(Grown(visits, new), new, 1)
           /\ \E t \in Rollouts(StateOf(new)) : Rollout(new, t)
  BY DEF Iterate
<1>2. n \in tree /\ (Untried(n) # {} \/ Actions(StateOf(n)) = {})
  BY DEF Selected
<1>3. PICK new \in IF Untried(n) = {} THEN {n} ELSE {Append(n, a) : a \in Untried(n)} :
        /\ tree' = tree \union {new}
        /\ visits' = Grows(visits, new, 1)
        /\ \E t \in Rollouts(StateOf(new)) : Rollout(new, t)
  BY <1>1 DEF Grows
<1>4. \E t \in Designs : Rollout(new, t)
  <2>1. Rollouts(StateOf(new)) \subseteq Designs
    BY DEF Rollouts
  <2>2. QED
    BY <1>3, <2>1
<1>5. CASE Untried(n) = {}
  <2>1. new = n /\ Actions(StateOf(n)) = {}
    BY <1>2, <1>3, <1>5
  <2>2. QED
    BY <1>2, <1>3, <1>4, <2>1 DEF Extends
<1>6. CASE Untried(n) # {}
  <2>1. PICK a \in Untried(n) : new = Append(n, a)
    BY <1>3, <1>6
  <2>2. a \in Actions(StateOf(n)) /\ Append(n, a) \notin tree
    BY DEF Untried
  <2>3. IsChild(new, n)
    BY <2>1, <2>2, ActionsType DEF IsChild
  <2>4. new \notin tree /\ Actions(StateOf(n)) # {}
    BY <2>1, <2>2
  <2>5. Extends(tree, new)
    BY <1>2, <2>3 DEF Extends
  <2>6. \E b \in Actions(StateOf(n)) : new = Append(n, b)
    BY <2>1, <2>2
  <2>7. QED
    BY <1>2, <1>3, <1>4, <2>3, <2>4, <2>5, <2>6
<1>7. QED
  BY <1>5, <1>6

\* One iteration keeps the accounts, whichever node it expands.
LEMMA IterateAccounts ==
  ASSUME SearchInv, AccountsInv, Iterate
  PROVE  AccountsInv'
<1>1. /\ phase = "search" /\ phase' = "search" /\ space' = space
      /\ GrownTree /\ Balanced /\ Scored /\ Archived
  BY DEF Iterate, AccountsInv, SearchInv
<1>2. PICK new :
        /\ Extends(tree, new) /\ tree' = tree \union {new}
        /\ visits' = Grows(visits, new, 1)
        /\ \E t \in Designs : Rollout(new, t)
        /\ \/ new \in tree /\ Actions(StateOf(new)) = {}
           \/ new \notin tree
                /\ \E p \in tree : /\ Actions(StateOf(p)) # {}
                                   /\ IsChild(new, p)
                                   /\ \E a \in Actions(StateOf(p)) : new = Append(p, a)
  BY <1>1, Expanded
<1>3. PICK k \in Nat : /\ reward' = Grows(reward, new, k)
                       /\ Hypervolume(archive', scores') = Hypervolume(archive, scores) + k
  BY <1>1, <1>2, RolloutWorth
<1> DEFINE T == tree
           U == T \union {new}
<1>4. /\ PrefixTree(T) /\ PrefixTree(U) /\ new \in Node /\ new \in U
      /\ visits \in [T -> Int] /\ reward \in [T -> Int]
      /\ T \subseteq Node
  BY <1>1, <1>2, ExtendedTree DEF GrownTree, PrefixTree
<1>5. /\ visits' \in [U -> Int]
      /\ \A n \in U :
           /\ visits'[n] = (IF n \in T THEN visits[n] ELSE 0)
                             + (IF n \in Path(new) THEN 1 ELSE 0)
           /\ SumFunctionOnSet(visits', Below(U, n))
                = (IF n \in T THEN SumFunctionOnSet(visits, Below(T, n)) ELSE 0)
                    + (IF n \in Path(new) /\ n # new THEN 1 ELSE 0)
      /\ \A n \in T : SumFunctionOnSet(visits, Below(T, n)) \in Int
  <2> DEFINE g == Grows(visits, new, 1)
  <2>1. PrefixTree(T) /\ Extends(T, new) /\ visits \in [T -> Int] /\ 1 \in Int /\ visits' = g
    BY <1>2, <1>4
  <2> HIDE DEF T
  <2>2. /\ g \in [U -> Int]
        /\ \A n \in U :
             /\ g[n] = (IF n \in T THEN visits[n] ELSE 0) + (IF n \in Path(new) THEN 1 ELSE 0)
             /\ SumFunctionOnSet(g, Below(U, n))
                  = (IF n \in T THEN SumFunctionOnSet(visits, Below(T, n)) ELSE 0)
                      + (IF n \in Path(new) /\ n # new THEN 1 ELSE 0)
        /\ \A n \in T : SumFunctionOnSet(visits, Below(T, n)) \in Int
    BY <2>1, GrowthSums
  <2> HIDE DEF g, U
  <2>3. QED
    BY <2>1, <2>2
<1>6. /\ reward' \in [U -> Int]
      /\ \A n \in U :
           /\ reward'[n] = (IF n \in T THEN reward[n] ELSE 0)
                             + (IF n \in Path(new) THEN k ELSE 0)
           /\ SumFunctionOnSet(reward', Below(U, n))
                = (IF n \in T THEN SumFunctionOnSet(reward, Below(T, n)) ELSE 0)
                    + (IF n \in Path(new) /\ n # new THEN k ELSE 0)
      /\ \A n \in T : SumFunctionOnSet(reward, Below(T, n)) \in Int
  <2> DEFINE g == Grows(reward, new, k)
  <2>1. PrefixTree(T) /\ Extends(T, new) /\ reward \in [T -> Int] /\ k \in Int /\ reward' = g
    BY <1>2, <1>3, <1>4
  <2> HIDE DEF T
  <2>2. /\ g \in [U -> Int]
        /\ \A n \in U :
             /\ g[n] = (IF n \in T THEN reward[n] ELSE 0) + (IF n \in Path(new) THEN k ELSE 0)
             /\ SumFunctionOnSet(g, Below(U, n))
                  = (IF n \in T THEN SumFunctionOnSet(reward, Below(T, n)) ELSE 0)
                      + (IF n \in Path(new) /\ n # new THEN k ELSE 0)
        /\ \A n \in T : SumFunctionOnSet(reward, Below(T, n)) \in Int
    BY <2>1, GrowthSums
  <2> HIDE DEF g, U
  <2>3. QED
    BY <2>1, <2>2
<1>7. \A s : Actions(s)' = Actions(s)
  BY <1>1 DEF Actions, Designs, Feasible
<1>8. \A n \in T, a \in Points \X (1 .. MaxVariant), p \in T :
         Append(p, a) \in Below(T, n) => n = p
  <2>1. ASSUME NEW n \in T, NEW a \in Points \X (1 .. MaxVariant), NEW p \in T,
               Append(p, a) \in Below(T, n)
        PROVE  n = p
    <3>1. n \in Node /\ p \in Node
      BY <1>4
    <3>2. Len(Append(p, a)) = Len(n) + 1 /\ n \in Path(Append(p, a))
      BY <2>1, Zenon DEF Below
    <3>3. QED
      BY <3>1, <3>2, ChildOf, Zenon
  <2>2. QED
    BY <2>1
<1>9. \A q : SumFunctionOnSet(q, {}) = 0
  BY FS_EmptySet, SumRecursive
<1>10. GrownTree'
  <2>1. ASSUME NEW n \in U, n # <<>>
        PROVE  \E p \in U : \E a \in Actions(StateOf(p)) : n = Append(p, a)
    <3>1. n \in T \/ n = new
      BY <1>2, <2>1
    <3>2. CASE n \in T
      BY <1>1, <1>2, <2>1, <3>2 DEF GrownTree
    <3>3. CASE n = new
      BY <1>1, <1>2, <2>1, <3>3 DEF GrownTree
    <3>4. QED
      BY <3>1, <3>2, <3>3
  <2>2. \A n \in tree' : n # <<>> =>
          \E p \in tree' : \E a \in Actions(StateOf(p))' : n = Append(p, a)
    BY <1>2, <1>7, <2>1 DEF StateOf
  <2>3. QED
    BY <1>2, <1>4, <1>5, <1>6, <2>2 DEF GrownTree, StateOf
<1>11. reward'[<<>>] = Hypervolume(archive', scores')
  <2>1. <<>> \in T /\ <<>> \in Path(new)
    BY <1>4, PathParts DEF PrefixTree
  <2>2. reward'[<<>>] = reward[<<>>] + k /\ reward[<<>>] = Hypervolume(archive, scores)
    BY <1>1, <1>6, <2>1 DEF Balanced
  <2>3. QED
    BY <1>3, <2>2
<1>12. ASSUME NEW n \in U
      PROVE  reward'[n] >= SumFunctionOnSet(reward', Below(U, n))
  <2>1. n \in T => reward[n] >= SumFunctionOnSet(reward, Below(T, n))
    BY <1>1 DEF Balanced
  <2>2. n \in T => reward[n] \in Int /\ SumFunctionOnSet(reward, Below(T, n)) \in Int
    BY <1>4, <1>6
  <2>3. QED
    BY <1>6, <2>1, <2>2
<1>13. ASSUME NEW n \in U
      PROVE  /\ Below(U, n) # {} =>
                  visits'[n] = SumFunctionOnSet(visits', Below(U, n)) + Added(n)
             /\ Below(U, n) = {} /\ Actions(StateOf(n)) # {} => visits'[n] = Added(n)
  <2>1. CASE n = new /\ new \in T
    <3>1. Actions(StateOf(n)) = {} /\ U = T
      BY <1>2, <2>1
    <3>2. Below(T, n) = {}
      <4>1. ASSUME NEW m \in Below(T, n) PROVE FALSE
        <5>1. m \in T /\ m # <<>>
          <6>1. m \in T /\ Len(m) = Len(n) + 1 /\ n \in Node
            BY <1>4, <2>1 DEF Below
          <6>2. QED
            BY <6>1, RootPath, PathParts
        <5>2. PICK p \in T : \E a \in Actions(StateOf(p)) : m = Append(p, a)
          BY <1>1, <5>1 DEF GrownTree
        <5>3. p = n
          BY <1>8, <2>1, <4>1, <5>2, ActionsType
        <5>4. QED
          BY <3>1, <5>2, <5>3
      <4>2. QED
        BY <4>1
    <3>3. QED
      BY <3>1, <3>2
  <2>2. CASE new \notin T
    <3>1. PICK p \in T : Actions(StateOf(p)) # {} /\ IsChild(new, p)
      BY <1>2, <2>2
    <3>2. /\ Below(U, new) = {}
          /\ \A m \in T : Below(U, m) = IF m = p THEN Below(T, m) \union {new} ELSE Below(T, m)
      <4>1. PrefixTree(T)
        BY <1>4
      <4> HIDE DEF T
      <4>2. OnlyBelow(T, p, new)
        BY <2>2, <3>1, <4>1, NewChild
      <4> USE DEF T
      <4>3. QED
        BY <4>2 DEF OnlyBelow
    <3>3. CASE n = new
      <4>1. visits'[n] = 1
        BY <1>4, <1>5, <2>2, <3>3, PathParts
      <4>2. n # <<>>
        BY <1>4, <2>2, <3>3 DEF PrefixTree
      <4>3. QED
        BY <3>2, <3>3, <4>1, <4>2 DEF Added
    <3>4. CASE n \in T
      <4>1. n # new /\ visits[n] \in Int /\ SumFunctionOnSet(visits, Below(T, n)) \in Int
        BY <1>4, <1>5, <2>2, <3>4
      <4>2. Added(n) \in Int
        BY DEF Added
      <4>3. /\ Below(T, n) # {} => visits[n] = SumFunctionOnSet(visits, Below(T, n)) + Added(n)
            /\ Below(T, n) = {} /\ Actions(StateOf(n)) # {} => visits[n] = Added(n)
        BY <1>1, <3>4 DEF Balanced
      <4>4. /\ visits'[n] = visits[n] + (IF n \in Path(new) THEN 1 ELSE 0)
            /\ SumFunctionOnSet(visits', Below(U, n))
                 = SumFunctionOnSet(visits, Below(T, n)) + (IF n \in Path(new) THEN 1 ELSE 0)
        BY <1>5, <3>4, <4>1
      <4> HIDE DEF T, U
      <4>5. CASE Below(T, n) # {}
        <5>1. Below(U, n) # {}
          BY <3>2, <3>4, <4>5
        <5>2. QED
          BY <4>1, <4>2, <4>3, <4>4, <4>5, <5>1
      <4>6. CASE Below(T, n) = {} /\ n = p
        <5>1. visits[n] = Added(n) /\ Below(U, n) # {}
          BY <3>1, <3>2, <4>3, <4>6
        <5>2. SumFunctionOnSet(visits, Below(T, n)) = 0
          BY <1>9, <4>6
        <5>3. n \in Path(new)
          <6>1. PICK a \in Points \X (1 .. MaxVariant) : new = Append(p, a)
            BY <3>1, Zenon DEF IsChild
          <6>2. p \in Node
            BY <1>4
          <6>3. Path(new) = Path(p) \union {new}
            BY <6>1, <6>2, PathAppend, Zenon
          <6>4. QED
            BY <4>6, <6>2, <6>3, PathParts
        <5>4. QED
          BY <4>1, <4>2, <4>4, <5>1, <5>2, <5>3
      <4>7. CASE Below(T, n) = {} /\ n # p
        <5>1. Below(U, n) = {}
          BY <3>2, <3>4, <4>7
        <5>2. n \notin Path(new)
          <6>1. PICK a \in Points \X (1 .. MaxVariant) : new = Append(p, a)
            BY <3>1, Zenon DEF IsChild
          <6>2. SumFunctionOnSet(visits', Below(U, n)) = 0
                /\ SumFunctionOnSet(visits, Below(T, n)) = 0
            BY <1>9, <4>7, <5>1
          <6>3. QED
            BY <4>4, <6>2
        <5>3. QED
          BY <4>1, <4>3, <4>4, <4>7, <5>1, <5>2
      <4>8. QED
        BY <4>5, <4>6, <4>7
    <3>5. QED
      BY <3>3, <3>4
  <2>3. CASE new \in T /\ n # new
    <3>1. U = T /\ n \in T
      BY <2>3
    <3>2. visits[n] \in Int /\ SumFunctionOnSet(visits, Below(T, n)) \in Int /\ Added(n) \in Int
      BY <1>4, <1>5, <3>1 DEF Added
    <3>3. /\ Below(T, n) # {} => visits[n] = SumFunctionOnSet(visits, Below(T, n)) + Added(n)
          /\ Below(T, n) = {} /\ Actions(StateOf(n)) # {} => visits[n] = Added(n)
      BY <1>1, <3>1 DEF Balanced
    <3>4. /\ visits'[n] = visits[n] + (IF n \in Path(new) THEN 1 ELSE 0)
          /\ SumFunctionOnSet(visits', Below(U, n))
               = SumFunctionOnSet(visits, Below(T, n)) + (IF n \in Path(new) THEN 1 ELSE 0)
      BY <1>5, <2>3, <3>1
    <3>5. Below(T, n) = {} => n \notin Path(new)
      <4>1. ASSUME Below(T, n) = {} PROVE n \notin Path(new)
        <5>1. SumFunctionOnSet(visits', Below(U, n)) = 0
              /\ SumFunctionOnSet(visits, Below(T, n)) = 0
          BY <1>9, <3>1, <4>1
        <5>2. QED
          BY <3>4, <5>1
      <4>2. QED
        BY <4>1
    <3>6. QED
      BY <3>1, <3>2, <3>3, <3>4, <3>5
  <2>4. QED
    BY <2>1, <2>2, <2>3
<1>14. Balanced'
  <2>1. \A n \in tree' :
           /\ Below(tree', n) # {} =>
                visits'[n] = SumFunctionOnSet(visits', Below(tree', n)) + Added(n)
           /\ Below(tree', n) = {} /\ Actions(StateOf(n))' # {} => visits'[n] = Added(n)
           /\ reward'[n] >= SumFunctionOnSet(reward', Below(tree', n))
    BY <1>2, <1>12, <1>13, <1>7
  <2>2. QED
    BY <1>11, <2>1 DEF Balanced
<1>15. QED
  BY <1>1, <1>10, <1>14 DEF AccountsInv

\* Every step keeps the accounts; leaving the search ends them.
LEMMA AccountsNext == SearchInv /\ AccountsInv /\ [Next]_vars => AccountsInv'
<1> SUFFICES ASSUME SearchInv, AccountsInv, [Next]_vars PROVE AccountsInv'
  OBVIOUS
<1>1. CASE DeclareVariations \/ FallBack
  BY <1>1, StartAccounts
<1>2. CASE Iterate
  BY <1>2, IterateAccounts
<1>3. CASE Cover \/ Gates \/ Recommend \/ RecommendCatalogue
  <2>1. phase' \in {"gates", "front", "done"}
    BY <1>3 DEF Cover, Gates, Recommend, RecommendCatalogue
  <2>2. QED
    BY <2>1 DEF AccountsInv
<1>4. CASE UNCHANGED vars
  <2>1. UNCHANGED <<phase, space, tree, visits, reward, archive, scores>>
    BY <1>4 DEF vars
  <2>2. \A s : Actions(s)' = Actions(s)
    BY <2>1 DEF Actions, Designs, Feasible
  <2>3. GrownTree => GrownTree'
    <3>1. \A p : Actions(StateOf(p))' = Actions(StateOf(p))
      BY <2>2 DEF StateOf
    <3>2. QED
      BY <2>1, <3>1 DEF GrownTree
  <2>4. Balanced => Balanced'
    <3>1. \A p : Actions(StateOf(p))' = Actions(StateOf(p))
      BY <2>2 DEF StateOf
    <3>2. QED
      BY <2>1, <3>1 DEF Balanced
  <2>5. QED
    BY <2>1, <2>3, <2>4 DEF AccountsInv
<1>5. QED
  BY <1>1, <1>2, <1>3, <1>4 DEF Next

\* Along every path of the search tree the rewards and visits add up: the root holds the
\* volume of the archive, and no rollout is lost or counted twice.
THEOREM AccountsBalance == Spec => []SearchAccounts
<1>1. Init => SearchInv /\ AccountsInv
  <2>1. Init => AccountsInv
    BY DEF Init, AccountsInv
  <2>2. QED
    BY <2>1, InitInv
<1>2. SearchInv /\ AccountsInv /\ [Next]_vars => (SearchInv /\ AccountsInv)'
  BY NextInv, AccountsNext
<1>3. AccountsInv => SearchAccounts
  BY DEF AccountsInv, Balanced, SearchAccounts, Below, Added
<1>4. QED
  BY <1>1, <1>2, <1>3, PTL DEF Spec
=============================================================================
