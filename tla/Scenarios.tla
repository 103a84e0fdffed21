----------------------------- MODULE Scenarios -----------------------------
(***************************************************************************)
(* The behavioural simulation of command-driven state machines: the        *)
(* executor of simulation/state_executor.py and the scenarios that         *)
(* simulation/behavioral_sim.py derives from a model and drives it with:   *)
(* the nominal chain, one scenario per emergency branch, a fault monitor   *)
(* on its own, and a monitor whose command the machine has to accept.      *)
(* The verdicts gate refinement (module Refinement: behaviour, failing).   *)
(*                                                                         *)
(* A model is one command-driven machine and one monitor.  A guard is a    *)
(* set of conditions, of Boolean attributes (of a monitor: comparisons     *)
(* that a plan sweeps as well) or of comparisons that hold or not by the   *)
(* declared values; two conditions are a conjunction.  Entering a state    *)
(* always logs its action, so that the check that an emergency state's     *)
(* action was called cannot fail; it is left out.                          *)
(***************************************************************************)
EXTENDS Naturals, Sequences, FiniteSets, SequencesExt

CONSTANTS
    States,
    Triggers,
    NoCommand,     \* no accept trigger, or no command in a step
    Booleans,      \* the Boolean attributes of guards
    Declared,      \* the comparisons that the declared values satisfy
    Flights,       \* the command-driven machines
    Monitors       \* the machines without accept triggers, with the commands they send

ASSUME CommandAssumption == NoCommand \notin Triggers

(* transitions are those of the text but for the initial one, in its order; *)
(* emergency is what _classify_accept_transitions reads from the names.     *)
ASSUME MachinesAssumption ==
    \A m \in Flights \union Monitors :
        /\ m.initial \in States /\ m.entry \subseteq States
        /\ \A k \in DOMAIN m.transitions :
              /\ m.transitions[k].source \in States /\ m.transitions[k].target \in States
              /\ m.transitions[k].trigger \in Triggers \union {NoCommand}
ASSUME KindsAssumption ==
    /\ \A m \in Flights : \E k \in DOMAIN m.transitions : m.transitions[k].trigger # NoCommand
    /\ \A m \in Monitors :
          /\ \A k \in DOMAIN m.transitions : m.transitions[k].trigger = NoCommand
          /\ \E k \in DOMAIN m.transitions : m.transitions[k].guard # {}

VARIABLES
    flight, monitor,   \* the machines of the model
    pc,                \* next scenario, drive, watch, judge; raised if an exception left
    todo,              \* the scenarios still to run
    scenario,          \* the one that runs
    inputs,            \* the steps still to take
    inst,              \* the StateMachineInstance that is driven
    watched,           \* the monitor's instance in a cross-component scenario
    mark,              \* transitions fired before the command was sent
    results            \* the verdicts, each with the log it was read from

vars == <<flight, monitor, pc, todo, scenario, inputs, inst, watched, mark, results>>

-----------------------------------------------------------------------------
(* The executor.                                                           *)

Least(S) == CHOOSE k \in S : \A j \in S : k <= j

\* _eval_guard, over the attributes that the step sets to true.
Holds(guard, on) ==
    \A c \in guard : IF c.attr \in Booleans THEN (c.attr \in on) = c.value
                     ELSE c.attr \in Declared

Eligible(t, input) ==
    /\ t.trigger # NoCommand => t.trigger = input.command
    /\ t.trigger = NoCommand => t.guard # {}
    /\ Holds(t.guard, input.on)

Instance(m) == [at |-> m.initial, log |-> <<>>]

\* StateMachineInstance.step: the first eligible transition in the order of the text.
Step(m, i, input) ==
    LET can == {k \in DOMAIN m.transitions :
                   m.transitions[k].source = i.at /\ Eligible(m.transitions[k], input)}
    IN  IF can = {} THEN i
        ELSE [at |-> m.transitions[Least(can)].target, log |-> Append(i.log, Least(can))]

Execute(m, i, steps) == FoldLeft(LAMBDA j, input : Step(m, j, input), i, steps)

-----------------------------------------------------------------------------
(* Paths through the nominal transitions.                                  *)

Indices(m) == [k \in DOMAIN m.transitions |-> k]
Nominal(m) == {k \in DOMAIN m.transitions :
                  m.transitions[k].trigger # NoCommand /\ ~m.transitions[k].emergency}
Emergencies(m) ==
    SelectSeq(Indices(m), LAMBDA k : m.transitions[k].trigger # NoCommand
                                     /\ m.transitions[k].emergency)
\* The edges of _build_nominal_multigraph that leave s, in order.
Edges(m, s) ==
    SelectSeq(Indices(m), LAMBDA k : k \in Nominal(m) /\ m.transitions[k].source = s)
Commands(m, path) == [k \in DOMAIN path |-> m.transitions[path[k]].trigger]

Longer(candidate, best) == Len(candidate) > Len(best)

RECURSIVE LongestFrom(_, _, _)
LongestFrom(m, s, visited) ==
    LET Better(best, k) ==
            LET t == m.transitions[k].target
                candidate == <<k>> \o LongestFrom(m, t, visited \union {t})
            IN  IF t \in visited THEN best
                ELSE IF Longer(candidate, best) THEN candidate ELSE best
    IN  FoldLeft(Better, <<>>, Edges(m, s))
\* _longest_nominal_path, as the transitions taken.
LongestPath(m) == LongestFrom(m, m.initial, {m.initial})

\* Mutant: the queue is used as a stack.
MutEnqueue(queue, item) == <<item>> \o queue
Enqueue(queue, item) == Append(queue, item)

NoRoute == [found |-> FALSE, commands |-> <<>>]
Route(commands) == [found |-> TRUE, commands |-> commands]

RECURSIVE Search(_, _, _, _)
Search(m, queue, visited, target) ==
    LET here == Head(queue)
        edges == Edges(m, here.at)
        To(k) == m.transitions[k].target
        Along(k) == Append(here.commands, m.transitions[k].trigger)
        hits == {e \in DOMAIN edges : To(edges[e]) = target}
        Visit(q, k) ==
            IF To(k) \in q.visited THEN q
            ELSE [visited |-> q.visited \union {To(k)},
                  queue |-> Enqueue(q.queue, [at |-> To(k), commands |-> Along(k)])]
        next == FoldLeft(Visit, [visited |-> visited, queue |-> Tail(queue)], edges)
    IN  IF hits # {} THEN Route(Along(edges[Least(hits)]))
        ELSE IF next.queue = <<>> THEN NoRoute
        ELSE Search(m, next.queue, next.visited, target)
\* _bfs_nav_cmds from the initial state.
Navigation(m, target) ==
    IF target = m.initial THEN Route(<<>>)
    ELSE Search(m, <<[at |-> m.initial, commands |-> <<>>]>>, {m.initial}, target)

-----------------------------------------------------------------------------
(* What the scenarios feed to the executor.                                *)

Input(command, on) == [command |-> command, on |-> on]
Idle == Input(NoCommand, {})

\* The attribute a scenario sets to true for the guard of the transition it wants, which
\* has to be a Boolean alone.
Driven(t) ==
    IF Cardinality(t.guard) = 1
    THEN {c.attr : c \in {d \in t.guard : d.attr \in Booleans /\ d.value}} ELSE {}

\* The first transition with these ends and this trigger, whatever its kind.
SameEdge(m, k) ==
    Least({j \in DOMAIN m.transitions :
             /\ m.transitions[j].source = m.transitions[k].source
             /\ m.transitions[j].target = m.transitions[k].target
             /\ m.transitions[j].trigger = m.transitions[k].trigger})

NominalInputs(m) ==
    <<Idle, Idle>> \o FlattenSeq([n \in DOMAIN LongestPath(m) |->
        LET t == m.transitions[SameEdge(m, LongestPath(m)[n])]
        IN  <<Input(t.trigger, Driven(t)), Idle>>])

\* An emergency's source is reached along the nominal path where that leads there.
RouteTo(m, s) ==
    LET path == LongestPath(m)
        at == {n \in DOMAIN path : m.transitions[path[n]].target = s}
    IN  IF s # m.initial /\ at # {}
        THEN Route(Commands(m, SubSeq(path, 1, Least(at))))
        ELSE Navigation(m, s)

Navigate(commands) ==
    FlattenSeq([n \in DOMAIN commands |-> <<Input(commands[n], {}), Idle>>])

EmergencyInputs(m, k) ==
    LET t == m.transitions[k]
    IN  <<Idle, Idle>> \o Navigate(RouteTo(m, t.source).commands)
          \o <<Input(t.trigger, Driven(t)), Idle, Idle, Idle>>

\* A nominal transition from the same source takes the same trigger.
Ambiguous(m, k) ==
    \E n \in Nominal(m) : /\ m.transitions[n].source = m.transitions[k].source
                          /\ m.transitions[n].trigger = m.transitions[k].trigger

\* _build_driver_plans of a monitor: one condition of its first guard is held off for five
\* steps and then turned on, beside the others. What nothing resolves has no plan.
FirstGuard(m) ==
    m.transitions[Least({k \in DOMAIN m.transitions : m.transitions[k].guard # {}})].guard
HasPlan(m) == \A c \in FirstGuard(m) : c.attr \in Booleans
Plan(m) ==
    LET on == {c.attr : c \in {d \in FirstGuard(m) : d.value}}
        flipped == CHOOSE c \in FirstGuard(m) : TRUE
        off == IF flipped.value THEN on \ {flipped.attr} ELSE on \union {flipped.attr}
    IN  [n \in 1 .. 20 |-> Input(NoCommand, IF n <= 5 THEN off ELSE on)]

\* The source of an accepting transition that the fewest nominal commands lead to.
Accepting(m, command) == {m.transitions[k].source : k \in
                            {j \in DOMAIN m.transitions : m.transitions[j].trigger = command}}
\* Mutant: any state that accepts the command will do.
MutNearest(m, command) ==
    {Navigation(m, s) : s \in {a \in Accepting(m, command) : Navigation(m, a).found}}
Nearest(m, command) ==
    LET routes == {Navigation(m, s) : s \in {a \in Accepting(m, command) :
                                                Navigation(m, a).found}}
    IN  {r \in routes : \A q \in routes : Len(r.commands) <= Len(q.commands)}

-----------------------------------------------------------------------------
(* The simulation: run_behavioral_simulation.                              *)

Scenario(kind, of) == [kind |-> kind, of |-> of]

Scenarios(m, w) ==
    (IF Nominal(m) = {} THEN <<>> ELSE <<Scenario("nominal", 0)>>)
      \o [n \in DOMAIN Emergencies(m) |-> Scenario("emergency", Emergencies(m)[n])]
      \o <<Scenario("monitor", 0)>>
      \o [n \in DOMAIN SelectSeq(w.sends, LAMBDA c : Accepting(m, c) # {}) |->
            Scenario("cross", SelectSeq(w.sends, LAMBDA c : Accepting(m, c) # {})[n])]

Init ==
    /\ flight \in Flights /\ monitor \in Monitors
    /\ pc = "next" /\ todo = Scenarios(flight, monitor)
    /\ scenario = Scenario("none", 0) /\ inputs = <<>>
    /\ inst = Instance(flight) /\ watched = Instance(monitor) /\ mark = 0
    /\ results = <<>>

Verdict(passed, conflict, log) ==
    Append(results, [scenario |-> scenario', passed |-> passed, conflict |-> conflict,
                     log |-> log, mark |-> mark'])

\* A scenario that is given up before anything is driven.
GiveUp(conflict) ==
    /\ pc' = "next" /\ mark' = 0
    /\ results' = Verdict(FALSE, conflict, <<>>)
    /\ UNCHANGED <<inputs, inst, watched>>

Start(m, steps) ==
    /\ pc' = "drive" /\ inputs' = steps /\ inst' = Instance(m) /\ mark' = 0
    /\ UNCHANGED <<watched, results>>

Take(kind) ==
    /\ pc = "next" /\ todo # <<>> /\ Head(todo).kind = kind
    /\ scenario' = Head(todo) /\ todo' = Tail(todo)
    /\ UNCHANGED <<flight, monitor>>

StartNominal ==
    /\ Take("nominal")
    /\ IF LongestPath(flight) = <<>> THEN GiveUp(FALSE)
       ELSE Start(flight, NominalInputs(flight))

StartEmergency ==
    /\ Take("emergency")
    /\ LET k == Head(todo).of IN
       IF ~RouteTo(flight, flight.transitions[k].source).found THEN GiveUp(FALSE)
       ELSE IF Ambiguous(flight, k) THEN GiveUp(TRUE)
       ELSE Start(flight, EmergencyInputs(flight, k))

StartMonitor ==
    /\ Take("monitor")
    /\ IF HasPlan(monitor) THEN Start(monitor, Plan(monitor)) ELSE GiveUp(FALSE)

\* The machine is navigated first; then the monitor is driven until its fault fires.
StartCross ==
    /\ Take("cross")
    /\ IF Nearest(flight, Head(todo).of) = {} \/ ~HasPlan(monitor) THEN GiveUp(FALSE)
       ELSE /\ \E r \in Nearest(flight, Head(todo).of) :
                  inst' = Execute(flight, Instance(flight), Navigate(r.commands))
            /\ watched' = Instance(monitor) /\ inputs' = Plan(monitor)
            /\ mark' = Len(inst'.log)
            /\ pc' = "watch"
            /\ UNCHANGED results

Machine == IF scenario.kind = "monitor" THEN monitor ELSE flight

\* A monitor on its own stops once it has moved into a fault state.
Drive ==
    /\ pc = "drive"
    /\ inst' = Step(Machine, inst, Head(inputs))
    /\ inputs' = IF scenario.kind = "monitor" /\ inst' # inst /\ inst'.at \in monitor.entry
                 THEN <<>> ELSE Tail(inputs)
    /\ pc' = IF inputs' = <<>> THEN "judge" ELSE "drive"
    /\ UNCHANGED <<flight, monitor, todo, scenario, watched, mark, results>>

\* The command is sent once the monitor is in a fault state, whether it moved or not; the
\* event that took it there is read from a log that may be empty.
Watch ==
    /\ pc = "watch"
    /\ watched' = Step(monitor, watched, Head(inputs))
    /\ IF watched'.at \notin monitor.entry
       THEN /\ inputs' = Tail(inputs)
            /\ pc' = IF inputs' = <<>> THEN "judge" ELSE "watch"
            /\ UNCHANGED inst
       ELSE /\ inputs' = <<>>
            /\ IF watched'.log = <<>> THEN pc' = "raised" /\ UNCHANGED inst
               ELSE /\ pc' = "judge"
                    /\ inst' = Execute(flight, inst, <<Input(scenario.of, {}), Idle>>)
    /\ UNCHANGED <<flight, monitor, todo, scenario, mark, results>>

Entered(m, log) == {m.transitions[log[n]].target : n \in DOMAIN log}

NominalPassed == Len(inst.log) >= Len(LongestPath(flight))

\* Mutant: it is enough that something fired after the navigation.
MutEmergencyPassed ==
    Len(inst.log) > Len(RouteTo(flight, flight.transitions[scenario.of].source).commands)
EmergencyPassed == flight.transitions[scenario.of].target \in Entered(flight, inst.log)

MonitorPassed ==
    /\ inst.log # <<>>
    /\ monitor.entry # {} => monitor.transitions[Last(inst.log)].target \in monitor.entry

\* Any event of the log that this command fired counts.
CrossPassed ==
    /\ watched.at \in monitor.entry
    /\ \E n \in DOMAIN inst.log : flight.transitions[inst.log[n]].trigger = scenario.of

Judge ==
    /\ pc = "judge"
    /\ UNCHANGED <<scenario, mark>>
    /\ results' = Verdict(CASE scenario.kind = "nominal"   -> NominalPassed
                            [] scenario.kind = "emergency" -> EmergencyPassed
                            [] scenario.kind = "monitor"   -> MonitorPassed
                            [] scenario.kind = "cross"     -> CrossPassed,
                          FALSE, inst.log)
    /\ pc' = "next"
    /\ UNCHANGED <<flight, monitor, todo, inputs, inst, watched>>

Next ==
    \/ StartNominal \/ StartEmergency \/ StartMonitor \/ StartCross
    \/ Drive \/ Watch \/ Judge

Spec == Init /\ [][Next]_vars

-----------------------------------------------------------------------------
(* Properties.                                                             *)

(* Reference: the walks from the initial state that repeat no state, and a *)
(* shortest walk to a state.                                               *)
Chained(m, w) ==
    \A n \in DOMAIN w : m.transitions[w[n]].source =
        IF n = 1 THEN m.initial ELSE m.transitions[w[n - 1]].target
Visits(m, w) == {m.initial} \union Entered(m, w)
Walks(m) ==
    {w \in UNION {[1 .. n -> Nominal(m)] : n \in 0 .. Cardinality(States) - 1} :
        Chained(m, w) /\ Cardinality(Visits(m, w)) = Len(w) + 1}
WalksTo(m, s) ==
    {w \in Walks(m) : IF w = <<>> THEN s = m.initial ELSE m.transitions[Last(w)].target = s}
Before(v, w) == \E n \in DOMAIN v : v[n] < w[n] /\ \A k \in 1 .. n - 1 : v[k] = w[k]

(* The search functions do what their names say: the nominal path is the   *)
(* first longest one without a loop, and the commands found for a state    *)
(* are those of a shortest walk to it, none if and only if there is none.  *)
PathsAreRight ==
    pc = "next" /\ results = <<>> =>
        /\ LongestPath(flight) \in Walks(flight)
        /\ \A w \in Walks(flight) : w # LongestPath(flight) =>
              \/ Len(w) < Len(LongestPath(flight))
              \/ Len(w) = Len(LongestPath(flight)) /\ Before(LongestPath(flight), w)
        /\ \A s \in States :
              LET r == Navigation(flight, s) IN
              /\ r.found <=> WalksTo(flight, s) # {}
              /\ r.found => \E w \in WalksTo(flight, s) :
                    /\ r.commands = Commands(flight, w)
                    /\ \A v \in WalksTo(flight, s) : Len(w) <= Len(v)

\* At most one transition can answer a command, and none moves without one.
Deterministic(m) ==
    \A j, k \in DOMAIN m.transitions :
        /\ m.transitions[j].trigger # NoCommand
        /\ m.transitions[j].source = m.transitions[k].source
              /\ m.transitions[j].trigger = m.transitions[k].trigger => j = k
Drivable(t) == Holds(t.guard, Driven(t))

\* The branch of an emergency scenario was executed, and was what it ended with.
BranchDriven(r) == r.log # <<>> /\ Last(r.log) = r.scenario.of

\* The navigation of an emergency scenario, which sets no attribute, gets to its source
\* and does not come past its target.
Arrives(t) ==
    LET route == RouteTo(flight, t.source)
        there == Execute(flight, Instance(flight), Navigate(route.commands))
    IN  route.found /\ there.at = t.source /\ t.target \notin Entered(flight, there.log)

(* Where a model leaves the executor no choice, a verdict is about the     *)
(* behaviour it names: the nominal scenario passes exactly when the whole  *)
(* chain fired in order, and an emergency that is navigated to exactly     *)
(* when its branch fired from its source; a failing one has a guard that   *)
(* the scenario cannot satisfy.                                            *)
VerdictsAreTrue ==
    \A n \in DOMAIN results :
        LET r == results[n]
            path == LongestPath(flight)
            t == flight.transitions[r.scenario.of]
        IN  Deterministic(flight) =>
              /\ r.scenario.kind = "nominal" =>
                    /\ r.passed <=> path # <<>> /\ r.log = path
                    /\ r.passed <=> path # <<>> /\ \A k \in DOMAIN path :
                                                    Drivable(flight.transitions[path[k]])
              /\ r.scenario.kind = "emergency" /\ Arrives(t) =>
                    /\ r.passed <=> BranchDriven(r)
                    /\ r.passed <=> Drivable(t)

(* A cross-component scenario passes only if the machine took the command  *)
(* the monitor sent: no event of the navigation before it can stand in for *)
(* it, in any machine, since the nearest accepting state is navigated to.  *)
CommandWasTaken ==
    \A n \in DOMAIN results :
        LET r == results[n] IN
        r.scenario.kind = "cross" /\ r.passed =>
            \E k \in r.mark + 1 .. Len(r.log) :
                flight.transitions[r.log[k]].trigger = r.scenario.of

(* A branch that was not executed is not credited (the comment on the      *)
(* trigger conflict, behavioral_sim.py:1014).                              *)
PassedBranchIsDriven ==
    \A n \in DOMAIN results :
        results[n].scenario.kind = "emergency" /\ results[n].passed => BranchDriven(results[n])

(* A monitor may have an action in its initial state (the comment in       *)
(* _run_scenario, behavioral_sim.py:640) and is simulated all the same.    *)
SimulationReturns == pc # "raised"
=============================================================================
