---------------------------- MODULE MCScenarios ----------------------------
(* Command-driven machines are the choices of up to four of a dozen         *)
(* transitions, in this order: forks on one trigger and on two, a loop,     *)
(* guards that are driven, declared, compound or out of reach, emergencies  *)
(* to a state of their own, back onto the chain and in conflict with it,    *)
(* and a transition that needs no command.                                  *)
EXTENDS Scenarios

MCStates == {"A", "B", "C", "D", "E"}
MCTriggers == {"x", "y", "z"}
MCBooleans == {"armed", "low"}
MCDeclared == {"near"}

Is(attr, value) == [attr |-> attr, value |-> value]
On(source, trigger, guard, target) ==
    [source |-> source, trigger |-> trigger, guard |-> guard, target |-> target,
     emergency |-> FALSE]
Emergency(t) == [t EXCEPT !.emergency = TRUE]

Candidates == <<
    On("A", "y", {}, "C"),
    On("A", "x", {}, "B"),
    On("A", "x", {}, "C"),
    On("B", "y", {Is("armed", TRUE)}, "C"),
    On("B", "z", {Is("near", TRUE)}, "C"),
    On("C", "x", {}, "A"),
    On("C", "y", {Is("armed", TRUE), Is("low", TRUE)}, "B"),
    Emergency(On("B", "x", {Is("armed", TRUE)}, "E")),
    Emergency(On("B", "y", {}, "E")),
    Emergency(On("C", "z", {Is("far", TRUE)}, "B")),
    Emergency(On("A", "z", {}, "E")),
    Emergency(On("C", "y", {}, "E")),
    On("A", NoCommand, {Is("armed", FALSE)}, "C"),
    On("A", "x", {Is("far", TRUE)}, "B")>>

\* Two ways to E, of which the first that is expanded has to be the shorter.
Fork ==
    [initial |-> "A", entry |-> {"E"},
     transitions |-> <<On("A", "x", {}, "B"), On("A", "y", {}, "C"), On("C", "x", {}, "D"),
                       On("D", "y", {}, "E"), On("B", "y", {}, "E")>>]

MCFlights ==
    {Fork} \union
    {[initial |-> "A", entry |-> {"E"},
      transitions |-> [n \in 1 .. Cardinality(S) |->
                         Candidates[CHOOSE k \in S : Cardinality({j \in S : j <= k}) = n]]] :
        S \in {T \in SUBSET (1 .. Len(Candidates)) :
                 /\ Cardinality(T) \in 1 .. 4
                 /\ \E k \in T : Candidates[k].trigger # NoCommand}}

Watching(entry, sends, transitions) ==
    [initial |-> "A", entry |-> entry, sends |-> sends, transitions |-> transitions]
MCMonitors == {
    Watching({"E"}, <<"x">>, <<On("A", NoCommand, {Is("low", TRUE)}, "E")>>),
    Watching({"E"}, <<"y", "z">>, <<On("A", NoCommand, {Is("low", TRUE), Is("armed", TRUE)}, "B"),
                                    On("B", NoCommand, {Is("low", TRUE)}, "E")>>),
    Watching({"A", "E"}, <<"z">>, <<On("A", NoCommand, {Is("low", FALSE)}, "E")>>),
    Watching({"E"}, <<"z">>, <<On("A", NoCommand, {Is("far", TRUE)}, "E")>>)}
=============================================================================
