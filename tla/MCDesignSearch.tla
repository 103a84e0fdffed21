--------------------------- MODULE MCDesignSearch ---------------------------
EXTENDS DesignSearch

\* An arbiter of one to three channels and one or two sensors: three channels never find
\* their sensors, a dead end of the search.
MCPoints == {"arbitration", "sensing"}
MCSpaces == {"variation", "catalogue"}
MCVariants == [c \in MCSpaces |-> [p \in MCPoints |->
                 IF c = "catalogue" /\ p = "arbitration" THEN 3 ELSE 2]]
MCClashes == {<< <<"arbitration", a>>, <<"sensing", s>> >> : a \in 2 .. 3, s \in 1 .. 1}
                \union {<< <<"arbitration", 3>>, <<"sensing", 2>> >>}
MCSeeds == {"arbitration"}

\* Two objectives: vectors that dominate, equal or trade off against one another.
MCDims == {1, 2}
MCVectors == {<<1, 2>>, <<2, 1>>, <<1, 1>>}
MCBudget == [c \in MCSpaces |-> IF c = "variation" THEN 2 ELSE 6]

\* The variant types before their block, as introduce_variation writes them.
MCLayouts == {<< <<"types", "arbitration">>, <<"block", "arbitration">>,
                 <<"types", "sensing">>, <<"block", "sensing">> >>}
=============================================================================
