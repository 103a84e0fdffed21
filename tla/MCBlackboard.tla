---------------------------- MODULE MCBlackboard ----------------------------
(* Two requirement names; a text may lack a block, hold it, or hold it with *)
(* another contract or another source text.                                 *)
EXTENDS BlackboardCalls

MCNames == {"r1", "r2"}
MCDocs == {"d", "e"}
MCBodies == {"d_strict", "d_weak", "e_strict"}
MCDocOf == [x \in MCBodies |-> IF x = "e_strict" THEN "e" ELSE "d"]

Def(n, body) == [m \in {n} |-> body]
Both(x, y) == [m \in MCNames |-> IF m = "r1" THEN x ELSE y]
MCTexts == {"empty", "t1", "t1weak", "t2", "t12", "t12e"}
MCIdentities ==
  [t \in MCTexts |->
     CASE t = "empty"  -> NoReqs
       [] t = "t1"     -> Def("r1", "d_strict")
       [] t = "t1weak" -> Def("r1", "d_weak")
       [] t = "t2"     -> Def("r2", "d_strict")
       [] t = "t12"    -> Both("d_strict", "d_strict")
       [] t = "t12e"   -> Both("d_strict", "e_strict")]

Requirements(reqs) ==
  [type |-> "SOURCE", topic |-> "requirements.authoritative", reqs |-> reqs,
   bound |-> TRUE]
MCNotes ==
  {Requirements(Def("r1", "d")), Requirements(Def("r2", "e")),
   [type |-> "ANALYSIS", topic |-> "analysis", reqs |-> NoReqs, bound |-> TRUE]}
=============================================================================
