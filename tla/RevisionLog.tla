---------------------------- MODULE RevisionLog ----------------------------
(***************************************************************************)
(* What the board promises those who edit its model: an edit is one        *)
(* indivisible step that takes the current text to the next one, so every  *)
(* revision was made from exactly the revision it replaces, and it keeps   *)
(* that revision's requirement blocks unchanged.  On the board itself the  *)
(* reading and the committing of a model are far apart, with other commits *)
(* in between, and the blocks are compared with a registry maintained      *)
(* beside the log; this specification has neither.                         *)
(***************************************************************************)
EXTENDS Integers, Sequences

CONSTANTS Texts, Identities, InitialText

VARIABLES
  log,    \* the texts, oldest first
  bases   \* for each text but the first, the revision and the text it was made from

Keeps(old, new) ==
  \A n \in DOMAIN Identities[old] :
    n \in DOMAIN Identities[new] /\ Identities[new][n] = Identities[old][n]

LogInit == log = <<InitialText>> /\ bases = <<>>

Edit ==
  LET current == log[Len(log)]
  IN  \E text \in Texts :
        /\ Keeps(current, text)
        /\ log' = Append(log, text)
        /\ bases' = Append(bases, [rev |-> Len(log) - 1, digest |-> current])

LogSpec == LogInit /\ [][Edit]_<<log, bases>>
=============================================================================
