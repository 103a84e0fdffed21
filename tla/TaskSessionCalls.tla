-------------------------- MODULE TaskSessionCalls --------------------------
(***************************************************************************)
(* The sessions of TaskSession under any caller: every method of a session *)
(* and of the registry, in any order.                                      *)
(***************************************************************************)
EXTENDS TaskSession

CONSTANTS
  TaskIds, Roles,
  Bases,         \* the model identities a session may be opened on
  Budgets,       \* records [turns, tokens]: max_turns and max_tokens
  TokenCounts,   \* the token counts a message may have
  Endings,       \* the statuses that callers close sessions with
  MaxSessions, MaxMessages   \* bounds of the calls below

ASSUME SessionAssumption ==
  /\ Bases \subseteq [rev : Nat, digest : STRING]
  /\ Budgets \subseteq [turns : Nat, tokens : Nat]
  /\ TokenCounts \subseteq Nat
  /\ Endings \subseteq SessionStatus
  /\ MaxSessions \in Nat /\ MaxMessages \in Nat

Message == [role : MessageRoles, tokens : Nat]
Session == [task : TaskIds, role : Roles, base : Bases, budget : Budgets,
            status : SessionStatus, messages : Seq(Message), from : Nat]

PartialRoles == UNION {[D -> Roles] : D \in SUBSET TaskIds}
Registry == [sessions : Seq(Session), roles : PartialRoles]

-----------------------------------------------------------------------------
VARIABLES registry,
          announced  \* history: base of the last stale_after_commit, sessions it saw

sessionVars == <<registry, announced>>

SessionInit == registry = EmptyRegistry /\ announced = [bases |-> {}, seen |-> 0]

OpenSession ==
  /\ Len(registry.sessions) < MaxSessions
  /\ \E task \in TaskIds, role \in Roles, base \in Bases, budget \in Budgets :
       /\ ~OpenRefused(registry, task, role)
       /\ registry' = Opened(registry, task, role, base, budget, 0)
  /\ UNCHANGED announced

AppendMessage ==
  /\ \E s \in DOMAIN registry.sessions, role \in MessageRoles, tokens \in TokenCounts :
       /\ Len(registry.sessions[s].messages) < MaxMessages
       /\ registry' = WithSession(registry, s,
                        Appended(registry.sessions[s], role, tokens))
  /\ UNCHANGED announced

AssertCurrent ==
  /\ \E s \in DOMAIN registry.sessions, base \in Bases :
       registry' = WithSession(registry, s, AssertedCurrent(registry.sessions[s], base))
  /\ UNCHANGED announced

CloseSession ==
  /\ \E s \in DOMAIN registry.sessions, status \in Endings :
       /\ ~CloseRefused(registry.sessions[s], status)
       /\ registry' = WithSession(registry, s, Closed(registry.sessions[s], status))
  /\ UNCHANGED announced

RebaseSession ==
  /\ Len(registry.sessions) < MaxSessions
  /\ \E s \in DOMAIN registry.sessions, base \in Bases :
       /\ ~RebaseRefused(registry, s)
       /\ registry' = Rebased(registry, s, base)
  /\ UNCHANGED announced

CommitAnnounced ==
  \E base \in Bases :
    /\ registry' = StaleAfterCommit(registry, base, 0)
    /\ announced' = [bases |-> {base}, seen |-> Len(registry.sessions)]

SessionNext == \/ OpenSession \/ AppendMessage \/ AssertCurrent \/ CloseSession
               \/ RebaseSession \/ CommitAnnounced

SessionSpec == SessionInit /\ [][SessionNext]_sessionVars

-----------------------------------------------------------------------------
(* Properties                                                              *)

SessionTypeOK == registry \in Registry

\* Whatever is opened, rebased and closed, a task has at most one session that
\* can still write, and all its sessions are of the role that first took it.
OneWriterPerTask ==
  \A s, t \in DOMAIN registry.sessions :
    registry.sessions[s].task = registry.sessions[t].task =>
      /\ registry.sessions[s].role = registry.sessions[t].role
      /\ (registry.sessions[s].status = "OPEN" /\ registry.sessions[t].status = "OPEN")
           => s = t

\* A session may be rebased again and again while it is STALE (rebase), also when a
\* session rebased from it earlier has been used and closed.  What was rebased stays
\* STALE, and all older sessions of the task, the earlier rebasings among them, have
\* ended by the time a rebased session exists: they only ever follow one another.
RebaseChains ==
  \A s \in DOMAIN registry.sessions :
    LET new == registry.sessions[s]
    IN  new.from # 0 =>
          /\ registry.sessions[new.from].status = "STALE"
          /\ \A t \in 1 .. s - 1 :
               registry.sessions[t].task = new.task => registry.sessions[t].status # "OPEN"

\* Once a commit has been announced, a session that can still write either was
\* opened afterwards or has exactly the announced revision and digest as base.
OpenSessionsCurrent ==
  \A s \in 1 .. announced.seen, base \in announced.bases :
    registry.sessions[s].status = "OPEN" => registry.sessions[s].base = base

\* A session that has left OPEN never writes again and never reopens; the one
\* change of status left to it is to STALE.
ClosedForGood ==
  [][\A s \in DOMAIN registry.sessions :
       registry.sessions[s].status # "OPEN" =>
         /\ registry'.sessions[s].messages = registry.sessions[s].messages
         /\ registry'.sessions[s].status \in {registry.sessions[s].status, "STALE"}]_sessionVars
=============================================================================
