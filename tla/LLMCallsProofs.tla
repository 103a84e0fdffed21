--------------------------- MODULE LLMCallsProofs ---------------------------
(***************************************************************************)
(* Proofs about LLMCalls, for any retry ladders and bounds.  A request     *)
(* that has missed its deadline leaves no worker behind, working or on its *)
(* way out, and is never replayed; the ledger, the retries of the call in  *)
(* progress and its open request add up to the requests sent, at every     *)
(* step; the archive ends with the turns of the conversation, each exactly *)
(* once.                                                                   *)
(***************************************************************************)
EXTENDS LLMCalls, FiniteSetTheorems, TLAPS

Calls == [phase : Phases, retries : Nat, refreshed : BOOLEAN,
          error : Errors \union {"none"}]
Ledgers == [calls : Nat, retries : Nat, failures : Nat]

Typed ==
  /\ call \in Calls /\ ledger \in Ledgers
  /\ requests \in Nat /\ refreshes \in Nat
  /\ pipe \in Errors \union {"empty", "ok"}

\* Only the request that is waited for, or is being stopped, has a worker at work; a worker
\* on its way out was in time, or is being stopped.
Workers ==
  /\ live \subseteq {requests}
  /\ provider # "vertex" => live = {}
  /\ call.phase \in {"idle", "attempt", "answered", "failed"} => live = {}
  /\ call.phase = "waiting" /\ pipe # "empty" => live = {}
  /\ call.phase # "stopping" => overdue \intersect exiting = {}

\* Between its deadline and the end of its call, an overdue request is being stopped or
\* has failed with the error that is not retried.
Late ==
  /\ overdue \subseteq {requests}
  /\ overdue # {} =>
       \/ call.phase = "idle"
       \/ provider = "vertex" /\ call.phase = "stopping"
       \/ provider = "vertex" /\ call.phase = "failed" /\ call.error = "timeout"

\* The request of the attempt in progress, which nothing has counted yet.
Open == IF call.phase \in {"waiting", "stopping", "answered", "failed"} THEN 1 ELSE 0

Balance ==
  /\ requests = ledger.calls + ledger.failures + ledger.retries + refreshes
                + call.retries + Open
  /\ call.phase = "idle" => call.retries = 0

CallInv == Typed /\ Workers /\ Late /\ Balance

USE DEF Errors, Phases

\* One request more, and one place where it is counted.
LEMMA OneMore ==
  ASSUME NEW a \in Nat, NEW b \in Nat, NEW c \in Nat, NEW d \in Nat, NEW e \in Nat
  PROVE  /\ a + b + c + d + e + 1 = a + b + c + (d + 1) + e + 0
         /\ a + b + c + d + e + 1 = a + b + c + d + (e + 1) + 0
         /\ a + b + c + d + e + 1 = (a + 1) + b + (c + e) + d + 0 + 0
         /\ a + b + c + d + e + 1 = a + (b + 1) + (c + e) + d + 0 + 0
OBVIOUS

-----------------------------------------------------------------------------
LEMMA InitInv == Init => CallInv
<1> SUFFICES ASSUME Init PROVE CallInv
  OBVIOUS
<1>1. /\ call = [phase |-> "idle", retries |-> 0, refreshed |-> FALSE, error |-> "none"]
      /\ ledger = [calls |-> 0, retries |-> 0, failures |-> 0]
  BY DEF Init, Idle
<1>2. Typed
  BY <1>1 DEF Init, Typed, Calls, Ledgers
<1>3. Workers /\ Late
  BY <1>1 DEF Init, Workers, Late
<1>4. Balance
  BY <1>1 DEF Init, Balance, Open
<1>5. QED
  BY <1>2, <1>3, <1>4 DEF CallInv

\* A call starts with its whole ladder, nothing overdue and no worker.
LEMMA JobInv ==
  ASSUME CallInv, StartConversation \/ StartEscalation \/ AskAgain
  PROVE  CallInv'
<1>1. /\ call' = [phase |-> "attempt", retries |-> 0, refreshed |-> FALSE,
                  error |-> "none"]
      /\ overdue' = {} /\ call.phase = "idle"
      /\ UNCHANGED <<provider, live, exiting, pipe, ledger, requests, refreshes>>
  BY DEF StartConversation, StartEscalation, AskAgain, Enter, Idle
<1>2. Typed'
  BY <1>1 DEF CallInv, Typed, Calls
<1>3. Workers' /\ Late'
  BY <1>1 DEF CallInv, Workers, Late
<1>4. Balance'
  <2>1. ledger \in Ledgers /\ requests \in Nat /\ refreshes \in Nat /\ call.retries = 0
    BY <1>1 DEF CallInv, Typed, Balance
  <2>2. QED
    BY <1>1, <2>1 DEF CallInv, Balance, Open, Ledgers
<1>5. QED
  BY <1>2, <1>3, <1>4 DEF CallInv

LEMMA EndJobInv ==
  ASSUME CallInv, EndJob
  PROVE  CallInv'
BY DEF CallInv, Typed, Workers, Late, Balance, Open, EndJob

\* The request is counted as open; only a Vertex request has a worker.
LEMMA RequestInv ==
  ASSUME CallInv, Request
  PROVE  CallInv'
<1>1. /\ call' = [call EXCEPT !.phase = "waiting"] /\ call \in Calls
      /\ requests' = requests + 1 /\ requests \in Nat
      /\ live = {} /\ overdue = {} /\ overdue' = {} /\ pipe' = "empty"
      /\ call.phase = "attempt"
  BY DEF CallInv, Typed, Workers, Late, Request
<1>2. /\ call' \in Calls /\ call'.phase = "waiting" /\ call'.retries = call.retries
  BY <1>1 DEF Calls
<1>3. Typed'
  BY <1>1, <1>2 DEF CallInv, Typed, Request
<1>4. Workers' /\ Late'
  BY <1>1, <1>2 DEF Workers, Late, Request
<1>5. Balance'
  <2>1. ledger \in Ledgers /\ refreshes \in Nat /\ call.retries \in Nat
    BY <1>1 DEF CallInv, Typed, Calls
  <2>2. requests = ledger.calls + ledger.failures + ledger.retries + refreshes
                   + call.retries + 0
    BY <1>1 DEF CallInv, Balance, Open
  <2>3. Open' = 1 /\ UNCHANGED <<ledger, refreshes>>
    BY <1>2 DEF Open, Request
  <2>4. QED
    BY <1>1, <1>2, <2>1, <2>2, <2>3 DEF Balance, Ledgers
<1>6. QED
  BY <1>3, <1>4, <1>5 DEF CallInv

\* The call's open request ends in an answer or an error: the balance stands.
LEMMA OutcomeInv ==
  ASSUME CallInv, SdkReturns \/ Receive \/ DeadlinePasses \/ StopWorker
  PROVE  CallInv'
<1>1. call \in Calls /\ pipe \in Errors \union {"empty", "ok"}
  BY DEF CallInv, Typed
<1>2. /\ call' \in Calls /\ call'.retries = call.retries
      /\ call.phase \in {"waiting", "stopping"}
      /\ call'.phase \in {"answered", "failed", "stopping"}
  BY <1>1 DEF SdkReturns, Receive, DeadlinePasses, StopWorker, Calls
<1>3. UNCHANGED <<provider, ledger, requests, refreshes>>
  BY DEF SdkReturns, Receive, DeadlinePasses, StopWorker
<1>4. Typed'
  BY <1>1, <1>2, <1>3
     DEF CallInv, Typed, SdkReturns, Receive, DeadlinePasses, StopWorker
<1>5. Workers'
  <2>1. CASE SdkReturns
    BY <1>2, <2>1 DEF CallInv, Workers, SdkReturns
  <2>2. CASE Receive
    <3>1. /\ live = {} /\ live' = live /\ overdue \intersect exiting = {}
          /\ UNCHANGED <<exiting, overdue>>
      BY <2>2 DEF CallInv, Workers, Receive
    <3>2. QED
      BY <1>2, <3>1 DEF Workers
  <2>3. CASE DeadlinePasses
    BY <1>1, <2>3 DEF CallInv, Workers, DeadlinePasses, Calls
  <2>4. CASE StopWorker
    <3>1. live \subseteq {requests} /\ overdue \subseteq {requests}
      BY DEF CallInv, Workers, Late
    <3>2. live' = {} /\ overdue' \intersect exiting' = {}
      BY <2>4, <3>1 DEF StopWorker, Surviving
    <3>3. QED
      BY <3>2 DEF Workers
  <2>5. QED
    BY <2>1, <2>2, <2>3, <2>4
<1>6. Late'
  <2>1. CASE SdkReturns \/ Receive
    <3>1. overdue = {} /\ overdue' = overdue
      BY <2>1 DEF CallInv, Late, SdkReturns, Receive
    <3>2. QED
      BY <3>1 DEF Late
  <2>2. CASE DeadlinePasses
    BY <1>1, <2>2 DEF CallInv, Late, DeadlinePasses, Calls
  <2>3. CASE StopWorker
    BY <1>1, <2>3 DEF CallInv, Late, StopWorker, Calls
  <2>4. QED
    BY <2>1, <2>2, <2>3
<1>7. Balance'
  <2>1. Open = 1 /\ Open' = 1
    BY <1>2 DEF Open
  <2>2. QED
    BY <1>2, <1>3, <2>1 DEF CallInv, Balance
<1>8. QED
  BY <1>4, <1>5, <1>6, <1>7 DEF CallInv

\* A token refresh counts the request that it replays.
LEMMA AuthErrorInv ==
  ASSUME CallInv, AuthError
  PROVE  CallInv'
<1>1. /\ call \in Calls /\ call.phase = "waiting" /\ provider = "github"
      /\ live = {} /\ overdue = {}
      /\ UNCHANGED <<provider, live, exiting, pipe, ledger, requests, overdue>>
  BY DEF CallInv, Typed, Workers, Late, AuthError
<1>2. /\ call' \in Calls /\ call'.retries = call.retries
      /\ \/ call'.phase = "attempt" /\ refreshes' = refreshes + 1
         \/ call'.phase = "failed" /\ refreshes' = refreshes
  BY <1>1 DEF AuthError, Calls
<1>3. Typed'
  BY <1>1, <1>2 DEF CallInv, Typed
<1>4. Workers' /\ Late'
  BY <1>1, <1>2 DEF Workers, Late
<1>5. Balance'
  <2>1. /\ ledger.calls \in Nat /\ ledger.failures \in Nat /\ ledger.retries \in Nat
        /\ refreshes \in Nat /\ call.retries \in Nat
    BY <1>1 DEF CallInv, Typed, Calls, Ledgers
  <2>2. requests = ledger.calls + ledger.failures + ledger.retries + refreshes
                   + call.retries + 1
    BY <1>1 DEF CallInv, Balance, Open
  <2>3. \/ Open' = 0 /\ refreshes' = refreshes + 1
        \/ Open' = 1 /\ refreshes' = refreshes
    BY <1>2 DEF Open
  <2>4. requests' = ledger'.calls + ledger'.failures + ledger'.retries + refreshes'
                    + call'.retries + Open'
    BY <1>1, <1>2, <2>1, <2>2, <2>3, OneMore
  <2>5. QED
    BY <1>2, <2>4 DEF Balance
<1>6. QED
  BY <1>3, <1>4, <1>5 DEF CallInv

\* The worker that answers or dies is the one of the current request, which is not overdue
\* unless it is being stopped; one that exits is one less.
LEMMA WorkerInv ==
  ASSUME CallInv, Worker
  PROVE  CallInv'
<1>1. UNCHANGED <<provider, call, ledger, requests, refreshes, overdue>>
  BY DEF Worker, WorkerSends, WorkerExits, WorkerDies
<1>2. CASE WorkerExits
  <2>1. live' = live /\ pipe' = pipe /\ exiting' \subseteq exiting
    BY <1>2 DEF WorkerExits
  <2>2. QED
    BY <1>1, <2>1 DEF CallInv, Typed, Workers, Late, Balance, Open
<1>3. CASE WorkerSends \/ WorkerDies
  <2>1. PICK r \in live, what \in Errors \union {"ok"} :
          /\ live' = live \ {r} /\ exiting' \subseteq exiting \union {r}
          /\ pipe' = IF r = requests /\ call.phase = "waiting" THEN what ELSE pipe
    BY <1>3 DEF WorkerSends, WorkerDies
  <2>2. live' = {} /\ r = requests
    BY <2>1 DEF CallInv, Workers
  <2>3. call.phase \in {"waiting", "stopping"}
    BY <2>1 DEF CallInv, Typed, Calls, Workers
  <2>4. call.phase = "waiting" => overdue = {}
    BY DEF CallInv, Late
  <2>5. Typed' /\ Late' /\ Balance'
    BY <1>1, <2>1 DEF CallInv, Typed, Late, Balance, Open
  <2>6. Workers'
    BY <1>1, <2>2, <2>3, <2>4 DEF Workers
  <2>7. QED
    BY <2>5, <2>6 DEF CallInv
<1>4. QED
  BY <1>2, <1>3 DEF Worker

\* The end of a call moves its request and its retries into the ledger.
LEMMA FinishInv ==
  ASSUME CallInv, Complete \/ GiveUp
  PROVE  CallInv'
<1>1. /\ call \in Calls /\ ledger \in Ledgers /\ requests \in Nat /\ refreshes \in Nat
      /\ call.phase \in {"answered", "failed"}
      /\ call' = [phase |-> "idle", retries |-> 0, refreshed |-> FALSE,
                  error |-> "none"]
      /\ UNCHANGED <<provider, live, exiting, pipe, requests, refreshes, overdue>>
  BY DEF CallInv, Typed, Complete, GiveUp, Idle
<1>2. /\ ledger' \in Ledgers
      /\ \/ ledger'.calls = ledger.calls + 1 /\ ledger'.failures = ledger.failures
         \/ ledger'.calls = ledger.calls /\ ledger'.failures = ledger.failures + 1
      /\ ledger'.retries = ledger.retries + call.retries
  <2>1. CASE Complete
    <3>1. ledger' = [ledger EXCEPT !.calls = ledger.calls + 1,
                                   !.retries = ledger.retries + call.retries]
      BY <1>1, <2>1 DEF Complete, Charge, Ledgers
    <3>2. call.retries \in Nat /\ ledger.calls + 1 \in Nat
          /\ ledger.retries + call.retries \in Nat
      BY <1>1 DEF Ledgers, Calls
    <3>3. QED
      BY <1>1, <3>1, <3>2 DEF Ledgers
  <2>2. CASE GiveUp
    <3>1. ledger' = [ledger EXCEPT !.failures = ledger.failures + 1,
                                   !.retries = ledger.retries + call.retries]
      BY <1>1, <2>2 DEF GiveUp, Charge, Ledgers
    <3>2. call.retries \in Nat /\ ledger.failures + 1 \in Nat
          /\ ledger.retries + call.retries \in Nat
      BY <1>1 DEF Ledgers, Calls
    <3>3. QED
      BY <1>1, <3>1, <3>2 DEF Ledgers
  <2>3. QED
    BY <2>1, <2>2
<1>3. Typed'
  BY <1>1, <1>2 DEF CallInv, Typed, Calls
<1>4. Workers' /\ Late'
  BY <1>1 DEF CallInv, Workers, Late
<1>5. Balance'
  <2>1. /\ ledger.calls \in Nat /\ ledger.failures \in Nat /\ ledger.retries \in Nat
        /\ ledger'.calls \in Nat /\ ledger'.failures \in Nat /\ ledger'.retries \in Nat
        /\ call.retries \in Nat
    BY <1>1, <1>2 DEF Ledgers, Calls
  <2>2. requests = ledger.calls + ledger.failures + ledger.retries + refreshes
                   + call.retries + 1
    BY <1>1 DEF CallInv, Balance, Open
  <2>3. Open' = 0 /\ call'.retries = 0 /\ requests' = requests /\ refreshes' = refreshes
    BY <1>1 DEF Open
  <2>4. requests' = ledger'.calls + ledger'.failures + ledger'.retries + refreshes' + 0 + 0
    BY <1>1, <1>2, <2>1, <2>2, <2>3, OneMore
  <2>5. QED
    BY <2>3, <2>4 DEF Balance
<1>6. QED
  BY <1>3, <1>4, <1>5 DEF CallInv

\* What is retried never was overdue; the retry counts the request it replaces.
LEMMA RetryInv ==
  ASSUME CallInv, Retry
  PROVE  CallInv'
<1>1. /\ call \in Calls /\ call.phase = "failed" /\ MayRetry
      /\ call' = [call EXCEPT !.phase = "attempt", !.retries = @ + 1,
                              !.refreshed = FALSE, !.error = "none"]
      /\ UNCHANGED <<provider, live, exiting, pipe, ledger, requests, refreshes, overdue>>
  BY DEF CallInv, Typed, Retry
<1>2. call' \in Calls /\ call'.phase = "attempt" /\ call'.retries = call.retries + 1
  <2>1. call.retries + 1 \in Nat
    BY <1>1 DEF Calls
  <2>2. \A n \in Nat :
          LET new == [call EXCEPT !.phase = "attempt", !.retries = n,
                                  !.refreshed = FALSE, !.error = "none"]
          IN  new \in Calls /\ new.phase = "attempt" /\ new.retries = n
    BY <1>1 DEF Calls
  <2>3. call' = [call EXCEPT !.phase = "attempt", !.retries = call.retries + 1,
                             !.refreshed = FALSE, !.error = "none"]
    BY <1>1 DEF Calls
  <2>4. QED
    BY <2>1, <2>2, <2>3
<1>3. overdue = {}
  BY <1>1 DEF CallInv, Late, MayRetry, IsRetryable
<1>4. Typed'
  BY <1>1, <1>2 DEF CallInv, Typed
<1>5. Workers' /\ Late'
  BY <1>1, <1>2, <1>3 DEF CallInv, Workers, Late
<1>6. Balance'
  <2>1. /\ ledger.calls \in Nat /\ ledger.failures \in Nat /\ ledger.retries \in Nat
        /\ refreshes \in Nat /\ call.retries \in Nat
    BY <1>1 DEF CallInv, Typed, Calls, Ledgers
  <2>2. requests = ledger.calls + ledger.failures + ledger.retries + refreshes
                   + call.retries + 1
    BY <1>1 DEF CallInv, Balance, Open
  <2>3. /\ Open' = 0 /\ call'.retries = call.retries + 1
        /\ requests' = requests /\ refreshes' = refreshes /\ ledger' = ledger
    BY <1>1, <1>2 DEF Open
  <2>4. requests' = ledger'.calls + ledger'.failures + ledger'.retries + refreshes'
                    + call'.retries + Open'
    BY <2>1, <2>2, <2>3, OneMore
  <2>5. QED
    BY <1>2, <2>4 DEF Balance
<1>7. QED
  BY <1>4, <1>5, <1>6 DEF CallInv

-----------------------------------------------------------------------------
LEMMA NextInv == CallInv /\ [Next]_vars => CallInv'
<1> SUFFICES ASSUME CallInv, [Next]_vars PROVE CallInv'
  OBVIOUS
<1>1. CASE Worker
  BY <1>1, WorkerInv
<1>2. CASE Request
  BY <1>2, RequestInv
<1>3. CASE SdkReturns \/ Receive \/ DeadlinePasses \/ StopWorker
  BY <1>3, OutcomeInv
<1>4. CASE AuthError
  BY <1>4, AuthErrorInv
<1>5. CASE Complete \/ GiveUp
  BY <1>5, FinishInv
<1>6. CASE Retry
  BY <1>6, RetryInv
<1>7. CASE StartConversation \/ StartEscalation \/ AskAgain
  BY <1>7, JobInv
<1>8. CASE EndJob
  BY <1>8, EndJobInv
<1>9. CASE UNCHANGED vars
  BY <1>9 DEF vars, CallInv, Typed, Workers, Late, Balance, Open
<1>10. QED
  BY <1>1, <1>2, <1>3, <1>4, <1>5, <1>6, <1>7, <1>8, <1>9 DEF Next, Caller, Job

LEMMA CallInvariant == Spec => []CallInv
<1>1. QED
  BY InitInv, NextInv, PTL DEF Spec

\* A request that misses its deadline is over: one worker at most is at work, for the
\* current request, and none once the call goes on; what still runs then was in time; and
\* no overdue request is followed by another of its call.
THEOREM OverdueRequestsOver == Spec => []OverdueIsOver
<1>1. CallInv => OverdueIsOver
  BY DEF CallInv, Workers, Late, OverdueIsOver, OneRequestAtATime, DeadlineEndsCall
<1>2. QED
  BY <1>1, CallInvariant, PTL

\* The ledger accounts for every request that was sent, for any sequence of calls.
THEOREM LedgerBalanced == Spec => []LedgerBalances
<1>1. CallInv => LedgerBalances
  <2> SUFFICES ASSUME CallInv, call.phase = "idle"
               PROVE  requests = ledger.calls + ledger.failures + ledger.retries + refreshes
    BY DEF LedgerBalances
  <2>1. /\ ledger.calls \in Nat /\ ledger.failures \in Nat /\ ledger.retries \in Nat
        /\ refreshes \in Nat
    BY DEF CallInv, Typed, Ledgers
  <2>2. call.retries = 0 /\ Open = 0
    BY DEF CallInv, Balance, Open
  <2>3. QED
    BY <2>1, <2>2 DEF CallInv, Balance
<1>2. QED
  BY <1>1, CallInvariant, PTL
-----------------------------------------------------------------------------
(* What the archive holds                                                  *)

Roles == {"system", "user", "assistant"}
Messages == [role : Roles, of : Nat]
Kinds == {"none", "conversation", "escalation"}

TalkTyped ==
  /\ turns \in Seq(Messages)
  /\ session \in [log : Seq(Messages), open : BOOLEAN]
  /\ observerErrors \in Nat
  /\ observerErrors = 0 => session.open
  /\ session.open => Len(session.log) <= SessionTurns
  /\ job \in [kind : Kinds, left : Nat, started : Nat]

\* A message of a call before the one that n numbers, of one of the first jobs.
Before(m, n, jobs) == IF m.role = "system" THEN m.of <= jobs ELSE m.of < n

\* Messages are numbered in the order of their calls: what is archived is of earlier calls
\* than the next one, what is in the turns may be of the current one.
Dated ==
  /\ \A i \in DOMAIN session.log : Before(session.log[i], Ordinal, job.started)
  /\ \A i \in DOMAIN turns : Before(turns[i], Ordinal + 1, job.started)

\* What a call sends beyond the offset are requests, not replies.
Asked ==
  /\ job.kind = "none" => call.phase = "idle"
  /\ job.kind = "conversation" =>
       Len(turns) >= 2 /\ (call.phase = "idle" => Len(turns) > 2)
  /\ call.phase # "idle" \/ job.kind = "escalation" =>
       \A i \in Offset + 1 .. Len(turns) : turns[i].role # "assistant"

\* The turns that earlier calls had to archive.
Due == IF call.phase = "idle" THEN Len(turns) ELSE Offset

\* A session that is still open holds all of them.
Kept ==
  job.kind = "conversation" =>
    \E k \in 0 .. Due : EndsWithTurns(k) /\ (session.open => k = Due)

Replies == session.open => Count(session.log, "assistant") = ledger.calls

TalkInv == CallInv /\ TalkTyped /\ Dated /\ Asked /\ Kept /\ Replies

talk == <<turns, session, observerErrors, job, ledger>>

LEMMA MessageType ==
  ASSUME NEW role \in Roles, NEW n \in Nat
  PROVE  Message(role, n) \in Messages
BY DEF Message, Messages

LEMMA LogType ==
  ASSUME TalkTyped
  PROVE  /\ session.log \in Seq(Messages) /\ Len(session.log) \in Nat
         /\ DOMAIN session.log = 1 .. Len(session.log)
         /\ \A i \in DOMAIN session.log : session.log[i].of \in Nat
<1>1. session.log \in Seq(Messages)
  BY DEF TalkTyped
<1>2. \A m \in Messages : m.of \in Nat
  BY DEF Messages
<1>3. \A i \in DOMAIN session.log : session.log[i] \in Messages
  BY <1>1
<1>4. QED
  BY <1>1, <1>2, <1>3

LEMMA Joined ==
  ASSUME NEW S, NEW s \in Seq(S), NEW t \in Seq(S)
  PROVE  /\ s \o t \in Seq(S) /\ Len(s \o t) = Len(s) + Len(t)
         /\ \A i \in 1 .. Len(s) : (s \o t)[i] = s[i]
         /\ \A i \in 1 .. Len(t) : (s \o t)[Len(s) + i] = t[i]
OBVIOUS

LEMMA Rest ==
  ASSUME NEW S, NEW s \in Seq(S), NEW k \in 0 .. Len(s)
  PROVE  /\ SubSeq(s, k + 1, Len(s)) \in Seq(S)
         /\ Len(SubSeq(s, k + 1, Len(s))) = Len(s) - k
         /\ \A i \in 1 .. Len(s) - k : SubSeq(s, k + 1, Len(s))[i] = s[k + i]
OBVIOUS

LEMMA BeforeLater ==
  ASSUME NEW m \in Messages, NEW n \in Nat, NEW later \in Nat, n <= later, NEW jobs,
         Before(m, n, jobs)
  PROVE  Before(m, later, jobs)
BY DEF Before, Messages

LEMMA OrdinalType ==
  ASSUME CallInv
  PROVE  Ordinal \in Nat
BY DEF CallInv, Typed, Ledgers, Ordinal

LEMMA InitTalk == Init => TalkInv
<1> SUFFICES ASSUME Init PROVE TalkInv
  OBVIOUS
<1>1. /\ turns = <<>> /\ session.log = <<>> /\ session.open = TRUE /\ job.kind = "none"
      /\ call.phase = "idle" /\ ledger.calls = 0
  BY DEF Init, NoJob, Idle
<1>2. TalkTyped
  BY <1>1, BoundsAssumption DEF Init, NoJob, TalkTyped, Kinds
<1>3. Dated /\ Asked /\ Kept
  BY <1>1 DEF Dated, Asked, Kept
<1>4. Replies
  <2>1. {i \in DOMAIN session.log : session.log[i].role = "assistant"} = {}
    BY <1>1
  <2>2. QED
    BY <1>1, <2>1, FS_EmptySet DEF Replies, Count
<1>5. QED
  BY <1>2, <1>3, <1>4, InitInv DEF TalkInv

\* The steps of a call between its request and its end.
LEMMA SilentTalk ==
  ASSUME TalkInv, CallInv', UNCHANGED talk,
         call.phase = "idle" <=> call'.phase = "idle"
  PROVE  TalkInv'
<1>1. TalkTyped' /\ Replies'
  BY DEF TalkInv, TalkTyped, Replies, talk, Count
<1>2. Ordinal' = Ordinal /\ Offset' = Offset /\ Due' = Due
  BY DEF Ordinal, Offset, Due, talk
<1>3. Dated' /\ Asked'
  BY <1>2 DEF TalkInv, Dated, Asked, talk
<1>4. \A k : EndsWithTurns(k)' = EndsWithTurns(k)
  BY DEF EndsWithTurns, talk
<1>5. Kept'
  BY <1>2, <1>4 DEF TalkInv, Kept, talk
<1>6. QED
  BY <1>1, <1>3, <1>5 DEF TalkInv

\* A call ends by an exception, or a job by the caller: there is no conversation any more.
LEMMA EndTalk ==
  ASSUME TalkInv, CallInv', EndJob \/ GiveUp
  PROVE  TalkInv'
<1>1. /\ turns' = <<>> /\ session' = session /\ observerErrors' = observerErrors
      /\ job' = [job EXCEPT !.kind = "none", !.left = 0] /\ call'.phase = "idle"
  BY DEF EndJob, GiveUp, Idle
<1>2. ledger'.calls = ledger.calls /\ ledger'.failures >= ledger.failures
  <2>1. ledger \in Ledgers /\ call.retries \in Nat
    BY DEF TalkInv, CallInv, Typed, Calls
  <2>2. CASE EndJob
    BY <2>1, <2>2 DEF EndJob, Ledgers
  <2>3. CASE GiveUp
    <3>1. ledger' = [ledger EXCEPT !.failures = ledger.failures + 1,
                                   !.retries = ledger.retries + call.retries]
      BY <2>1, <2>3 DEF GiveUp, Charge, Ledgers
    <3>2. ledger'.calls = ledger.calls /\ ledger'.failures = ledger.failures + 1
      BY <2>1, <3>1 DEF Ledgers
    <3>3. QED
      BY <2>1, <3>2 DEF Ledgers
  <2>4. QED
    BY <2>2, <2>3
<1>3. job' \in [kind : Kinds, left : Nat, started : Nat]
      /\ job'.kind = "none" /\ job'.started = job.started
  BY <1>1 DEF TalkInv, TalkTyped, Kinds
<1>4. TalkTyped' /\ Replies'
  BY <1>1, <1>2, <1>3 DEF TalkInv, TalkTyped, Replies, Count
<1>5. Dated'
  <2>1. Ordinal \in Nat /\ Ordinal' \in Nat /\ Ordinal' >= Ordinal
    <3>1. /\ ledger.calls \in Nat /\ ledger.failures \in Nat
          /\ ledger'.calls \in Nat /\ ledger'.failures \in Nat
      BY DEF TalkInv, CallInv, Typed, Ledgers
    <3>2. QED
      BY <1>2, <3>1 DEF Ordinal
  <2>2. \A i \in DOMAIN session.log : session.log[i].of \in Nat
    BY LogType DEF TalkInv
  <2>3. \A i \in DOMAIN session.log : Before(session.log[i], Ordinal', job'.started)
    BY <1>3, <2>1, <2>2 DEF TalkInv, Dated, Before
  <2>4. QED
    BY <1>1, <2>3 DEF Dated
<1>6. Asked' /\ Kept'
  BY <1>1, <1>3 DEF Asked, Kept
<1>7. QED
  BY <1>4, <1>5, <1>6 DEF TalkInv

\* A new conversation: none of its turns is in the archive yet.
LEMMA ConversationTalk ==
  ASSUME TalkInv, CallInv', StartConversation
  PROVE  TalkInv'
<1> DEFINE n == job.started + 1
<1>1. /\ turns' = <<Message("system", n), Message("user", Ordinal)>>
      /\ job' = [kind |-> "conversation", left |-> DecisionTurns - 1, started |-> n]
      /\ call'.phase = "attempt"
      /\ UNCHANGED <<session, observerErrors, ledger>>
  BY DEF StartConversation, Enter, Idle
<1>2. /\ Ordinal \in Nat /\ n \in Nat /\ job.started \in Nat /\ job.started < n
      /\ Ordinal' = Ordinal
  BY <1>1, OrdinalType DEF TalkInv, TalkTyped, Ordinal
<1> HIDE DEF n
<1>3. /\ job'.kind = "conversation" /\ job'.started = n
      /\ job' \in [kind : Kinds, left : Nat, started : Nat]
  BY <1>1, <1>2, BoundsAssumption DEF Kinds
<1>4. /\ turns' \in Seq(Messages) /\ Len(turns') = 2 /\ DOMAIN turns' = 1 .. 2
      /\ turns'[1] = Message("system", n) /\ turns'[2] = Message("user", Ordinal)
  BY <1>1, <1>2, MessageType DEF Roles
<1>5. TalkTyped' /\ Replies'
  BY <1>1, <1>3, <1>4 DEF TalkInv, TalkTyped, Replies, Count
<1>6. Dated'
  <2>1. \A i \in DOMAIN session.log : session.log[i].of \in Nat
    BY LogType DEF TalkInv
  <2>2. \A i \in DOMAIN session.log : Before(session.log[i], Ordinal, n)
    BY <1>2, <2>1 DEF TalkInv, Dated, Before
  <2>3. \A i \in 1 .. 2 : Before(turns'[i], Ordinal + 1, n)
    BY <1>2, <1>4 DEF Before, Message
  <2>4. QED
    BY <1>1, <1>2, <1>3, <1>4, <2>2, <2>3 DEF Dated
<1>7. Offset' = 0 /\ Due' = 0
  BY <1>1, <1>4 DEF Offset, Due
<1>8. Asked'
  BY <1>1, <1>3, <1>4, <1>7 DEF Asked, Message
<1>9. Kept'
  <2>1. \A i \in DOMAIN session.log : /\ session.log[i] # Message("system", n)
                                      /\ session.log[i] # Message("user", Ordinal)
    BY <1>2 DEF TalkInv, Dated, Before, Message
  <2>2. EndsWithTurns(0)'
    <3>1. Len(session.log) \in Nat /\ DOMAIN session.log = 1 .. Len(session.log)
      BY DEF TalkInv, TalkTyped
    <3>2. \A i \in 1 .. Len(session.log) : \A j \in 1 .. 2 : session.log[i] # turns'[j]
      BY <1>4, <2>1, <3>1
    <3>3. QED
      BY <1>1, <1>4, <3>1, <3>2 DEF EndsWithTurns
  <2>3. QED
    BY <1>7, <2>2 DEF Kept
<1>10. QED
  BY <1>5, <1>6, <1>8, <1>9 DEF TalkInv

LEMMA EscalationTalk ==
  ASSUME TalkInv, CallInv', StartEscalation
  PROVE  TalkInv'
<1> DEFINE n == job.started + 1
<1>1. /\ turns' = <<Message("user", Ordinal)>>
      /\ job' = [kind |-> "escalation", left |-> Temperatures - 1, started |-> n]
      /\ call'.phase = "attempt"
      /\ UNCHANGED <<session, observerErrors, ledger>>
  BY DEF StartEscalation, Enter, Idle
<1>2. /\ Ordinal \in Nat /\ n \in Nat /\ job.started \in Nat /\ job.started < n
      /\ Ordinal' = Ordinal
  BY <1>1, OrdinalType DEF TalkInv, TalkTyped, Ordinal
<1> HIDE DEF n
<1>3. /\ job'.kind = "escalation" /\ job'.started = n
      /\ job' \in [kind : Kinds, left : Nat, started : Nat]
  BY <1>1, <1>2, BoundsAssumption DEF Kinds
<1>4. /\ turns' \in Seq(Messages) /\ Len(turns') = 1 /\ DOMAIN turns' = {1}
      /\ turns'[1] = Message("user", Ordinal)
  BY <1>1, <1>2, MessageType DEF Roles
<1>5. TalkTyped' /\ Replies'
  BY <1>1, <1>3, <1>4 DEF TalkInv, TalkTyped, Replies, Count
<1>6. Dated'
  <2>1. \A i \in DOMAIN session.log : session.log[i].of \in Nat
    BY LogType DEF TalkInv
  <2>2. \A i \in DOMAIN session.log : Before(session.log[i], Ordinal, n)
    BY <1>2, <2>1 DEF TalkInv, Dated, Before
  <2>3. Before(turns'[1], Ordinal + 1, n)
    BY <1>2, <1>4 DEF Before, Message
  <2>4. QED
    BY <1>1, <1>2, <1>3, <1>4, <2>2, <2>3 DEF Dated
<1>7. Asked' /\ Kept'
  BY <1>1, <1>3, <1>4 DEF Asked, Kept, Offset, Message
<1>8. QED
  BY <1>5, <1>6, <1>7 DEF TalkInv

\* The next turn of a conversation is sent when all before it were due.
LEMMA AskTalk ==
  ASSUME TalkInv, CallInv', AskAgain
  PROVE  TalkInv'
<1>1. /\ call.phase = "idle" /\ job.kind # "none" /\ job.left > 0
      /\ job' = [job EXCEPT !.left = @ - 1]
      /\ call'.phase = "attempt"
      /\ UNCHANGED <<session, observerErrors, ledger>>
  BY DEF AskAgain, Enter, Idle
<1>2. Ordinal \in Nat /\ Ordinal' = Ordinal
  BY <1>1, OrdinalType DEF TalkInv, Ordinal
<1>3. /\ job'.kind = job.kind /\ job'.started = job.started
      /\ job' \in [kind : Kinds, left : Nat, started : Nat]
  BY <1>1 DEF TalkInv, TalkTyped
<1>4. CASE job.kind = "conversation"
  <2> DEFINE m == Message("user", Ordinal)
             len == Len(turns)
  <2>1. /\ turns' = Append(turns, m) /\ m \in Messages /\ len \in Nat /\ len > 2
        /\ turns \in Seq(Messages)
    BY <1>1, <1>2, <1>4, MessageType DEF AskAgain, TalkInv, TalkTyped, Asked, Roles
  <2>2. m.role = "user" /\ m.of = Ordinal
    BY DEF Message
  <2> HIDE DEF m
  <2>3. /\ turns' \in Seq(Messages) /\ Len(turns') = len + 1
        /\ \A i \in 1 .. len : turns'[i] = turns[i]
        /\ turns'[len + 1] = m
    BY <2>1
  <2>4. DOMAIN turns' = 1 .. len + 1 /\ DOMAIN turns = 1 .. len
    BY <2>1, <2>3
  <2>5. Offset' = len /\ Due' = len /\ Due = len
    BY <1>1, <1>3, <1>4, <2>1, <2>3 DEF Offset, Due
  <2> HIDE DEF len
  <2>6. TalkTyped' /\ Replies'
    BY <1>1, <1>3, <2>3 DEF TalkInv, TalkTyped, Replies, Count
  <2>7. Dated'
    <3>1. Before(m, Ordinal + 1, job.started)
      BY <1>2, <2>2 DEF Before
    <3>2. \A i \in 1 .. len + 1 : Before(turns'[i], Ordinal + 1, job.started)
      BY <2>1, <2>3, <2>4, <3>1 DEF TalkInv, Dated
    <3>3. QED
      BY <1>1, <1>2, <1>3, <2>4, <3>2 DEF TalkInv, Dated
  <2>8. Asked'
    <3>1. \A i \in len + 1 .. len + 1 : turns'[i].role # "assistant"
      BY <2>1, <2>2, <2>3
    <3>2. QED
      BY <1>1, <1>3, <1>4, <2>1, <2>3, <2>5, <3>1 DEF Asked
  <2>9. Kept'
    <3>1. PICK k \in 0 .. len : EndsWithTurns(k) /\ (session.open => k = len)
      BY <1>4, <2>5 DEF TalkInv, Kept
    <3>2. Len(session.log) \in Nat /\ DOMAIN session.log = 1 .. Len(session.log)
      BY DEF TalkInv, TalkTyped
    <3>3. \A i \in DOMAIN session.log : session.log[i] # m
      BY <1>2, <2>2 DEF TalkInv, Dated, Before
    <3>4. \A i \in 1 .. Len(session.log) - k : \A j \in 1 .. len + 1 :
            session.log[i] # turns'[j]
      <4> SUFFICES ASSUME NEW i \in 1 .. Len(session.log) - k, NEW j \in 1 .. len + 1
                   PROVE  session.log[i] # turns'[j]
        OBVIOUS
      <4>1. i \in DOMAIN session.log
        BY <2>1, <3>2
      <4>2. CASE j = len + 1
        BY <2>3, <3>3, <4>1, <4>2
      <4>3. CASE j \in 1 .. len
        BY <2>3, <2>4, <3>1, <4>3 DEF EndsWithTurns
      <4>4. len \in Nat
        BY <2>1
      <4>5. j = len + 1 \/ j \in 1 .. len
        BY <4>4
      <4>6. QED
        BY <4>2, <4>3, <4>5
    <3>5. EndsWithTurns(k)'
      BY <1>1, <2>1, <2>3, <2>4, <3>1, <3>2, <3>4 DEF EndsWithTurns
    <3>6. QED
      BY <1>1, <2>5, <3>1, <3>5 DEF Kept
  <2>10. QED
    BY <2>6, <2>7, <2>8, <2>9 DEF TalkInv
<1>5. CASE job.kind = "escalation"
  <2>1. turns' = turns
    BY <1>5 DEF AskAgain
  <2>2. TalkTyped' /\ Replies' /\ Dated'
    BY <1>1, <1>2, <1>3, <2>1 DEF TalkInv, TalkTyped, Replies, Count, Dated
  <2>3. Asked' /\ Kept'
    BY <1>1, <1>3, <1>5, <2>1 DEF TalkInv, Asked, Kept, Offset
  <2>4. QED
    BY <2>2, <2>3 DEF TalkInv
<1>6. QED
  BY <1>1, <1>4, <1>5 DEF TalkInv, TalkTyped, Kinds

\* The answer is archived after what the call has sent beyond the offset.  The session
\* takes all of it, or expires with the part that fits.
LEMMA CompleteTalk ==
  ASSUME TalkInv, CallInv', Complete
  PROVE  TalkInv'
<1> DEFINE reply == Message("assistant", Ordinal)
           new == SubSeq(turns, Offset + 1, Len(turns)) \o <<reply>>
           room == IF session.open THEN SessionTurns - Len(session.log) ELSE 0
           n == IF Len(new) < room THEN Len(new) ELSE room
           size == Len(session.log)
           sent == Len(turns)
<1>1. /\ call.phase = "answered" /\ call'.phase = "idle" /\ job' = job
      /\ session' = [log |-> session.log \o SubSeq(new, 1, n),
                     open |-> session.open /\ Len(new) <= room]
      /\ observerErrors' = observerErrors + (IF session'.open THEN 0 ELSE 1)
      /\ turns' = IF job.kind = "conversation" THEN Append(turns, reply) ELSE turns
  BY DEF Complete, Archive, Idle
<1>2. /\ ledger.calls \in Nat /\ ledger'.calls = ledger.calls + 1
      /\ Ordinal \in Nat /\ Ordinal' = Ordinal + 1
  <2>1. ledger \in Ledgers /\ call.retries \in Nat
    BY DEF TalkInv, CallInv, Typed, Calls
  <2>2. ledger' = [ledger EXCEPT !.calls = ledger.calls + 1,
                                 !.retries = ledger.retries + call.retries]
    BY <2>1 DEF Complete, Charge, Ledgers
  <2>3. /\ ledger.calls \in Nat /\ ledger.failures \in Nat
        /\ ledger'.calls = ledger.calls + 1 /\ ledger'.failures = ledger.failures
    BY <2>1, <2>2 DEF Ledgers
  <2>4. QED
    BY <2>3 DEF Ordinal
<1>3. reply \in Messages /\ reply.role = "assistant" /\ reply.of = Ordinal
  BY <1>2, MessageType DEF Roles, Message
<1> HIDE DEF reply
<1>4. /\ turns \in Seq(Messages) /\ sent \in Nat /\ DOMAIN turns = 1 .. sent
      /\ session.log \in Seq(Messages) /\ size \in Nat /\ DOMAIN session.log = 1 .. size
      /\ Len(turns) = sent /\ Len(session.log) = size
  BY LogType DEF TalkInv, TalkTyped
<1>5. Offset \in 0 .. sent /\ Due = Offset
  BY <1>1, <1>4 DEF Offset, Due
<1>6. /\ new \in Seq(Messages) /\ Len(new) = sent - Offset + 1
      /\ \A i \in 1 .. sent - Offset : new[i] = turns[Offset + i]
      /\ new[sent - Offset + 1] = reply
  <2> DEFINE rest == SubSeq(turns, Offset + 1, Len(turns))
  <2>1. /\ rest \in Seq(Messages) /\ Len(rest) = sent - Offset
        /\ \A i \in 1 .. sent - Offset : rest[i] = turns[Offset + i]
    BY <1>4, <1>5, Rest
  <2>2. /\ <<reply>> \in Seq(Messages) /\ Len(<<reply>>) = 1 /\ <<reply>>[1] = reply
    BY <1>3
  <2> HIDE DEF rest
  <2>3. new = rest \o <<reply>>
    BY DEF rest
  <2>4. /\ new \in Seq(Messages) /\ Len(new) = Len(rest) + 1
        /\ \A i \in 1 .. Len(rest) : new[i] = rest[i]
        /\ new[Len(rest) + 1] = reply
    <3> HIDE DEF new
    <3>1. \A i \in 1 .. 1 : new[Len(rest) + i] = <<reply>>[i]
      BY <2>1, <2>2, <2>3, Joined
    <3>2. QED
      BY <2>1, <2>2, <2>3, <3>1, Joined
  <2> HIDE DEF new
  <2>5. QED
    BY <2>1, <2>4
<1> HIDE DEF new
<1>7. /\ n \in 0 .. Len(new)
      /\ session.open => size + n <= SessionTurns
      /\ session.open /\ Len(new) <= room => n = Len(new)
      /\ ~session.open => n = 0
  BY <1>4, <1>6, BoundsAssumption DEF TalkInv, TalkTyped
<1>8. /\ session'.log \in Seq(Messages) /\ Len(session'.log) = size + n
      /\ \A i \in 1 .. size : session'.log[i] = session.log[i]
      /\ \A i \in 1 .. n : session'.log[size + i] = new[i]
      /\ session'.open \in BOOLEAN
      /\ session'.open => session.open /\ n = Len(new)
  <2> DEFINE fits == SubSeq(new, 1, n)
  <2> HIDE DEF n
  <2>1. fits \in Seq(Messages) /\ Len(fits) = n /\ \A i \in 1 .. n : fits[i] = new[i]
    BY <1>6, <1>7
  <2> HIDE DEF fits
  <2>2. session'.log = session.log \o fits
    BY <1>1 DEF fits
  <2>5. /\ session'.log \in Seq(Messages) /\ Len(session'.log) = size + n
        /\ \A i \in 1 .. size : session'.log[i] = session.log[i]
        /\ \A i \in 1 .. n : session'.log[size + i] = fits[i]
    <3>1. /\ session.log \o fits \in Seq(Messages)
          /\ Len(session.log \o fits) = size + Len(fits)
          /\ \A i \in 1 .. size : (session.log \o fits)[i] = session.log[i]
          /\ \A i \in 1 .. Len(fits) : (session.log \o fits)[size + i] = fits[i]
      <4> HIDE DEF size
      <4>1. QED
        <5>1. \A s, t \in Seq(Messages) :
                /\ s \o t \in Seq(Messages) /\ Len(s \o t) = Len(s) + Len(t)
                /\ \A i \in 1 .. Len(s) : (s \o t)[i] = s[i]
                /\ \A i \in 1 .. Len(t) : (s \o t)[Len(s) + i] = t[i]
          BY Joined
        <5>2. QED
          BY <1>4, <2>1, <5>1
    <3>2. QED
      BY <2>1, <2>2, <3>1
  <2>3. session'.open = (session.open /\ Len(new) <= room) /\ session.open \in BOOLEAN
    BY <1>1 DEF TalkInv, TalkTyped
  <2>4. QED
    BY <1>7, <2>1, <2>3, <2>5
<1> HIDE DEF n, room
<1> HIDE DEF size, sent
<1>9. DOMAIN session'.log = 1 .. size + n /\ n \in Nat
  BY <1>6, <1>7, <1>8
<1>10. TalkTyped'
  <2>1. session' \in [log : Seq(Messages), open : BOOLEAN]
    BY <1>1, <1>8
  <2>2. turns' \in Seq(Messages)
    BY <1>1, <1>3, <1>4
  <2>3. observerErrors' \in Nat /\ (observerErrors' = 0 => session'.open)
    BY <1>1 DEF TalkInv, TalkTyped
  <2>4. session'.open => Len(session'.log) <= SessionTurns
    BY <1>7, <1>8
  <2>5. QED
    BY <1>1, <2>1, <2>2, <2>3, <2>4 DEF TalkInv, TalkTyped
<1>11. \A i \in 1 .. Len(new) : Before(new[i], Ordinal + 1, job.started)
  <2>1. \A i \in 1 .. sent : Before(turns[i], Ordinal + 1, job.started)
    BY <1>4 DEF TalkInv, Dated
  <2>2. Before(reply, Ordinal + 1, job.started)
    BY <1>2, <1>3 DEF Before
  <2> SUFFICES ASSUME NEW i \in 1 .. Len(new)
               PROVE  Before(new[i], Ordinal + 1, job.started)
    OBVIOUS
  <2>3. CASE i \in 1 .. sent - Offset
    <3>1. Offset + i \in 1 .. sent /\ new[i] = turns[Offset + i]
      BY <1>4, <1>5, <1>6, <2>3
    <3>2. QED
      BY <2>1, <3>1
  <2>4. CASE i = sent - Offset + 1
    BY <1>6, <2>2, <2>4
  <2>5. QED
    BY <1>4, <1>5, <1>6, <2>3, <2>4
<1>12. Dated'
  <2>1. \A i \in 1 .. size + n : Before(session'.log[i], Ordinal + 1, job.started)
    <3> SUFFICES ASSUME NEW i \in 1 .. size + n
                 PROVE  Before(session'.log[i], Ordinal + 1, job.started)
      OBVIOUS
    <3>1. CASE i \in 1 .. size
      <4>1. session'.log[i] = session.log[i] /\ session.log[i] \in Messages
            /\ Before(session.log[i], Ordinal, job.started)
        BY <1>4, <1>8, <3>1 DEF TalkInv, Dated
      <4>2. Ordinal + 1 \in Nat /\ Ordinal <= Ordinal + 1
        BY <1>2
      <4>3. QED
        BY <1>2, <4>1, <4>2, BeforeLater
    <3>2. CASE i \notin 1 .. size
      <4>1. i - size \in 1 .. n /\ i - size \in 1 .. Len(new)
            /\ size + (i - size) = i
        BY <1>4, <1>6, <1>7, <1>9, <3>2
      <4>2. session'.log[i] = new[i - size]
        BY <1>8, <4>1
      <4>3. QED
        BY <1>11, <4>1, <4>2
    <3>3. QED
      BY <3>1, <3>2
  <2>2. \A i \in DOMAIN turns' : Before(turns'[i], Ordinal + 1 + 1, job.started)
    <3>1. \A i \in 1 .. sent : Before(turns[i], Ordinal + 1 + 1, job.started)
      <4> SUFFICES ASSUME NEW i \in 1 .. sent
                   PROVE  Before(turns[i], Ordinal + 1 + 1, job.started)
        OBVIOUS
      <4>1. turns[i] \in Messages /\ Before(turns[i], Ordinal + 1, job.started)
        BY <1>4 DEF TalkInv, Dated
      <4>2. QED
        BY <1>2, <4>1, BeforeLater
    <3>2. Before(reply, Ordinal + 1 + 1, job.started)
      BY <1>2, <1>3 DEF Before
    <3>3. QED
      BY <1>1, <1>3, <1>4, <3>1, <3>2
  <2>3. QED
    BY <1>1, <1>2, <1>9, <2>1, <2>2 DEF Dated
<1>13. Asked'
  <2>1. CASE job.kind = "conversation"
    <3>1. Len(turns') = sent + 1 /\ sent >= 2
      BY <1>1, <1>3, <1>4, <2>1 DEF TalkInv, Asked
    <3>2. QED
      BY <1>1, <1>4, <2>1, <3>1 DEF Asked
  <2>2. CASE job.kind # "conversation"
    BY <1>1, <2>2 DEF TalkInv, Asked, Offset
  <2>3. QED
    BY <2>1, <2>2
<1>14. Kept'
  <2> SUFFICES ASSUME job.kind = "conversation"
               PROVE  \E k \in 0 .. Due' :
                         EndsWithTurns(k)' /\ (session'.open => k = Due')
    BY <1>1 DEF Kept
  <2>1. /\ Len(turns') = sent + 1 /\ DOMAIN turns' = 1 .. sent + 1
        /\ \A i \in 1 .. sent : turns'[i] = turns[i]
        /\ turns'[sent + 1] = reply /\ Due' = sent + 1
    BY <1>1, <1>3, <1>4 DEF Due
  <2>2. PICK k \in 0 .. Offset : EndsWithTurns(k) /\ (session.open => k = Offset)
    BY <1>5 DEF TalkInv, Kept
  <2>3. k + n \in 0 .. sent + 1 /\ (session'.open => k + n = sent + 1)
    BY <1>4, <1>5, <1>6, <1>7, <1>8, <1>9, <2>2
  <2>4. k \in Nat /\ k <= sent /\ k <= size /\ size + n - (k + n) = size - k
    BY <1>4, <1>5, <1>9, <2>2 DEF EndsWithTurns
  <2>5. \A i \in 1 .. k + n : session'.log[size - k + i] = turns'[i]
    <3> SUFFICES ASSUME NEW i \in 1 .. k + n
                 PROVE  session'.log[size - k + i] = turns'[i]
      OBVIOUS
    <3>1. CASE i \in 1 .. k
      <4>1. size - k + i \in 1 .. size /\ i \in 1 .. sent
        BY <1>4, <2>4, <3>1
      <4>2. session.log[size - k + i] = turns[i]
        BY <1>4, <2>2, <3>1 DEF EndsWithTurns
      <4>3. QED
        BY <1>8, <2>1, <4>1, <4>2
    <3>2. CASE i \notin 1 .. k
      <4>1. i - k \in 1 .. n /\ size + (i - k) = size - k + i
        BY <1>4, <1>9, <2>4, <3>2
      <4>2. session'.log[size - k + i] = new[i - k]
        BY <1>8, <4>1
      <4>3. session.open /\ k = Offset
        BY <1>7, <1>9, <2>2, <4>1
      <4>4. CASE i - k \in 1 .. sent - Offset
        <5>1. new[i - k] = turns[Offset + (i - k)] /\ Offset + (i - k) = i
              /\ i \in 1 .. sent
          BY <1>4, <1>5, <1>6, <4>1, <4>3, <4>4
        <5>2. QED
          BY <2>1, <4>2, <5>1
      <4>5. CASE i - k = sent - Offset + 1
        <5>1. i = sent + 1
          BY <1>4, <1>5, <4>3, <4>5
        <5>2. QED
          BY <1>6, <2>1, <4>2, <4>5, <5>1
      <4>6. i - k \in 1 .. sent - Offset + 1
        BY <1>6, <1>7, <4>1
      <4>7. QED
        BY <1>4, <1>5, <4>4, <4>5, <4>6
    <3>3. QED
      BY <3>1, <3>2
  <2>6. \A i \in 1 .. size - k : \A j \in 1 .. sent + 1 : session'.log[i] # turns'[j]
    <3> SUFFICES ASSUME NEW i \in 1 .. size - k, NEW j \in 1 .. sent + 1
                 PROVE  session'.log[i] # turns'[j]
      OBVIOUS
    <3>1. i \in 1 .. size /\ session'.log[i] = session.log[i]
      BY <1>4, <1>8, <2>4
    <3>2. CASE j \in 1 .. sent
      BY <1>4, <2>1, <2>2, <3>1, <3>2 DEF EndsWithTurns
    <3>3. CASE j = sent + 1
      <4>1. Before(session.log[i], Ordinal, job.started)
        BY <1>4, <3>1 DEF TalkInv, Dated
      <4>2. session.log[i] # reply
        BY <1>2, <1>3, <4>1 DEF Before
      <4>3. QED
        BY <2>1, <3>1, <3>3, <4>2
    <3>4. QED
      BY <1>4, <3>2, <3>3
  <2>7. PICK m \in 0 .. sent + 1 : m = k + n
    BY <2>3
  <2>8. EndsWithTurns(m)'
    <3>1. m <= size + n
      BY <1>4, <1>9, <2>4, <2>7
    <3>2. Len(session'.log) - m = size - k
      BY <1>4, <1>8, <1>9, <2>4, <2>7
    <3>3. m <= Len(session'.log)
      BY <1>8, <3>1
    <3>4. \A i \in 1 .. m : session'.log[Len(session'.log) - m + i] = turns'[i]
      BY <2>5, <2>7, <3>2
    <3>5. \A i \in 1 .. Len(session'.log) - m : \A j \in DOMAIN turns' :
            session'.log[i] # turns'[j]
      BY <2>1, <2>6, <2>7, <3>2
    <3>6. QED
      BY <3>3, <3>4, <3>5 DEF EndsWithTurns
  <2>9. QED
    BY <2>1, <2>3, <2>7, <2>8
<1>15. Replies'
  <2> SUFFICES ASSUME session'.open
               PROVE  Count(session'.log, "assistant") = ledger.calls + 1
    BY <1>2 DEF Replies
  <2> DEFINE old == {i \in DOMAIN session.log : session.log[i].role = "assistant"}
             last == size + n
  <2>1. session.open /\ n = sent - Offset + 1 /\ n >= 1
    BY <1>4, <1>5, <1>6, <1>8
  <2>2. Cardinality(old) = ledger.calls
    BY <2>1 DEF TalkInv, Replies, Count
  <2>3. IsFiniteSet(old) /\ last \notin old
    <3>1. old \subseteq 1 .. size
      BY <1>4
    <3>2. IsFiniteSet(1 .. size)
      BY <1>4, FS_Interval
    <3>3. last \notin 1 .. size
      BY <1>4, <1>9, <2>1
    <3>4. QED
      BY <3>1, <3>2, <3>3, FS_Subset
  <2>4. \A i \in 1 .. size : i \in old <=> session'.log[i].role = "assistant"
    BY <1>4, <1>8
  <2>5. session'.log[last].role = "assistant" /\ last \in 1 .. size + n
    <3>1. n \in 1 .. n /\ session'.log[size + n] = new[n]
      BY <1>8, <1>9, <2>1
    <3>2. QED
      BY <1>3, <1>4, <1>6, <1>9, <2>1, <3>1
  <2>6. \A i \in 1 .. size + n : i \notin 1 .. size /\ i # last =>
          session'.log[i].role # "assistant"
    <3> SUFFICES ASSUME NEW i \in 1 .. size + n, i \notin 1 .. size, i # last
                 PROVE  session'.log[i].role # "assistant"
      OBVIOUS
    <3>1. /\ i - size \in 1 .. n /\ i - size \in 1 .. sent - Offset
          /\ size + (i - size) = i /\ Offset + (i - size) \in Offset + 1 .. sent
      BY <1>4, <1>5, <1>9, <2>1
    <3>2. session'.log[i] = turns[Offset + (i - size)]
      BY <1>6, <1>8, <3>1
    <3>3. turns[Offset + (i - size)].role # "assistant"
      BY <1>1, <1>4, <3>1 DEF TalkInv, Asked
    <3>4. QED
      BY <3>2, <3>3
  <2>7. {i \in DOMAIN session'.log : session'.log[i].role = "assistant"} = old \union {last}
    <3> HIDE DEF last
    <3>1. old \subseteq 1 .. size
      BY <1>4
    <3>2. 1 .. size \subseteq 1 .. size + n
      BY <1>4, <1>9
    <3> HIDE DEF old
    <3>3. QED
      BY <1>9, <2>4, <2>5, <2>6, <3>1, <3>2
  <2> HIDE DEF old, last
  <2>8. Cardinality(old \union {last}) = Cardinality(old) + 1
    BY <2>3, FS_AddElement
  <2>9. QED
    BY <2>2, <2>7, <2>8 DEF Count
<1>16. QED
  BY <1>10, <1>12, <1>13, <1>14, <1>15 DEF TalkInv

LEMMA NextTalk == TalkInv /\ [Next]_vars => TalkInv'
<1> SUFFICES ASSUME TalkInv, [Next]_vars PROVE TalkInv'
  OBVIOUS
<1>1. CallInv'
  BY NextInv DEF TalkInv
<1>2. CASE Worker \/ UNCHANGED vars
  <2>1. UNCHANGED talk /\ call' = call
    BY <1>2 DEF Worker, WorkerSends, WorkerExits, WorkerDies, vars, talk
  <2>2. QED
    BY <1>1, <2>1, SilentTalk
<1>3. CASE Request \/ SdkReturns \/ AuthError \/ Receive \/ DeadlinePasses \/ StopWorker
           \/ Retry
  <2>1. UNCHANGED talk /\ call \in Calls /\ call.phase # "idle"
    BY <1>3 DEF TalkInv, CallInv, Typed, talk, Request, SdkReturns, AuthError, Receive,
                DeadlinePasses, StopWorker, Retry
  <2>2. call'.phase # "idle"
    BY <1>3, <2>1 DEF Calls, Request, SdkReturns, AuthError, Receive, DeadlinePasses,
                      StopWorker, Retry
  <2>3. QED
    BY <1>1, <2>1, <2>2, SilentTalk
<1>4. CASE Complete
  BY <1>1, <1>4, CompleteTalk
<1>5. CASE GiveUp \/ EndJob
  BY <1>1, <1>5, EndTalk
<1>6. CASE StartConversation
  BY <1>1, <1>6, ConversationTalk
<1>7. CASE StartEscalation
  BY <1>1, <1>7, EscalationTalk
<1>8. CASE AskAgain
  BY <1>1, <1>8, AskTalk
<1>9. QED
  BY <1>2, <1>3, <1>4, <1>5, <1>6, <1>7, <1>8 DEF Next, Caller, Job

\* A conversation is archived as it was sent, each turn once and in order, for any number
\* of jobs and turns and any room in the session.
THEOREM TranscriptStaysFaithful == Spec => []TranscriptFaithful
<1>1. TalkInv => TranscriptFaithful
  <2> SUFFICES ASSUME TalkInv PROVE TranscriptFaithful
    OBVIOUS
  <2>1. observerErrors = 0 => Count(session.log, "assistant") = ledger.calls
    BY DEF TalkInv, TalkTyped, Replies
  <2>2. ASSUME job.kind = "conversation"
        PROVE  \E k \in 0 .. Len(turns) :
                  /\ EndsWithTurns(k)
                  /\ call.phase = "idle" /\ observerErrors = 0 => k = Len(turns)
    <3>1. PICK k \in 0 .. Due : EndsWithTurns(k) /\ (session.open => k = Due)
      BY <2>2 DEF TalkInv, Kept
    <3>2. Len(turns) \in Nat /\ (observerErrors = 0 => session.open)
      BY DEF TalkInv, TalkTyped
    <3>3. Due \in 0 .. Len(turns) /\ (call.phase = "idle" => Due = Len(turns))
      BY <3>2 DEF Due, Offset
    <3>4. k \in 0 .. Len(turns)
      BY <3>1, <3>2, <3>3
    <3>5. QED
      BY <3>1, <3>2, <3>3, <3>4
  <2>3. QED
    BY <2>1, <2>2 DEF TranscriptFaithful
<1>2. QED
  BY <1>1, InitTalk, NextTalk, PTL DEF Spec
=============================================================================
