-------------------------- MODULE ProxyRequestProofs --------------------------
(***************************************************************************)
(* What holds of any requests, keys and retry limits of the direct proxy.  *)
(* Where the handler of a request waits decides what it holds and whether  *)
(* it counts as a stream (Placed).  From that, a step moves at most one    *)
(* key (StepsMoveKeys), and a key leaves the open streams only in a step   *)
(* that also calls endStream for it (StepsCloseStreams).                   *)
(***************************************************************************)
EXTENDS ProxyRequest, FiniteSetTheorems, TLAPS

RequestType ==
  /\ phase \in [Request -> Phases]
  /\ key \in [Request -> Keys \cup {NoKey}]
  /\ released \in [Request -> BOOLEAN]
  /\ attempt \in [Request -> 0..HardMaxRetries]
  /\ budget \in [Request -> 0..HardMaxRetries]
  /\ status \in [Request -> Statuses]
  /\ failures \in [Request -> SUBSET Statuses]
  /\ streaming \subseteq Request

Placed(r) ==
  /\ phase[r] \in {"acquire", "polling"} => key[r] = NoKey
  /\ phase[r] \in {"forwarded", "errorBody", "body", "sse"} => key[r] \in Keys
  /\ released[r] => phase[r] = "sse"
  /\ r \in streaming => phase[r] \in {"sse", "done"}
  /\ phase[r] = "errorBody" /\ status[r] = "429" => attempt[r] < budget[r]

\* The budget of a request is within the limit of every failure it has met.
WithinPolicy(r) == \A s \in failures[r] : budget[r] <= MaxRetriesFor(s)

RequestInv == RequestType /\ \A r \in Request : Placed(r) /\ WithinPolicy(r)

LEMMA HardMaxIs == HardMaxRetries \in Nat
  BY ProviderAssumption DEF HardMaxRetries, Lesser

LEMMA NoKeyIs == NoKey \notin Keys
  BY DEF NoKey, Keys

LEMMA MaxRetriesForIs == \A s : MaxRetriesFor(s) \in Nat
  BY ProxyAssumption DEF MaxRetriesFor

LEMMA LowerBudgetIs ==
  ASSUME RequestInv, NEW r \in Request, NEW s
  PROVE  /\ LowerBudget(r, s) \in 0..HardMaxRetries
         /\ LowerBudget(r, s) <= budget[r] /\ LowerBudget(r, s) <= MaxRetriesFor(s)
<1>1. budget[r] \in 0..HardMaxRetries
  BY DEF RequestInv, RequestType
<1>2. MaxRetriesFor(s) \in Nat /\ HardMaxRetries \in Nat
  BY MaxRetriesForIs, HardMaxIs
<1>3. QED  BY <1>1, <1>2 DEF LowerBudget, Lesser

-----------------------------------------------------------------------------
(* The request and its retries.                                            *)

\* A step of r keeps the invariant when it leaves r as it should be.
LEMMA OthersStay ==
  ASSUME RequestInv, NEW r \in Request, RequestType', Placed(r)', WithinPolicy(r)',
         \A q \in Request \ {r} :
           /\ phase'[q] = phase[q] /\ key'[q] = key[q] /\ released'[q] = released[q]
           /\ attempt'[q] = attempt[q] /\ budget'[q] = budget[q]
           /\ status'[q] = status[q] /\ failures'[q] = failures[q]
           /\ q \in streaming' <=> q \in streaming
  PROVE  RequestInv'
<1>1. ASSUME NEW q \in Request \ {r} PROVE Placed(q)' /\ WithinPolicy(q)'
  BY DEF RequestInv, Placed, WithinPolicy
<1>2. QED  BY <1>1 DEF RequestInv

LEMMA FinishKeeps ==
  ASSUME RequestInv, NEW r \in Request, Finish(r)
  PROVE  RequestInv'
<1> USE DEF Finish, GoTo, DropKey
<1>1. RequestType'
  <2> USE DEF RequestInv, RequestType
  <2>1. phase' \in [Request -> Phases]
    BY DEF Phases
  <2>2. (key \in [Request -> Keys \cup {NoKey}])' /\ released' \in [Request -> BOOLEAN]
    BY DEF Keys, NoKey
  <2>3. (attempt \in [Request -> 0..HardMaxRetries])' /\ (budget \in [Request -> 0..HardMaxRetries])'
    BY HardMaxIs DEF HardMaxRetries
  <2>4. /\ status' \in [Request -> Statuses] /\ failures' \in [Request -> SUBSET Statuses]
        /\ streaming' \subseteq Request
    BY DEF Statuses
  <2>5. QED  BY <2>1, <2>2, <2>3, <2>4
<1>2. /\ phase'[r] = "done" /\ ~released'[r] /\ failures'[r] = {} /\ r \notin streaming'
  BY DEF RequestInv, RequestType
<1>3. Placed(r)' /\ WithinPolicy(r)'
  BY <1>2 DEF Placed, WithinPolicy
<1>4. QED  BY <1>1, <1>3, OthersStay DEF RequestInv, RequestType

LEMMA MeetsKeeps ==
  ASSUME RequestInv, NEW r \in Request, NEW s \in Statuses, Meets(r, s)
  PROVE  /\ status' \in [Request -> Statuses]
         /\ budget' \in [Request -> 0..HardMaxRetries]
         /\ failures' \in [Request -> SUBSET Statuses]
         /\ WithinPolicy(r)'
         /\ status'[r] = s /\ budget'[r] = LowerBudget(r, s)
         /\ \A q \in Request \ {r} : /\ status'[q] = status[q] /\ budget'[q] = budget[q]
                                     /\ failures'[q] = failures[q]
<1>1. /\ LowerBudget(r, s) \in 0..HardMaxRetries
      /\ LowerBudget(r, s) <= budget[r] /\ LowerBudget(r, s) <= MaxRetriesFor(s)
  BY LowerBudgetIs
<1>2. status' \in [Request -> Statuses] /\ status'[r] = s
  BY DEF Meets, RequestInv, RequestType
<1>3. budget' \in [Request -> 0..HardMaxRetries] /\ budget'[r] = LowerBudget(r, s)
  BY <1>1 DEF Meets, RequestInv, RequestType
<1>4. failures' \in [Request -> SUBSET Statuses] /\ failures'[r] \subseteq failures[r] \cup {s}
  BY DEF Meets, RequestInv, RequestType
<1>5. ASSUME NEW f \in failures[r] PROVE LowerBudget(r, s) <= MaxRetriesFor(f)
  <2>1. budget[r] <= MaxRetriesFor(f) /\ budget[r] \in 0..HardMaxRetries
    BY DEF RequestInv, RequestType, WithinPolicy
  <2>2. MaxRetriesFor(f) \in Nat
    BY MaxRetriesForIs
  <2>3. QED  BY <1>1, <2>1, <2>2, HardMaxIs
<1>6. WithinPolicy(r)'
  <2>1. ASSUME NEW f \in failures'[r] PROVE budget'[r] <= MaxRetriesFor(f)
    BY <1>1, <1>3, <1>4, <1>5
  <2>2. \A f : MaxRetriesFor(f)' = MaxRetriesFor(f)
    BY DEF MaxRetriesFor
  <2>3. QED  BY <2>1, <2>2 DEF WithinPolicy
<1>7. QED  BY <1>2, <1>3, <1>4, <1>6 DEF Meets, RequestInv, RequestType

LEMMA NextAttemptKeeps ==
  ASSUME RequestType, NEW r \in Request, attempt[r] < HardMaxRetries, NextAttempt(r)
  PROVE  /\ phase' \in [Request -> Phases]
         /\ (key \in [Request -> Keys \cup {NoKey}])'
         /\ released' \in [Request -> BOOLEAN]
         /\ attempt' \in [Request -> 0..HardMaxRetries]
         /\ phase'[r] = "acquire" /\ key'[r] = NoKey /\ ~released'[r]
         /\ attempt'[r] = attempt[r] + 1
         /\ \A q \in Request \ {r} : /\ phase'[q] = phase[q] /\ key'[q] = key[q]
                                     /\ released'[q] = released[q] /\ attempt'[q] = attempt[q]
<1> USE DEF NextAttempt, GoTo, DropKey, RequestType
<1>1. phase' \in [Request -> Phases]
  BY DEF Phases
<1>2. attempt[r] \in 0..HardMaxRetries /\ attempt[r] + 1 \in 0..HardMaxRetries
  BY HardMaxIs
<1>3. attempt' \in [Request -> 0..HardMaxRetries] /\ attempt'[r] = attempt[r] + 1
  BY <1>2
<1>4. (key \in [Request -> Keys \cup {NoKey}])' /\ released' \in [Request -> BOOLEAN]
  BY DEF Keys, NoKey
<1>5. phase'[r] = "acquire" /\ key'[r] = NoKey /\ ~released'[r]
  OBVIOUS
<1>6. QED  BY <1>1, <1>3, <1>4, <1>5

\* The attempt counted is within the budget the failure just met leaves.
LEMMA RetryKeeps ==
  ASSUME RequestInv, NEW r \in Request, NEW s \in Statuses,
         WillRetry(r, s), r \notin streaming, streaming' = streaming, Meets(r, s), NextAttempt(r)
  PROVE  RequestInv' /\ attempt'[r] <= budget'[r] /\ attempt'[r] \in Nat
<1>1. /\ status' \in [Request -> Statuses]
      /\ budget' \in [Request -> 0..HardMaxRetries]
      /\ failures' \in [Request -> SUBSET Statuses]
      /\ WithinPolicy(r)'
      /\ status'[r] = s /\ budget'[r] = LowerBudget(r, s)
      /\ \A q \in Request \ {r} : /\ status'[q] = status[q] /\ budget'[q] = budget[q]
                                  /\ failures'[q] = failures[q]
  BY MeetsKeeps
<1>2. attempt[r] < budget'[r] /\ budget'[r] \in 0..HardMaxRetries /\ attempt[r] \in 0..HardMaxRetries
  BY <1>1 DEF WillRetry, RequestInv, RequestType
<1>3. attempt[r] < HardMaxRetries /\ RequestType
  BY <1>2, HardMaxIs DEF RequestInv
<1>4. /\ phase' \in [Request -> Phases]
      /\ (key \in [Request -> Keys \cup {NoKey}])'
      /\ released' \in [Request -> BOOLEAN]
      /\ attempt' \in [Request -> 0..HardMaxRetries]
      /\ phase'[r] = "acquire" /\ key'[r] = NoKey /\ ~released'[r]
      /\ attempt'[r] = attempt[r] + 1
      /\ \A q \in Request \ {r} : /\ phase'[q] = phase[q] /\ key'[q] = key[q]
                                  /\ released'[q] = released[q] /\ attempt'[q] = attempt[q]
  BY <1>3, NextAttemptKeeps
<1>5. RequestType'
  BY <1>1, <1>4 DEF RequestType, RequestInv, HardMaxRetries
<1>6. Placed(r)'
  BY <1>1, <1>4 DEF Placed
<1>7. RequestInv'
  BY <1>1, <1>4, <1>5, <1>6, OthersStay
<1>8. QED  BY <1>2, <1>4, <1>7, HardMaxIs

\* Going on to another wait: what r must be there is what the action ensures.
LEMMA AcquiringKeeps ==
  ASSUME RequestInv, NEW r \in Request, Acquiring(r)
  PROVE  RequestInv'
<1>1. ASSUME Finish(r) \/ UNCHANGED reqVars PROVE RequestInv'
  <2>1. CASE UNCHANGED reqVars
    BY <2>1 DEF reqVars, RequestInv, RequestType, Placed, WithinPolicy, MaxRetriesFor
  <2>2. QED  BY <1>1, <2>1, FinishKeeps
<1>2. ASSUME NEW k \in Keys, TakeKey(r, k) PROVE RequestInv'
  <2> USE <1>2 DEF TakeKey, GoTo
  <2>1. phase' \in [Request -> Phases] /\ phase'[r] = "forwarded"
    BY DEF RequestInv, RequestType, Phases
  <2>2. (key \in [Request -> Keys \cup {NoKey}])' /\ key'[r] \in Keys
    BY DEF RequestInv, RequestType
  <2>3. RequestType'
    BY <2>1, <2>2 DEF RequestInv, RequestType
  <2>4. ~released'[r] /\ r \notin streaming'
    BY DEF RequestInv, Placed
  <2>5. Placed(r)' /\ WithinPolicy(r)'
    BY <2>1, <2>2, <2>4 DEF RequestInv, Placed, WithinPolicy, MaxRetriesFor
  <2>6. QED  BY <2>3, <2>5, OthersStay DEF RequestInv, RequestType
<1>3. ASSUME NoKeyYet(r), ~Finish(r) PROVE RequestInv'
  <2> USE <1>3 DEF NoKeyYet, GoTo
  <2>1. phase' \in [Request -> Phases] /\ phase'[r] = "polling"
    BY DEF RequestInv, RequestType, Phases
  <2>2. RequestType'
    BY <2>1 DEF RequestInv, RequestType
  <2>3. Placed(r)' /\ WithinPolicy(r)'
    BY <2>1 DEF RequestInv, Placed, WithinPolicy, MaxRetriesFor
  <2>4. QED  BY <2>2, <2>3, OthersStay DEF RequestInv, RequestType
<1>4. ASSUME PollAgain(r) PROVE RequestInv'
  BY <1>1, <1>4 DEF PollAgain
<1>5. QED  BY <1>1, <1>2, <1>3, <1>4 DEF Acquiring

\* The three answers that are waited for longer, or streamed back.
AnswerTo(r, s, p) ==
  /\ phase[r] = "forwarded" /\ Meets(r, s) /\ GoTo(r, p)
  /\ streaming' = IF p = "sse" THEN streaming \cup {r} ELSE streaming
  /\ UNCHANGED <<key, released, attempt>>

LEMMA AnswerToKeeps ==
  ASSUME RequestInv, NEW r \in Request, NEW s \in Statuses, NEW p \in {"errorBody", "body", "sse"},
         AnswerTo(r, s, p),
         p = "errorBody" /\ s = "429" => WillRetry(r, s)
  PROVE  RequestInv'
<1> USE DEF AnswerTo, GoTo
<1>1. /\ status' \in [Request -> Statuses]
      /\ budget' \in [Request -> 0..HardMaxRetries]
      /\ failures' \in [Request -> SUBSET Statuses]
      /\ WithinPolicy(r)'
      /\ status'[r] = s /\ budget'[r] = LowerBudget(r, s)
      /\ \A q \in Request \ {r} : /\ status'[q] = status[q] /\ budget'[q] = budget[q]
                                  /\ failures'[q] = failures[q]
  BY MeetsKeeps
<1>2. phase' \in [Request -> Phases] /\ phase'[r] = p
  BY DEF RequestInv, RequestType, Phases
<1>3. \A q \in Request \ {r} : phase'[q] = phase[q]
  BY DEF RequestInv, RequestType
<1>4. RequestType'
  BY <1>1, <1>2 DEF RequestInv, RequestType, HardMaxRetries
<1>5. key'[r] \in Keys /\ ~released'[r] /\ (r \in streaming' => p = "sse")
  BY DEF RequestInv, Placed
<1>6. Placed(r)'
  BY <1>1, <1>2, <1>5 DEF Placed, WillRetry
<1>7. QED  BY <1>1, <1>3, <1>4, <1>6, OthersStay

\* An attempt is only ever counted up to the budget it is made within.
CountedWithinBudget == \A r \in Request : attempt'[r] > attempt[r] => attempt'[r] <= budget'[r]

LEMMA CountedUnchanged ==
  ASSUME RequestInv, attempt' = attempt \/ \E r \in Request : Finish(r)
  PROVE  CountedWithinBudget
<1>1. \A q \in Request : attempt'[q] = 0 \/ attempt'[q] = attempt[q]
  BY DEF Finish, RequestInv, RequestType
<1>2. \A q \in Request : attempt[q] \in Nat
  BY HardMaxIs DEF RequestInv, RequestType
<1>3. QED  BY <1>1, <1>2 DEF CountedWithinBudget

LEMMA AnsweredKeeps ==
  ASSUME RequestInv, NEW r \in Request, Answered(r)
  PROVE  RequestInv' /\ CountedWithinBudget
<1>1. ASSUME NEW s \in {"5xx", "net"}, WillRetry(r, s), Meets(r, s), NextAttempt(r),
             phase[r] = "forwarded", streaming' = streaming
      PROVE  RequestInv' /\ CountedWithinBudget
  <2>1. s \in Statuses
    BY DEF Statuses
  <2>2. r \notin streaming
    BY <1>1 DEF RequestInv, Placed
  <2>3. RequestInv' /\ attempt'[r] <= budget'[r]
    BY <1>1, <2>1, <2>2, RetryKeeps
  <2>4. \A q \in Request \ {r} : attempt'[q] = attempt[q] /\ attempt[q] \in Nat
    BY <1>1, HardMaxIs DEF NextAttempt, RequestInv, RequestType
  <2>5. QED  BY <2>3, <2>4 DEF CountedWithinBudget
<1>2. CASE Retry5xx(r)
  BY <1>1, <1>2 DEF Retry5xx
<1>3. CASE NetworkError(r)
  BY <1>1, <1>3, FinishKeeps, CountedUnchanged DEF NetworkError
<1>4. ASSUME NEW s \in Statuses, AwaitErrorBody(r, s)
      PROVE  RequestInv' /\ CountedWithinBudget
  <2>1. AnswerTo(r, s, "errorBody") /\ (s = "429" => WillRetry(r, s))
    BY <1>4 DEF AwaitErrorBody, AnswerTo
  <2>2. QED  BY <2>1, AnswerToKeeps, CountedUnchanged DEF AnswerTo
<1>5. ASSUME NEW s \in Statuses, StartBody(r, s)
      PROVE  RequestInv' /\ CountedWithinBudget
  <2>1. AnswerTo(r, s, "body")
    BY <1>5 DEF StartBody, FinalAnswer, AnswerTo
  <2>2. QED  BY <2>1, AnswerToKeeps, CountedUnchanged DEF AnswerTo
<1>6. ASSUME NEW s \in Statuses, StartSSE(r, s)
      PROVE  RequestInv' /\ CountedWithinBudget
  <2>1. AnswerTo(r, s, "sse")
    BY <1>6 DEF StartSSE, FinalAnswer, AnswerTo
  <2>2. QED  BY <2>1, AnswerToKeeps, CountedUnchanged DEF AnswerTo
<1>7. QED  BY <1>2, <1>3, <1>4, <1>5, <1>6 DEF Answered

LEMMA ErrorBodyReadKeeps ==
  ASSUME RequestInv, NEW r \in Request, ErrorBodyRead(r)
  PROVE  RequestInv' /\ CountedWithinBudget
<1>1. ASSUME NEW deprecated \in BOOLEAN, AnswerBadRequest(r, deprecated)
      PROVE  RequestInv' /\ CountedWithinBudget
  BY <1>1, FinishKeeps, CountedUnchanged DEF AnswerBadRequest
<1>2. ASSUME NEW c \in CooldownFor429, Retry429(r, c)
      PROVE  RequestInv' /\ CountedWithinBudget
  <2> USE <1>2 DEF Retry429
  <2>1. attempt[r] \in 0..HardMaxRetries /\ attempt[r] < budget[r] /\ budget[r] \in 0..HardMaxRetries
    BY DEF RequestInv, RequestType, Placed
  <2>2. attempt[r] < HardMaxRetries /\ RequestType
    BY <2>1, HardMaxIs DEF RequestInv
  <2>3. /\ phase' \in [Request -> Phases]
        /\ (key \in [Request -> Keys \cup {NoKey}])'
        /\ released' \in [Request -> BOOLEAN]
        /\ attempt' \in [Request -> 0..HardMaxRetries]
        /\ phase'[r] = "acquire" /\ key'[r] = NoKey /\ ~released'[r]
        /\ attempt'[r] = attempt[r] + 1
        /\ \A q \in Request \ {r} : /\ phase'[q] = phase[q] /\ key'[q] = key[q]
                                    /\ released'[q] = released[q] /\ attempt'[q] = attempt[q]
    BY <2>2, NextAttemptKeeps
  <2>4. RequestType'
    BY <2>2, <2>3 DEF RequestType, HardMaxRetries
  <2>5. Placed(r)' /\ WithinPolicy(r)'
    BY <2>3 DEF Placed, RequestInv, WithinPolicy, MaxRetriesFor
  <2>6. RequestInv'
    BY <2>3, <2>4, <2>5, OthersStay
  <2>7. attempt'[r] <= budget'[r]
    BY <2>1, <2>3, HardMaxIs
  <2>8. \A q \in Request \ {r} : attempt[q] \in Nat
    BY HardMaxIs DEF RequestInv, RequestType
  <2>9. QED  BY <2>3, <2>6, <2>7, <2>8 DEF CountedWithinBudget
<1>3. QED  BY <1>1, <1>2 DEF ErrorBodyRead

LEMMA StreamStepsKeep ==
  ASSUME RequestInv, NEW r \in Request,
         (\E n \in 1..MaxUsageLines : UsageChunk(r, n)) \/ SSETimeout(r) \/ Disconnect(r)
  PROVE  RequestInv'
<1>1. CASE \E n \in 1..MaxUsageLines : UsageChunk(r, n)
  <2> USE <1>1 DEF UsageChunk
  <2>1. released' \in [Request -> BOOLEAN]
    BY DEF RequestInv, RequestType
  <2>2. RequestType' /\ Placed(r)' /\ WithinPolicy(r)'
    BY <2>1 DEF RequestInv, RequestType, Placed, WithinPolicy, MaxRetriesFor
  <2>3. QED  BY <2>2, OthersStay DEF RequestInv, RequestType
<1>2. ASSUME phase[r] \in {"body", "sse"}, Abandon(r)
      PROVE  RequestInv'
  <2>1. CASE released[r]
    BY <1>2, <2>1, FinishKeeps DEF Abandon
  <2>2. CASE ~released[r]
    <3> USE <1>2, <2>2 DEF Abandon, GoTo
    <3>1. phase' \in [Request -> Phases] /\ phase'[r] = "done"
      BY DEF RequestInv, RequestType, Phases
    <3>2. RequestType' /\ Placed(r)' /\ WithinPolicy(r)'
      BY <3>1 DEF RequestInv, RequestType, Placed, WithinPolicy, MaxRetriesFor
    <3>3. QED  BY <3>2, OthersStay DEF RequestInv, RequestType
  <2>3. QED  BY <2>1, <2>2
<1>3. ASSUME UNCHANGED <<phase, key, released, attempt, budget, status, streaming, failures>>
      PROVE  RequestInv'
  BY <1>3 DEF RequestInv, RequestType, Placed, WithinPolicy, MaxRetriesFor
<1>4. QED  BY <1>1, <1>2, <1>3 DEF SSETimeout, Disconnect

LEMMA RequestNext ==
  ASSUME RequestInv, [Next]_vars
  PROVE  RequestInv' /\ CountedWithinBudget
<1>1. ASSUME NEW r \in Request, Acquiring(r)
      PROVE  RequestInv' /\ CountedWithinBudget
  <2>1. attempt' = attempt \/ Finish(r)
    BY <1>1 DEF Acquiring, TakeKey, NoKeyYet, PollAgain, reqVars
  <2>2. QED  BY <1>1, <2>1, AcquiringKeeps, CountedUnchanged
<1>2. ASSUME NEW r \in Request, ResponseOver(r)
      PROVE  RequestInv' /\ CountedWithinBudget
  <2>1. Finish(r)
    BY <1>2 DEF ResponseOver, BodyEnd, BodyError, SSEEnd, SSEError
  <2>2. QED  BY <2>1, FinishKeeps, CountedUnchanged
<1>3. ASSUME NEW r \in Request,
             (\E n \in 1..MaxUsageLines : UsageChunk(r, n)) \/ SSETimeout(r) \/ Disconnect(r)
      PROVE  RequestInv' /\ CountedWithinBudget
  <2>1. attempt' = attempt \/ Finish(r)
    BY <1>3 DEF UsageChunk, SSETimeout, Disconnect, Abandon
  <2>2. QED  BY <1>3, <2>1, StreamStepsKeep, CountedUnchanged
<1>4. ASSUME UNCHANGED <<phase, key, released, attempt, budget, status, streaming, failures>>
      PROVE  RequestInv' /\ CountedWithinBudget
  <2>1. RequestInv'
    BY <1>4 DEF RequestInv, RequestType, Placed, WithinPolicy, MaxRetriesFor
  <2>2. QED  BY <1>4, <2>1, CountedUnchanged
<1>5. CASE Tick \/ UNCHANGED vars
  BY <1>4, <1>5 DEF Tick, vars, reqVars
<1>6. QED
  BY <1>1, <1>2, <1>3, <1>5, AnsweredKeeps, ErrorBodyReadKeeps DEF Next

LEMMA RequestInit == ASSUME Init PROVE RequestInv
<1> USE DEF Init
<1>1. RequestType
  BY HardMaxIs DEF RequestType, Phases, Statuses
<1>2. \A r \in Request : Placed(r) /\ WithinPolicy(r)
  BY DEF Placed, WithinPolicy
<1>3. QED  BY <1>1, <1>2 DEF RequestInv

LEMMA RetryPolicyStep ==
  ASSUME RequestInv, [Next]_vars, NEW r \in Request, attempt'[r] > attempt[r], NEW s \in failures'[r]
  PROVE  attempt'[r] <= MaxRetriesFor(s)
<1>1. RequestInv' /\ attempt'[r] <= budget'[r]
  BY RequestNext DEF CountedWithinBudget
<1>2. budget'[r] <= MaxRetriesFor(s)
  BY <1>1 DEF RequestInv, WithinPolicy, MaxRetriesFor
<1>3. attempt'[r] \in Nat /\ budget'[r] \in Nat /\ MaxRetriesFor(s) \in Nat
  <2>1. attempt'[r] \in 0..HardMaxRetries /\ budget'[r] \in 0..HardMaxRetries
    BY <1>1 DEF RequestInv, RequestType, HardMaxRetries
  <2>2. QED  BY <2>1, HardMaxIs, MaxRetriesForIs
<1>4. QED  BY <1>1, <1>2, <1>3

\* maxRetriesFor holds for every mix of failures a request meets, whatever the
\* limits: the strictest of them bounds its attempts.
THEOREM ProxyRetryPolicy == Spec => RetryPolicy
<1>1. Init => RequestInv
  BY RequestInit
<1>2. RequestInv /\ [Next]_vars => RequestInv'
  BY RequestNext
<1>3. RequestInv /\ [Next]_vars =>
        [\A r \in Request : attempt'[r] > attempt[r] =>
           \A s \in failures'[r] : attempt'[r] <= MaxRetriesFor(s)]_vars
  BY RetryPolicyStep
<1>4. QED  BY <1>1, <1>2, <1>3, PTL DEF Spec, RetryPolicy

-----------------------------------------------------------------------------
(***************************************************************************)
(* The keys.  A step hands k to r, takes back what r holds, or leaves all  *)
(* with what they have; HeldKey is what the lease sees of it.              *)
(***************************************************************************)
HoldersOf(k) == {r \in Request : HeldKey[r] = k}

LoadType ==
  /\ pending \in [Keys -> Nat]
  /\ activeStreams \in [Keys -> Nat]
  /\ surplus \in [Keys -> Nat]

Gains(r, k) ==
  /\ HeldKey[r] = NoKey /\ AcquireKey(k)
  /\ HeldKey' = [HeldKey EXCEPT ![r] = k]
  /\ surplus' = surplus

\* The key of r is released n times; all but the first are too many.
Loses(r, n) ==
  LET k == HeldKey[r]
  IN  /\ k \in Keys
      /\ pending' = IF HasScorer THEN [pending EXCEPT ![k] = Greater(@ - n, 0)] ELSE pending
      /\ HeldKey' = [HeldKey EXCEPT ![r] = NoKey]
      /\ surplus' = [surplus EXCEPT ![k] = Lesser(@ + (n - 1), Cardinality(HoldersOf(k)) - 1)]

Keeps == UNCHANGED <<HeldKey, pending, surplus>>

MovesKey ==
  \/ \E r \in Request, k \in Keys : Gains(r, k)
  \/ \E r \in Request, n \in 1..MaxUsageLines : Loses(r, n)
  \/ Keeps

LEMMA CountedHolders ==
  ASSUME NEW k \in Keys
  PROVE  Holders(k) = HoldersOf(k)
  BY NoKeyIs DEF Holders, HoldersOf, HeldKey, Holding

LEMMA HeldIs ==
  ASSUME RequestType, NEW r \in Request
  PROVE  /\ HeldKey[r] = IF released[r] THEN NoKey ELSE key[r]
         /\ HeldKey[r] \in Keys \cup {NoKey}
  BY DEF HeldKey, Holding, RequestType

LEMMA HeldAfter ==
  ASSUME RequestType, NEW r \in Request, NEW k \in Keys \cup {NoKey}, NEW b \in BOOLEAN,
         key' = [key EXCEPT ![r] = k], released' = [released EXCEPT ![r] = b]
  PROVE  /\ HeldKey' = [HeldKey EXCEPT ![r] = IF b THEN NoKey ELSE k]
         /\ HeldKey'[r] = IF b THEN NoKey ELSE k
         /\ \A q \in Request \ {r} : HeldKey'[q] = HeldKey[q]
<1>1. ASSUME NEW q \in Request
      PROVE  HeldKey'[q] = IF q = r THEN IF b THEN NoKey ELSE k ELSE HeldKey[q]
  BY DEF HeldKey, Holding, RequestType
<1>2. QED  BY <1>1 DEF HeldKey

\* A dropped key is no longer held; nobody else notices.
LEMMA HeldAfterDrop ==
  ASSUME RequestInv, NEW r \in Request, DropKey(r)
  PROVE  /\ HeldKey' = [HeldKey EXCEPT ![r] = NoKey]
         /\ HeldKey'[r] = NoKey
         /\ \A q \in Request \ {r} : HeldKey'[q] = HeldKey[q]
  BY HeldAfter DEF RequestInv, DropKey

\* One release, as the scorer counts it.
LEMMA DecrementIs ==
  ASSUME pending \in [Keys -> Nat], NEW k \in Keys, DecrementPending(k)
  PROVE  pending' = IF HasScorer THEN [pending EXCEPT ![k] = Greater(@ - 1, 0)] ELSE pending
<1>1. CASE HasScorer /\ pending[k] > 0
  <2>1. Greater(pending[k] - 1, 0) = pending[k] - 1
    BY <1>1 DEF Greater
  <2>2. QED  BY <1>1, <2>1 DEF DecrementPending
<1>2. CASE HasScorer /\ pending[k] = 0
  <2>1. [pending EXCEPT ![k] = Greater(@ - 1, 0)] = pending
    BY <1>2 DEF Greater
  <2>2. QED  BY <1>2, <2>1 DEF DecrementPending
<1>3. CASE ~HasScorer
  BY <1>3 DEF DecrementPending
<1>4. QED  BY <1>1, <1>2, <1>3

\* What is dropped was held, unless it was released before.
LEMMA DroppedKey ==
  ASSUME RequestInv, LoadType, NEW r \in Request, key[r] \in Keys, DropKey(r),
         NEW o, ReleaseOnce(r, o)
  PROVE  Loses(r, 1) \/ Keeps
<1>1. HeldKey' = [HeldKey EXCEPT ![r] = NoKey]
  BY HeldAfterDrop
<1>2. CASE released[r]
  <2>1. HeldKey[r] = NoKey
    BY <1>2, HeldIs DEF RequestInv
  <2>2. HeldKey' = HeldKey
    BY <1>1, <2>1 DEF HeldKey
  <2>3. QED  BY <1>2, <2>2 DEF ReleaseOnce, Keeps
<1>3. CASE ~released[r]
  <2>1. HeldKey[r] = key[r]
    BY <1>3, HeldIs DEF RequestInv
  <2>2. DecrementPending(key[r]) /\ GivesBack(r, 0)
    BY <1>3 DEF ReleaseOnce, ReleaseKey
  <2>3. pending' = IF HasScorer THEN [pending EXCEPT ![key[r]] = Greater(@ - 1, 0)] ELSE pending
    BY <2>2, DecrementIs DEF LoadType
  <2>4. surplus' = [surplus EXCEPT ![key[r]] =
                      Lesser(@ + (1 - 1), Cardinality(HoldersOf(key[r])) - 1)]
    <3>1. Holders(key[r]) = HoldersOf(key[r]) /\ 1 - 1 = 0
      BY CountedHolders
    <3>2. QED  BY <2>2, <3>1 DEF GivesBack
  <2>5. QED  BY <1>1, <2>1, <2>3, <2>4 DEF Loses
<1>4. QED  BY <1>2, <1>3

LEMMA DroppedNothing ==
  ASSUME RequestInv, NEW r \in Request, key[r] = NoKey \/ released[r], DropKey(r),
         UNCHANGED <<pending, surplus>>
  PROVE  Keeps
<1>1. HeldKey' = [HeldKey EXCEPT ![r] = NoKey]
  BY HeldAfterDrop
<1>2. HeldKey[r] = NoKey
  BY HeldIs DEF RequestInv
<1>3. HeldKey' = HeldKey
  BY <1>1, <1>2 DEF HeldKey
<1>4. QED  BY <1>3 DEF Keeps

LEMMA StepsMoveKeys ==
  ASSUME RequestInv, LoadType, [Next]_vars
  PROVE  MovesKey
<1>1. ASSUME UNCHANGED <<key, released, pending, surplus>>
      PROVE  MovesKey
  BY <1>1 DEF MovesKey, Keeps, HeldKey, Holding
<1>2. ASSUME NEW r \in Request, Acquiring(r)
      PROVE  MovesKey
  <2>1. key[r] = NoKey /\ ~released[r]
    BY <1>2 DEF Acquiring, TakeKey, NoKeyYet, PollAgain, RequestInv, Placed
  <2>2. ASSUME NEW k \in Keys, TakeKey(r, k)
        PROVE  MovesKey
    <3>1. key' = [key EXCEPT ![r] = k] /\ released' = [released EXCEPT ![r] = FALSE]
      BY <2>1, <2>2 DEF TakeKey, RequestInv, RequestType
    <3>2. HeldKey' = [HeldKey EXCEPT ![r] = k]
      BY <3>1, HeldAfter DEF RequestInv
    <3>3. HeldKey[r] = NoKey
      BY <2>1, HeldIs DEF RequestInv
    <3>4. QED  BY <2>2, <3>2, <3>3 DEF MovesKey, Gains, TakeKey
  <2>3. ASSUME NoKeyYet(r) \/ PollAgain(r)
        PROVE  MovesKey
    <3>1. UNCHANGED <<pending, surplus>> /\ (DropKey(r) \/ UNCHANGED <<key, released>>)
      BY <2>3 DEF NoKeyYet, PollAgain, AcquireNone, Finish, reqVars, loadVars
    <3>2. QED  BY <1>1, <2>1, <3>1, DroppedNothing DEF MovesKey
  <2>4. QED  BY <1>2, <2>2, <2>3 DEF Acquiring
<1>3. ASSUME NEW r \in Request,
             Retry5xx(r) \/ NetworkError(r) \/ ErrorBodyRead(r) \/ ResponseOver(r)
      PROVE  MovesKey
  <2>1. key[r] \in Keys
    BY <1>3 DEF Retry5xx, NetworkError, ErrorBodyRead, Retry429, AnswerBadRequest, ResponseOver,
                BodyEnd, BodyError, SSEEnd, SSEError, RequestInv, Placed
  <2>2. DropKey(r)
    BY <1>3 DEF Retry5xx, NetworkError, ErrorBodyRead, Retry429, AnswerBadRequest, ResponseOver,
                BodyEnd, BodyError, SSEEnd, SSEError, NextAttempt, Finish
  <2>3. \E o : ReleaseOnce(r, o)
    BY <1>3 DEF Retry5xx, NetworkError, ErrorBodyRead, Retry429, AnswerBadRequest, ResponseOver,
                BodyEnd, BodyError, SSEEnd, SSEError
  <2>4. Loses(r, 1) \/ Keeps
    BY <2>1, <2>2, <2>3, DroppedKey
  <2>5. 1 \in 1..MaxUsageLines
    BY ProxyAssumption
  <2>6. QED  BY <2>4, <2>5 DEF MovesKey
<1>4. ASSUME NEW r \in Request,
             \E s \in Statuses : AwaitErrorBody(r, s) \/ StartBody(r, s) \/ StartSSE(r, s)
      PROVE  MovesKey
  BY <1>1, <1>4 DEF AwaitErrorBody, StartBody, StartSSE, FinalAnswer, provVars, loadVars
<1>5. ASSUME NEW r \in Request, NEW n \in 1..MaxUsageLines, UsageChunk(r, n)
      PROVE  MovesKey
  <2>1. key[r] \in Keys /\ ~released[r]
    BY <1>5 DEF UsageChunk, RequestInv, Placed
  <2>2. key' = [key EXCEPT ![r] = key[r]] /\ released' = [released EXCEPT ![r] = TRUE]
    BY <1>5 DEF UsageChunk, RequestInv, RequestType
  <2>3. HeldKey' = [HeldKey EXCEPT ![r] = NoKey]
    BY <2>1, <2>2, HeldAfter DEF RequestInv
  <2>4. HeldKey[r] = key[r]
    BY <2>1, HeldIs DEF RequestInv
  <2>5. pending' = IF HasScorer THEN [pending EXCEPT ![key[r]] = Greater(@ - n, 0)] ELSE pending
    BY <1>5 DEF UsageChunk, ReleaseSuccesses
  <2>6. surplus' = [surplus EXCEPT ![key[r]] =
                      Lesser(@ + (n - 1), Cardinality(HoldersOf(key[r])) - 1)]
    BY <1>5, <2>1, CountedHolders DEF UsageChunk, GivesBack
  <2>7. Loses(r, n)
    BY <2>1, <2>3, <2>4, <2>5, <2>6 DEF Loses
  <2>8. QED  BY <2>7 DEF MovesKey
<1>6. ASSUME NEW r \in Request, SSETimeout(r) \/ Disconnect(r)
      PROVE  MovesKey
  <2>1. /\ UNCHANGED <<pending, surplus>>
        /\ \/ UNCHANGED <<key, released>>
           \/ released[r] /\ DropKey(r)
    BY <1>6 DEF SSETimeout, Disconnect, Abandon, Finish, provVars, loadVars
  <2>2. QED  BY <1>1, <2>1, DroppedNothing DEF MovesKey
<1>7. CASE Tick \/ UNCHANGED vars
  BY <1>1, <1>7 DEF Tick, ProviderTick, vars, provVars, loadVars, reqVars
<1>8. QED  BY <1>2, <1>3, <1>4, <1>5, <1>6, <1>7 DEF Next, Answered

-----------------------------------------------------------------------------
(***************************************************************************)
(* The streams.  Only a step that also calls endStream for its key takes a *)
(* request out of the open streams of that key.                            *)
(***************************************************************************)
InStream(r) == HeldKey[r] \in Keys /\ r \in streaming

StaysOpen(r) ==
  /\ activeStreams' = activeStreams
  /\ InStream(r) => HeldKey'[r] = HeldKey[r] /\ r \in streaming'

Opens(r) ==
  /\ HeldKey[r] \in Keys /\ r \notin streaming
  /\ HeldKey'[r] = HeldKey[r] /\ r \in streaming'
  /\ activeStreams' = StreamsStarted(HeldKey[r])

Closes(r) ==
  /\ key[r] \in Keys /\ HeldKey[r] \in {NoKey, key[r]}
  /\ \/ activeStreams' = StreamsEnded(key[r])
     \/ \E n \in 1..MaxUsageLines : activeStreams' = StreamsEndedTimes(key[r], n)

MovesStream ==
  \/ \E r \in Request :
       /\ \A q \in Request \ {r} : HeldKey'[q] = HeldKey[q] /\ (q \in streaming' <=> q \in streaming)
       /\ StaysOpen(r) \/ Opens(r) \/ Closes(r)
  \/ UNCHANGED <<HeldKey, streaming, activeStreams>>

\* A request that is not streaming is in no stream, and neither is one whose
\* usage chunk has come.
LEMMA NotInStream ==
  ASSUME RequestInv, NEW r \in Request, phase[r] \notin {"sse", "done"} \/ released[r]
  PROVE  ~InStream(r)
<1>1. CASE released[r]
  BY <1>1, HeldIs, NoKeyIs DEF InStream, RequestInv
<1>2. CASE ~released[r]
  BY <1>2 DEF InStream, RequestInv, Placed
<1>3. QED  BY <1>1, <1>2

LEMMA StepsCloseStreams ==
  ASSUME RequestInv, [Next]_vars
  PROVE  MovesStream
<1>1. ASSUME NEW r \in Request, DropKey(r), activeStreams' = activeStreams, ~InStream(r),
             \A q \in Request \ {r} : q \in streaming' <=> q \in streaming
      PROVE  MovesStream
  <2>1. \A q \in Request \ {r} : HeldKey'[q] = HeldKey[q]
    BY <1>1, HeldAfterDrop
  <2>2. QED  BY <1>1, <2>1 DEF MovesStream, StaysOpen
<1>2. ASSUME UNCHANGED <<key, released, streaming, activeStreams>>
      PROVE  MovesStream
  BY <1>2 DEF MovesStream, HeldKey, Holding
<1>3. ASSUME NEW r \in Request, UNCHANGED <<key, released, activeStreams>>, ~InStream(r),
             \A q \in Request \ {r} : q \in streaming' <=> q \in streaming
      PROVE  MovesStream
  <2>1. HeldKey' = HeldKey
    BY <1>3 DEF HeldKey, Holding
  <2>2. QED  BY <1>3, <2>1 DEF MovesStream, StaysOpen
<1>4. ASSUME NEW r \in Request, Finish(r) \/ streaming' = streaming, NEW q \in Request \ {r}
      PROVE  q \in streaming' <=> q \in streaming
  BY <1>4 DEF Finish
<1>5. ASSUME NEW r \in Request, NEW k \in Keys, TakeKey(r, k)
      PROVE  MovesStream
  <2>1. key' = [key EXCEPT ![r] = k] /\ released' = [released EXCEPT ![r] = FALSE]
    BY <1>5 DEF TakeKey, RequestInv, RequestType, Placed
  <2>2. \A q \in Request \ {r} : HeldKey'[q] = HeldKey[q]
    BY <2>1, HeldAfter DEF RequestInv
  <2>3. activeStreams' = activeStreams /\ streaming' = streaming /\ ~InStream(r)
    BY <1>5, NotInStream DEF TakeKey, AcquireKey
  <2>4. QED  BY <2>2, <2>3 DEF MovesStream, StaysOpen
<1>6. ASSUME NEW r \in Request, NoKeyYet(r) \/ PollAgain(r)
      PROVE  MovesStream
  <2>1. ~InStream(r)
    BY <1>6, NotInStream DEF NoKeyYet, PollAgain
  <2>2. /\ activeStreams' = activeStreams
        /\ Finish(r) \/ UNCHANGED <<key, released, streaming>>
    BY <1>6 DEF NoKeyYet, PollAgain, AcquireNone, loadVars, reqVars
  <2>3. CASE Finish(r)
    BY <1>1, <1>4, <2>1, <2>2, <2>3 DEF Finish
  <2>4. QED  BY <1>2, <2>2, <2>3
<1>7. ASSUME NEW r \in Request, Retry5xx(r) \/ NetworkError(r) \/ ErrorBodyRead(r)
      PROVE  MovesStream
  <2>1. ~InStream(r)
    BY <1>7, NotInStream DEF Retry5xx, NetworkError, ErrorBodyRead, Retry429, AnswerBadRequest
  <2>2. /\ activeStreams' = activeStreams /\ DropKey(r)
        /\ Finish(r) \/ streaming' = streaming
    BY <1>7 DEF Retry5xx, NetworkError, ErrorBodyRead, Retry429, AnswerBadRequest, NextAttempt,
                Finish
  <2>3. QED  BY <1>1, <1>4, <2>1, <2>2
<1>8. ASSUME NEW r \in Request, \E s \in Statuses : AwaitErrorBody(r, s) \/ StartBody(r, s)
      PROVE  MovesStream
  <2>1. ~InStream(r)
    BY <1>8, NotInStream DEF AwaitErrorBody, StartBody, FinalAnswer
  <2>2. UNCHANGED <<key, released, streaming, activeStreams>>
    BY <1>8 DEF AwaitErrorBody, StartBody, FinalAnswer, provVars, loadVars
  <2>3. QED  BY <1>3, <1>4, <2>1, <2>2
<1>9. ASSUME NEW r \in Request, NEW s \in Statuses, StartSSE(r, s)
      PROVE  MovesStream
  <2>1. key[r] \in Keys /\ ~released[r] /\ r \notin streaming
    BY <1>9 DEF StartSSE, FinalAnswer, RequestInv, Placed
  <2>2. HeldKey[r] = key[r] /\ HeldKey' = HeldKey
    BY <1>9, <2>1, HeldIs DEF StartSSE, FinalAnswer, HeldKey, Holding, RequestInv
  <2>3. streaming' = streaming \cup {r} /\ activeStreams' = StreamsStarted(key[r])
    BY <1>9 DEF StartSSE
  <2>4. Opens(r)
    BY <2>1, <2>2, <2>3 DEF Opens
  <2>5. \A q \in Request \ {r} : HeldKey'[q] = HeldKey[q] /\ (q \in streaming' <=> q \in streaming)
    BY <2>2, <2>3
  <2>6. QED  BY <2>4, <2>5 DEF MovesStream
<1>10. ASSUME NEW r \in Request, BodyError(r) \/ \E o \in Outcomes : BodyEnd(r, o)
       PROVE  MovesStream
  <2>1. ~InStream(r)
    BY <1>10, NotInStream DEF BodyError, BodyEnd
  <2>2. activeStreams' = activeStreams /\ Finish(r)
    BY <1>10 DEF BodyError, BodyEnd
  <2>3. QED  BY <1>1, <1>4, <2>1, <2>2 DEF Finish
<1>11. ASSUME NEW r \in Request, NEW n \in 1..MaxUsageLines, UsageChunk(r, n)
       PROVE  MovesStream
  <2>1. key[r] \in Keys /\ HeldKey[r] = key[r]
    BY <1>11, HeldIs DEF UsageChunk, RequestInv, Placed
  <2>2. key' = [key EXCEPT ![r] = key[r]] /\ released' = [released EXCEPT ![r] = TRUE]
    BY <1>11 DEF UsageChunk, RequestInv, RequestType
  <2>3. \A q \in Request \ {r} : HeldKey'[q] = HeldKey[q]
    BY <2>1, <2>2, HeldAfter DEF RequestInv
  <2>4. QED  BY <1>11, <2>1, <2>3 DEF UsageChunk, MovesStream, Closes
<1>12. ASSUME NEW r \in Request, SSEError(r) \/ \E o \in Outcomes : SSEEnd(r, o)
       PROVE  MovesStream
  <2>1. key[r] \in Keys /\ HeldKey[r] \in {NoKey, key[r]} /\ Finish(r)
    BY <1>12, HeldIs DEF SSEEnd, SSEError, RequestInv, Placed
  <2>2. CASE released[r] /\ activeStreams' = activeStreams
    BY <1>1, <1>4, <2>1, <2>2, NotInStream DEF Finish
  <2>3. CASE activeStreams' = StreamsEnded(key[r])
    <3>1. \A q \in Request \ {r} : HeldKey'[q] = HeldKey[q] /\ (q \in streaming' <=> q \in streaming)
      BY <1>4, <2>1, HeldAfterDrop DEF Finish
    <3>2. QED  BY <2>1, <2>3, <3>1 DEF MovesStream, Closes
  <2>4. QED  BY <1>12, <2>2, <2>3 DEF SSEEnd, SSEError
<1>13. ASSUME NEW r \in Request, SSETimeout(r) \/ Disconnect(r)
       PROVE  MovesStream
  <2>1. /\ activeStreams' = activeStreams
        /\ \/ UNCHANGED <<key, released, streaming>>
           \/ released[r] /\ Finish(r)
    BY <1>13 DEF SSETimeout, Disconnect, Abandon, provVars, loadVars
  <2>2. CASE released[r] /\ Finish(r)
    BY <1>1, <1>4, <2>1, <2>2, NotInStream DEF Finish
  <2>3. QED  BY <1>2, <2>1, <2>2
<1>14. CASE Tick \/ UNCHANGED vars
  BY <1>2, <1>14 DEF Tick, ProviderTick, vars, provVars, loadVars, reqVars
<1>15. QED
  BY <1>5, <1>6, <1>7, <1>8, <1>9, <1>10, <1>11, <1>12, <1>13, <1>14
  DEF Next, Acquiring, Answered, ResponseOver

-----------------------------------------------------------------------------
(***************************************************************************)
(* Counting.                                                               *)
(***************************************************************************)
StreamsOf(k) == {r \in Request : HeldKey[r] = k /\ r \in streaming}

PendingInBounds ==
  \A k \in Keys : /\ pending[k] <= Cardinality(HoldersOf(k))
                  /\ pending[k] >= Cardinality(HoldersOf(k)) - surplus[k]

CountInv ==
  /\ RequestInv /\ LoadType
  /\ HasScorer => PendingInBounds
  /\ HasScorer => \A k \in Keys : activeStreams[k] <= Cardinality(StreamsOf(k))

LEMMA SubsetsFinite ==
  ASSUME NEW S \in SUBSET Request
  PROVE  IsFiniteSet(S) /\ Cardinality(S) \in Nat
<1>1. IsFiniteSet(Request)
  BY ProxyAssumption
<1>2. IsFiniteSet(S)
  BY <1>1, FS_Subset, Zenon
<1>3. QED  BY <1>2, FS_CardinalityType, Zenon

LEMMA CountsFinite ==
  ASSUME NEW k
  PROVE  /\ IsFiniteSet(HoldersOf(k)) /\ Cardinality(HoldersOf(k)) \in Nat
         /\ IsFiniteSet(StreamsOf(k)) /\ Cardinality(StreamsOf(k)) \in Nat
         /\ IsFiniteSet(StreamsOf(k)') /\ Cardinality(StreamsOf(k)') \in Nat
<1>1. /\ HoldersOf(k) \in SUBSET Request
      /\ StreamsOf(k) \in SUBSET Request
      /\ StreamsOf(k)' \in SUBSET Request
  BY DEF HoldersOf, StreamsOf
<1>2. QED  BY <1>1, SubsetsFinite

\* The bounds of one key, as numbers: what is pending, held and overlooked.
InBounds(p, h, x) == p <= h /\ p >= h - x

LEMMA GainInBounds ==
  ASSUME NEW p \in Nat, NEW h \in Nat, NEW x \in Nat, InBounds(p, h, x)
  PROVE  InBounds(p + 1, h + 1, x)
  BY DEF InBounds

LEMMA LossInBounds ==
  ASSUME NEW p \in Nat, NEW h \in Nat \ {0}, NEW x \in Nat, NEW n \in Nat \ {0}, InBounds(p, h, x)
  PROVE  /\ Greater(p - n, 0) \in Nat /\ Lesser(x + (n - 1), h - 1) \in Nat
         /\ InBounds(Greater(p - n, 0), h - 1, Lesser(x + (n - 1), h - 1))
  BY DEF InBounds, Greater, Lesser

LEMMA BoundsAre ==
  /\ PendingInBounds <=> \A k \in Keys : InBounds(pending[k], Cardinality(HoldersOf(k)), surplus[k])
  /\ PendingInBounds' <=> \A k \in Keys : InBounds(pending'[k], Cardinality(HoldersOf(k)'), surplus'[k])
  BY DEF PendingInBounds, InBounds

LEMMA MovesCount ==
  ASSUME CountInv, MovesKey
  PROVE  /\ pending' \in [Keys -> Nat]
         /\ surplus' \in [Keys -> Nat]
         /\ HasScorer => PendingInBounds'
<1>1. pending \in [Keys -> Nat] /\ surplus \in [Keys -> Nat]
  BY DEF CountInv, LoadType
<1>2. ASSUME NEW r \in Request, NEW k \in Keys, Gains(r, k)
      PROVE  /\ pending' \in [Keys -> Nat]
             /\ surplus' \in [Keys -> Nat]
             /\ HasScorer => PendingInBounds'
  <2>1. \A q \in Request : HeldKey'[q] = IF q = r THEN k ELSE HeldKey[q]
    BY <1>2 DEF Gains, HeldKey
  <2>2. /\ pending' = IF HasScorer THEN [pending EXCEPT ![k] = @ + 1] ELSE pending
        /\ surplus' = surplus
    BY <1>2 DEF Gains, AcquireKey
  <2>3. pending' \in [Keys -> Nat]
    BY <1>1, <2>2
  <2>4. ASSUME HasScorer, NEW j \in Keys
        PROVE  InBounds(pending'[j], Cardinality(HoldersOf(j)'), surplus'[j])
    <3>1. /\ InBounds(pending[j], Cardinality(HoldersOf(j)), surplus[j])
          /\ pending'[j] = IF j = k THEN pending[j] + 1 ELSE pending[j]
          /\ pending[j] \in Nat /\ surplus'[j] = surplus[j] /\ surplus[j] \in Nat
      BY <1>1, <2>2, <2>4, BoundsAre DEF CountInv
    <3>2. CASE j = k
      <4>1. HoldersOf(j)' = HoldersOf(j) \cup {r} /\ r \notin HoldersOf(j)
        BY <1>2, <2>1, <3>2, NoKeyIs DEF HoldersOf, Gains
      <4>2. Cardinality(HoldersOf(j) \cup {r}) = Cardinality(HoldersOf(j)) + 1
        BY <4>1, CountsFinite, FS_AddElement
      <4>3. InBounds(pending[j] + 1, Cardinality(HoldersOf(j)) + 1, surplus[j])
        BY <3>1, CountsFinite, GainInBounds
      <4>4. QED  BY <3>1, <3>2, <4>1, <4>2, <4>3
    <3>3. CASE j # k
      <4>1. HoldersOf(j)' = HoldersOf(j)
        BY <1>2, <2>1, <3>3, NoKeyIs DEF HoldersOf, Gains
      <4>2. QED  BY <3>1, <3>3, <4>1
    <3>4. QED  BY <3>2, <3>3
  <2>5. QED  BY <1>1, <2>2, <2>3, <2>4, BoundsAre
<1>3. ASSUME NEW r \in Request, NEW n \in 1..MaxUsageLines, Loses(r, n)
      PROVE  /\ pending' \in [Keys -> Nat]
             /\ surplus' \in [Keys -> Nat]
             /\ HasScorer => PendingInBounds'
  <2> DEFINE k == HeldKey[r]
             held == Cardinality(HoldersOf(k))
  <2>1. \A q \in Request : HeldKey'[q] = IF q = r THEN NoKey ELSE HeldKey[q]
    BY <1>3 DEF Loses, HeldKey
  <2>2. /\ k \in Keys
        /\ pending' = IF HasScorer THEN [pending EXCEPT ![k] = Greater(@ - n, 0)] ELSE pending
        /\ surplus' = [surplus EXCEPT ![k] = Lesser(@ + (n - 1), held - 1)]
    BY <1>3 DEF Loses
  <2>3. r \in HoldersOf(k)
    BY DEF HoldersOf
  <2>4. \A j \in Keys : HoldersOf(j)' = IF j = k THEN HoldersOf(j) \ {r} ELSE HoldersOf(j)
    BY <2>1, NoKeyIs DEF HoldersOf
  <2>5. held \in Nat \ {0} /\ Cardinality(HoldersOf(k) \ {r}) = held - 1
    BY <2>3, CountsFinite, FS_RemoveElement, FS_EmptySet
  <2>6. n \in Nat \ {0}
    BY ProxyAssumption
  <2> HIDE DEF k, held
  <2>7. /\ Greater(pending[k] - n, 0) \in Nat
        /\ Lesser(surplus[k] + (n - 1), held - 1) \in Nat
    BY <1>1, <2>2, <2>5, <2>6 DEF Greater, Lesser
  <2>8. pending' \in [Keys -> Nat] /\ surplus' \in [Keys -> Nat]
    BY <1>1, <2>2, <2>7
  <2>9. ASSUME HasScorer, NEW j \in Keys
        PROVE  InBounds(pending'[j], Cardinality(HoldersOf(j)'), surplus'[j])
    <3>1. InBounds(pending[j], Cardinality(HoldersOf(j)), surplus[j])
      BY <2>9, BoundsAre DEF CountInv
    <3>2. CASE j = k
      <4>1. InBounds(pending[k], held, surplus[k]) /\ pending[k] \in Nat /\ surplus[k] \in Nat
        BY <1>1, <2>2, <3>1, <3>2 DEF held
      <4>2. InBounds(Greater(pending[k] - n, 0), held - 1, Lesser(surplus[k] + (n - 1), held - 1))
        BY <2>5, <2>6, <4>1, LossInBounds
      <4>3. /\ pending'[j] = Greater(pending[k] - n, 0)
            /\ surplus'[j] = Lesser(surplus[k] + (n - 1), held - 1)
        BY <1>1, <2>2, <2>9, <3>2
      <4>4. Cardinality(HoldersOf(j)') = held - 1
        BY <2>4, <2>5, <3>2
      <4>5. QED  BY <4>2, <4>3, <4>4
    <3>3. CASE j # k
      <4>1. HoldersOf(j)' = HoldersOf(j)
        BY <2>4, <3>3
      <4>2. pending'[j] = pending[j] /\ surplus'[j] = surplus[j]
        BY <1>1, <2>2, <3>3
      <4>3. QED  BY <3>1, <4>1, <4>2
    <3>4. QED  BY <3>2, <3>3
  <2>10. QED  BY <2>8, <2>9, BoundsAre
<1>4. CASE Keeps
  <2>1. \A j \in Keys : HoldersOf(j)' = HoldersOf(j)
    BY <1>4 DEF Keeps, HoldersOf
  <2>2. QED  BY <1>1, <1>4, <2>1 DEF Keeps, CountInv, PendingInBounds
<1>5. QED  BY <1>2, <1>3, <1>4 DEF MovesKey

\* Ending a stream, once or n times, lowers the count of its key only.
LEMMA EndsAre ==
  ASSUME activeStreams \in [Keys -> Nat], NEW k \in Keys,
         \/ activeStreams' = StreamsEnded(k)
         \/ \E n \in 1..MaxUsageLines : activeStreams' = StreamsEndedTimes(k, n)
  PROVE  /\ activeStreams' \in [Keys -> Nat]
         /\ \A j \in Keys : activeStreams'[j] <= activeStreams[j]
         /\ HasScorer /\ activeStreams[k] > 0 => activeStreams'[k] <= activeStreams[k] - 1
<1>1. CASE activeStreams' = StreamsEnded(k)
  BY <1>1 DEF StreamsEnded
<1>2. ASSUME NEW n \in 1..MaxUsageLines, activeStreams' = StreamsEndedTimes(k, n)
      PROVE  /\ activeStreams' \in [Keys -> Nat]
             /\ \A j \in Keys : activeStreams'[j] <= activeStreams[j]
             /\ HasScorer /\ activeStreams[k] > 0 => activeStreams'[k] <= activeStreams[k] - 1
  <2>1. n \in Nat /\ n >= 1
    BY ProxyAssumption
  <2>2. /\ Greater(activeStreams[k] - n, 0) \in Nat
        /\ Greater(activeStreams[k] - n, 0) <= activeStreams[k]
        /\ activeStreams[k] > 0 => Greater(activeStreams[k] - n, 0) <= activeStreams[k] - 1
    BY <2>1 DEF Greater
  <2>3. activeStreams' = [activeStreams EXCEPT ![k] = Greater(activeStreams[k] - n, 0)]
    BY <1>2 DEF StreamsEndedTimes
  <2>4. QED  BY <2>2, <2>3
<1>3. QED  BY <1>1, <1>2

LEMMA StreamsCount ==
  ASSUME CountInv, MovesStream
  PROVE  /\ activeStreams' \in [Keys -> Nat]
         /\ HasScorer => \A j \in Keys : activeStreams'[j] <= Cardinality(StreamsOf(j)')
<1>1. activeStreams \in [Keys -> Nat]
  BY DEF CountInv, LoadType
<1>2. ASSUME HasScorer, NEW j \in Keys PROVE activeStreams[j] <= Cardinality(StreamsOf(j))
  BY <1>2 DEF CountInv
<1>3. ASSUME NEW j, StreamsOf(j) \subseteq StreamsOf(j)'
      PROVE  Cardinality(StreamsOf(j)) <= Cardinality(StreamsOf(j)')
  BY <1>3, CountsFinite, FS_Subset, Zenon
<1>4. ASSUME NEW j, NEW r, StreamsOf(j) \ {r} \subseteq StreamsOf(j)', r \in StreamsOf(j)
      PROVE  Cardinality(StreamsOf(j)) - 1 <= Cardinality(StreamsOf(j)')
  <2>1. Cardinality(StreamsOf(j) \ {r}) = Cardinality(StreamsOf(j)) - 1
    BY <1>4, CountsFinite, FS_RemoveElement
  <2>2. Cardinality(StreamsOf(j) \ {r}) <= Cardinality(StreamsOf(j)')
    BY <1>4, CountsFinite, FS_Subset, Zenon
  <2>3. QED  BY <2>1, <2>2
<1>5. CASE UNCHANGED <<HeldKey, streaming, activeStreams>>
  <2>1. \A j : StreamsOf(j)' = StreamsOf(j)
    BY <1>5 DEF StreamsOf
  <2>2. QED  BY <1>1, <1>2, <1>5, <2>1
<1>6. ASSUME NEW r \in Request,
             \A q \in Request \ {r} : HeldKey'[q] = HeldKey[q] /\ (q \in streaming' <=> q \in streaming),
             StaysOpen(r) \/ Opens(r) \/ Closes(r)
      PROVE  /\ activeStreams' \in [Keys -> Nat]
             /\ HasScorer => \A j \in Keys : activeStreams'[j] <= Cardinality(StreamsOf(j)')
  <2>1. CASE StaysOpen(r)
    <3>1. ASSUME NEW j \in Keys PROVE StreamsOf(j) \subseteq StreamsOf(j)'
      BY <1>6, <2>1 DEF StaysOpen, InStream, StreamsOf
    <3>2. ASSUME HasScorer, NEW j \in Keys PROVE activeStreams'[j] <= Cardinality(StreamsOf(j)')
      <4>1. Cardinality(StreamsOf(j)) <= Cardinality(StreamsOf(j)')
        BY <1>3, <3>1
      <4>2. QED  BY <1>1, <1>2, <2>1, <3>2, <4>1, CountsFinite DEF StaysOpen
    <3>3. QED  BY <1>1, <2>1, <3>2 DEF StaysOpen
  <2>2. CASE Opens(r)
    <3> DEFINE k == HeldKey[r]
    <3>1. /\ k \in Keys
          /\ activeStreams' = IF HasScorer THEN [activeStreams EXCEPT ![k] = @ + 1] ELSE activeStreams
      BY <2>2 DEF Opens, StreamsStarted
    <3>2. ASSUME NEW j \in Keys
          PROVE  /\ StreamsOf(j)' = IF j = k THEN StreamsOf(j) \cup {r} ELSE StreamsOf(j)
                 /\ r \notin StreamsOf(j)
      BY <1>6, <2>2 DEF Opens, StreamsOf
    <3> HIDE DEF k
    <3>3. ASSUME HasScorer, NEW j \in Keys PROVE activeStreams'[j] <= Cardinality(StreamsOf(j)')
      <4>1. Cardinality(StreamsOf(j) \cup {r}) = Cardinality(StreamsOf(j)) + 1
        BY <3>2, CountsFinite, FS_AddElement
      <4>2. activeStreams'[j] = IF j = k THEN activeStreams[j] + 1 ELSE activeStreams[j]
        BY <1>1, <3>1, <3>3
      <4>3. activeStreams[j] <= Cardinality(StreamsOf(j)) /\ activeStreams[j] \in Nat
        BY <1>1, <1>2, <3>3
      <4>4. CASE j = k
        BY <3>2, <4>1, <4>2, <4>3, <4>4, CountsFinite
      <4>5. CASE j # k
        BY <3>2, <4>2, <4>3, <4>5, CountsFinite
      <4>6. QED  BY <4>4, <4>5
    <3>4. QED  BY <1>1, <3>1, <3>3
  <2>3. CASE Closes(r)
    <3> DEFINE k == key[r]
    <3>1. /\ k \in Keys
          /\ \/ activeStreams' = StreamsEnded(k)
             \/ \E n \in 1..MaxUsageLines : activeStreams' = StreamsEndedTimes(k, n)
      BY <2>3 DEF Closes
    <3>2. ASSUME NEW j \in Keys
          PROVE  StreamsOf(j) \ {r} \subseteq StreamsOf(j)' /\ (r \in StreamsOf(j) => j = k)
      BY <1>6, <2>3, NoKeyIs DEF Closes, StreamsOf
    <3> HIDE DEF k
    <3>3. /\ activeStreams' \in [Keys -> Nat]
          /\ \A j \in Keys : activeStreams'[j] <= activeStreams[j]
          /\ HasScorer /\ activeStreams[k] > 0 => activeStreams'[k] <= activeStreams[k] - 1
      BY <1>1, <3>1, EndsAre
    <3>4. ASSUME HasScorer, NEW j \in Keys PROVE activeStreams'[j] <= Cardinality(StreamsOf(j)')
      <4>1. activeStreams[j] <= Cardinality(StreamsOf(j)) /\ activeStreams[j] \in Nat
        BY <1>1, <1>2, <3>4
      <4>2. /\ activeStreams'[j] <= activeStreams[j] /\ activeStreams'[j] \in Nat
            /\ j = k /\ activeStreams[j] > 0 => activeStreams'[j] <= activeStreams[j] - 1
        BY <3>3, <3>4
      <4>3. CASE r \in StreamsOf(j)
        <5>1. Cardinality(StreamsOf(j)) - 1 <= Cardinality(StreamsOf(j)')
          BY <1>4, <3>2, <4>3
        <5>2. QED  BY <3>2, <4>1, <4>2, <4>3, <5>1, CountsFinite
      <4>4. CASE r \notin StreamsOf(j)
        <5>1. Cardinality(StreamsOf(j)) <= Cardinality(StreamsOf(j)')
          BY <1>3, <3>2, <4>4
        <5>2. QED  BY <4>1, <4>2, <5>1, CountsFinite
      <4>5. QED  BY <4>3, <4>4
    <3>5. QED  BY <3>3, <3>4
  <2>4. QED  BY <1>6, <2>1, <2>2, <2>3
<1>7. QED  BY <1>5, <1>6 DEF MovesStream

LEMMA CountNext == ASSUME CountInv, [Next]_vars PROVE CountInv'
<1>1. RequestInv' /\ MovesKey /\ MovesStream
  BY RequestNext, StepsMoveKeys, StepsCloseStreams DEF CountInv
<1>2. QED  BY <1>1, MovesCount, StreamsCount DEF CountInv, LoadType

LEMMA CountInit == ASSUME Init PROVE CountInv
<1>1. RequestInv /\ LoadType
  BY RequestInit DEF Init, ProviderInit, LoadType
<1>2. ASSUME NEW k \in Keys
      PROVE  /\ pending[k] = 0 /\ surplus[k] = 0 /\ Cardinality(HoldersOf(k)) = 0
             /\ activeStreams[k] = 0 /\ Cardinality(StreamsOf(k)) = 0
  <2>1. HoldersOf(k) = {} /\ StreamsOf(k) = {}
    BY NoKeyIs DEF HoldersOf, StreamsOf, HeldKey, Holding, Init
  <2>2. pending[k] = 0 /\ activeStreams[k] = 0 /\ surplus[k] = 0
    BY DEF Init, ProviderInit
  <2>3. QED  BY <2>1, <2>2, FS_EmptySet
<1>3. PendingInBounds
  BY <1>2 DEF PendingInBounds
<1>4. QED  BY <1>1, <1>2, <1>3 DEF CountInv

LEMMA CountedStreams ==
  ASSUME RequestInv, NEW k \in Keys
  PROVE  RunningStreams(k) \cup AbandonedStreams(k) = StreamsOf(k)
<1>1. OpenStreams(k) = StreamsOf(k)
  BY CountedHolders DEF OpenStreams, StreamsOf, HoldersOf
<1>2. \A r \in StreamsOf(k) : phase[r] \in {"sse", "done"}
  BY DEF StreamsOf, RequestInv, Placed
<1>3. QED  BY <1>1, <1>2 DEF RunningStreams, AbandonedStreams

\* Through retries, error bodies, usage chunks and failing streams a key is
\* given back, and by no handler twice: pending never counts more than the
\* unreleased keys, and it misses only as many as events with several usage
\* lines took out, for any number of requests, keys and lines.
THEOREM ProxyPendingBounded == Spec => []PendingBounded
<1>1. Init => CountInv
  BY CountInit
<1>2. CountInv /\ [Next]_vars => CountInv'
  BY CountNext
<1>3. CountInv => PendingBounded
  BY CountedHolders DEF CountInv, PendingInBounds, PendingBounded
<1>4. QED  BY <1>1, <1>2, <1>3, PTL DEF Spec

\* Of the streams that are over only abandoned ones stay counted, although the
\* handlers of one stream may end it more than once: activeStreams never
\* exceeds the streams that still run and those that were abandoned.
THEOREM ProxyOnlyAbandonedOvercount == Spec => []OnlyAbandonedOvercount
<1>1. Init => CountInv
  BY CountInit
<1>2. CountInv /\ [Next]_vars => CountInv'
  BY CountNext
<1>3. CountInv => OnlyAbandonedOvercount
  BY CountedStreams DEF CountInv, OnlyAbandonedOvercount
<1>4. QED  BY <1>1, <1>2, <1>3, PTL DEF Spec

-----------------------------------------------------------------------------
(***************************************************************************)
(* The lease: selectKey compares the two counters with max_concurrent, and *)
(* pending counts the holders but for the overlooked ones.                 *)
(***************************************************************************)
LEMMA ProxyLeaseStep ==
  ASSUME CountInv, [Next]_vars
  PROVE  [Lease!Next]_(Lease!vars)
<1>1. MovesKey
  BY StepsMoveKeys DEF CountInv
<1>2. ASSUME NEW k
      PROVE  /\ Lease!Holders(k) = HoldersOf(k)
             /\ Lease!Cardinality(HoldersOf(k)) = Cardinality(HoldersOf(k))
  <2>1. Lease!Holders(k) = HoldersOf(k)
    BY DEF Lease!Holders, HoldersOf
  <2>2. Lease!Cardinality(HoldersOf(k)) = Cardinality(HoldersOf(k))
    BY Zenon DEF Lease!Cardinality, Lease!IsFiniteSet, Cardinality, IsFiniteSet
  <2>3. QED  BY <2>1, <2>2
<1>3. ASSUME NEW r \in Request, NEW k \in Keys, Gains(r, k)
      PROVE  Lease!Acquire(r, k)
  <2>1. ASSUME MaxConcurrent > 0 PROVE Cardinality(HoldersOf(k)) < MaxConcurrent + surplus[k]
    <3>1. HasScorer
      BY <2>1, ProviderAssumption
    <3>2. pending[k] + activeStreams[k] < MaxConcurrent
      BY <1>3, <2>1, <3>1 DEF Gains, AcquireKey, CanTake, Selectable, InFlight
    <3>3. /\ pending[k] >= Cardinality(HoldersOf(k)) - surplus[k]
          /\ pending[k] \in Nat /\ activeStreams[k] \in Nat /\ surplus[k] \in Nat
      BY <3>1 DEF CountInv, LoadType, PendingInBounds
    <3>4. QED  BY <3>2, <3>3, CountsFinite, ProviderAssumption
  <2>2. QED  BY <1>2, <1>3, <2>1 DEF Gains, Lease!Acquire
<1>4. ASSUME NEW r \in Request, NEW n \in 1..MaxUsageLines, Loses(r, n)
      PROVE  Lease!Release(r, n - 1)
  <2> DEFINE k == HeldKey[r]
             held == Cardinality(HoldersOf(k))
  <2>1. /\ k \in Keys /\ HeldKey' = [HeldKey EXCEPT ![r] = NoKey]
        /\ surplus' = [surplus EXCEPT ![k] = Lesser(@ + (n - 1), held - 1)]
    BY <1>4 DEF Loses
  <2>2. k # NoKey
    BY <2>1, NoKeyIs
  <2>3. Lease!Cardinality(Lease!Holders(k)) = held
    BY <1>2
  <2> HIDE DEF held
  <2>4. QED  BY <2>1, <2>2, <2>3 DEF Lease!Release, Lesser
<1>5. CASE Keeps
  BY <1>5 DEF Keeps, Lease!vars
<1>6. \A n \in 1..MaxUsageLines : n - 1 \in 0..(MaxUsageLines - 1)
  BY ProxyAssumption
<1>7. QED  BY <1>1, <1>3, <1>4, <1>5, <1>6 DEF MovesKey, Lease!Next

\* The handler implements the lease: an attempt gives back its key before the
\* next one takes another, and no key is leased more than max_concurrent times,
\* but for the requests that an event with several usage lines took out.
THEOREM ProxyLease == Spec => LeaseSpec
<1>1. Init => CountInv
  BY CountInit
<1>2. CountInv /\ [Next]_vars => CountInv'
  BY CountNext
<1>3. Init => Lease!Init
  BY DEF Init, Lease!Init, HeldKey, Holding
<1>4. CountInv /\ [Next]_vars => [Lease!Next]_(Lease!vars)
  BY ProxyLeaseStep
<1>5. QED  BY <1>1, <1>2, <1>3, <1>4, PTL DEF Spec, LeaseSpec, Lease!Spec
=============================================================================
