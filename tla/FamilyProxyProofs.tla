-------------------------- MODULE FamilyProxyProofs --------------------------
(***************************************************************************)
(* What holds of a family of any members, keys, requests and policies.     *)
(* What a request waits for decides what it holds (Placed); from that,     *)
(* every step hands one key out, takes one back, or moves none             *)
(* (StepsMoveKeys), and both the bounds of the count and the lease follow. *)
(***************************************************************************)
EXTENDS FamilyProxy, TLAPS, FiniteSetTheorems

MemberType ==
  /\ pending \in [Member -> [Keys -> Nat]]
  /\ streams \in [Member -> [Keys -> Nat]]
  /\ blocked \in [Member -> [Keys -> 0..MaxBlock]]
  /\ down \in [Member -> 0..MaxBlock]
  /\ surplus \in [Handles -> Nat]

RequestType ==
  /\ phase \in [Request -> Phases]
  /\ handle \in [Request -> Handles \cup {NoHandle}]
  /\ released \in [Request -> BOOLEAN]
  /\ attempt \in [Request -> 0..HardMaxRetries]
  /\ budget \in [Request -> 0..HardMaxRetries]
  /\ status \in [Request -> Failures \cup {"ok"}]
  /\ wait \in [Request -> 0..AcquireWait]
  /\ connected \in [Request -> BOOLEAN]
  /\ met \in [Request -> SUBSET (Member \X Failures)]

\* A request has no handle before it takes one and has it until it is over;
\* only a stream that goes on after its usage chunk has released it.
Placed(r) ==
  /\ phase[r] \in {"acquire", "polling"} => handle[r] = NoHandle
  /\ phase[r] \in {"forwarded", "errorBody", "body", "sse"} => handle[r] \in Handles
  /\ released[r] => phase[r] = "sse"
  /\ phase[r] = "errorBody" /\ status[r] = "429" => attempt[r] < budget[r]

\* The budget of a request is within the policy of all it has met.
WithinPolicy(r) == \A f \in met[r] : budget[r] <= MaxRetries[f[1]][f[2]]

RequestInv == RequestType /\ \A r \in Request : Placed(r) /\ WithinPolicy(r)

LEMMA LesserIs ==
  ASSUME NEW a \in Nat, NEW b \in Nat
  PROVE  /\ Lesser(a, b) \in Nat
         /\ Lesser(a, b) <= a /\ Lesser(a, b) <= b
         /\ Greater(a, b) \in Nat
         /\ Greater(a, b) = a \/ Greater(a, b) = b
  BY DEF Lesser, Greater

LEMMA OneLess ==
  ASSUME NEW a \in Nat
  PROVE  Greater(a - 1, 0) \in Nat /\ Greater(a - 1, 0) <= a
  BY DEF Greater

LEMMA NoHandleIs == NoHandle \notin Handles
<1>1. 0 \notin Keys
  BY FamilyAssumption DEF Keys
<1>2. QED  BY <1>1 DEF NoHandle, Handles

LEMMA HandleIs ==
  ASSUME NEW h \in Handles
  PROVE  /\ h.provider \in Member /\ h.key \in Keys
         /\ h = [provider |-> h.provider, key |-> h.key]
  BY DEF Handles

LEMMA HandleOf ==
  ASSUME NEW m \in Member, NEW k \in Keys
  PROVE  /\ [provider |-> m, key |-> k] \in Handles
         /\ [provider |-> m, key |-> k].provider = m
         /\ [provider |-> m, key |-> k].key = k
  BY DEF Handles

-----------------------------------------------------------------------------
(* The requests.                                                           *)

\* A request that is over holds nothing and remembers nothing.
LEMMA FinishKeeps ==
  ASSUME RequestInv, NEW r \in Request, Finish(r)
  PROVE  RequestInv'
<1> USE DEF RequestInv, Finish, GoTo, DropHandle
<1>1. RequestType'
  <2>1. phase' \in [Request -> Phases]
    BY DEF RequestType, Phases
  <2>2. (handle \in [Request -> Handles \cup {NoHandle}])'
    BY DEF RequestType
  <2>3. released' \in [Request -> BOOLEAN] /\ connected' \in [Request -> BOOLEAN]
    BY DEF RequestType
  <2>4. attempt' \in [Request -> 0..HardMaxRetries] /\ budget' \in [Request -> 0..HardMaxRetries]
    BY DEF RequestType, HardMaxRetries
  <2>5. status' \in [Request -> Failures \cup {"ok"}] /\ wait' \in [Request -> 0..AcquireWait]
    BY FamilyAssumption DEF RequestType
  <2>6. met' \in [Request -> SUBSET (Member \X Failures)]
    BY DEF RequestType
  <2>7. QED  BY <2>1, <2>2, <2>3, <2>4, <2>5, <2>6 DEF RequestType
<1>2. ASSUME NEW s \in Request PROVE Placed(s)' /\ WithinPolicy(s)'
  <2>1. CASE s = r
    <3>1. phase'[r] = "done" /\ ~released'[r] /\ met'[r] = {}
      BY DEF RequestType
    <3>2. QED  BY <2>1, <3>1 DEF Placed, WithinPolicy
  <2>2. CASE s # r
    BY <2>2 DEF RequestType, Placed, WithinPolicy
  <2>3. QED  BY <2>1, <2>2
<1>3. QED  BY <1>1, <1>2

\* Meeting a failure lowers the budget to what the member allows for it.
LEMMA MeetsKeeps ==
  ASSUME RequestInv, NEW r \in Request, NEW s \in Failures, handle[r] \in Handles, Meets(r, s)
  PROVE  /\ status' \in [Request -> Failures \cup {"ok"}]
         /\ budget' \in [Request -> 0..HardMaxRetries]
         /\ met' \in [Request -> SUBSET (Member \X Failures)]
         /\ \A q \in Request : WithinPolicy(q)'
         /\ status'[r] = s /\ budget'[r] = LowerBudget(r, s)
         /\ \A q \in Request : q # r => status'[q] = status[q] /\ budget'[q] = budget[q]
<1> DEFINE p == handle[r].provider
<1>1. p \in Member /\ MaxRetries[p][s] \in Nat
  BY HandleIs, FamilyAssumption
<1>2. budget[r] \in 0..HardMaxRetries
  BY DEF RequestInv, RequestType
<1>3. /\ LowerBudget(r, s) \in 0..HardMaxRetries
      /\ LowerBudget(r, s) <= budget[r] /\ LowerBudget(r, s) <= MaxRetries[p][s]
  BY <1>1, <1>2 DEF LowerBudget, Lesser, HardMaxRetries
<1> HIDE DEF p
<1>4. /\ status' = [status EXCEPT ![r] = s]
      /\ budget' = [budget EXCEPT ![r] = LowerBudget(r, s)]
      /\ met' = [met EXCEPT ![r] = @ \cup {<<p, s>>}]
  BY DEF Meets, p
<1>5. /\ status' \in [Request -> Failures \cup {"ok"}]
      /\ budget' \in [Request -> 0..HardMaxRetries]
  BY <1>3, <1>4 DEF RequestInv, RequestType
<1>6. met' \in [Request -> SUBSET (Member \X Failures)]
  BY <1>1, <1>4 DEF RequestInv, RequestType
<1>7. ASSUME NEW q \in Request PROVE WithinPolicy(q)'
  <2>1. CASE q = r
    <3>1. met'[q] = met[q] \cup {<<p, s>>} /\ budget'[q] = LowerBudget(r, s)
      BY <1>4, <2>1 DEF RequestInv, RequestType
    <3>2. ASSUME NEW f \in met[q] PROVE LowerBudget(r, s) <= MaxRetries[f[1]][f[2]]
      <4>1. f \in Member \X Failures
        BY DEF RequestInv, RequestType
      <4>2. MaxRetries[f[1]][f[2]] \in Nat /\ budget[q] <= MaxRetries[f[1]][f[2]]
        BY <4>1, FamilyAssumption DEF RequestInv, WithinPolicy
      <4>3. QED  BY <1>2, <1>3, <2>1, <4>2
    <3>3. QED  BY <1>3, <3>1, <3>2 DEF WithinPolicy
  <2>2. CASE q # r
    BY <1>4, <2>2 DEF RequestInv, RequestType, WithinPolicy
  <2>3. QED  BY <2>1, <2>2
<1>8. QED  BY <1>4, <1>5, <1>6, <1>7 DEF RequestInv, RequestType

\* A step of r that leaves its policy alone keeps the rest of the invariant
\* when it leaves r where its handle belongs.
LEMMA OthersStay ==
  ASSUME RequestInv, NEW r \in Request, RequestType', Placed(r)', WithinPolicy(r)',
         \A q \in Request \ {r} :
           /\ phase'[q] = phase[q] /\ handle'[q] = handle[q] /\ released'[q] = released[q]
           /\ attempt'[q] = attempt[q] /\ budget'[q] = budget[q]
           /\ status'[q] = status[q] /\ met'[q] = met[q]
  PROVE  RequestInv'
<1>1. ASSUME NEW q \in Request \ {r} PROVE Placed(q)' /\ WithinPolicy(q)'
  BY DEF RequestInv, Placed, WithinPolicy
<1>2. QED  BY <1>1 DEF RequestInv

LEMMA NextAttemptKeeps ==
  ASSUME RequestType, NEW r \in Request, attempt[r] < HardMaxRetries, NextAttempt(r)
  PROVE  /\ phase' \in [Request -> Phases]
         /\ (handle \in [Request -> Handles \cup {NoHandle}])'
         /\ released' \in [Request -> BOOLEAN]
         /\ attempt' \in [Request -> 0..HardMaxRetries]
         /\ phase'[r] = "acquire" /\ handle'[r] = NoHandle /\ ~released'[r]
         /\ \A q \in Request \ {r} : /\ phase'[q] = phase[q] /\ handle'[q] = handle[q]
                                     /\ released'[q] = released[q] /\ attempt'[q] = attempt[q]
<1> USE DEF NextAttempt, GoTo, DropHandle, RequestType
<1>1. phase' \in [Request -> Phases]
  BY DEF Phases
<1>2. attempt' \in [Request -> 0..HardMaxRetries]
  BY DEF HardMaxRetries
<1>3. (handle \in [Request -> Handles \cup {NoHandle}])' /\ released' \in [Request -> BOOLEAN]
  OBVIOUS
<1>4. phase'[r] = "acquire" /\ handle'[r] = NoHandle /\ ~released'[r]
  OBVIOUS
<1>5. QED  BY <1>1, <1>2, <1>3, <1>4

LEMMA TakeKeeps ==
  ASSUME RequestInv, NEW r \in Request, NEW m \in Member, NEW k \in Keys, Take(r, m, k)
  PROVE  RequestInv'
<1>1. CASE TakeAndForward(r, m, k)
  <2> USE <1>1 DEF TakeAndForward, GoTo
  <2>1. [provider |-> m, key |-> k] \in Handles
    BY HandleOf
  <2>2. (handle \in [Request -> Handles \cup {NoHandle}])' /\ handle'[r] \in Handles
    BY <2>1 DEF RequestInv, RequestType
  <2>3. phase' \in [Request -> Phases] /\ phase'[r] = "forwarded"
    BY DEF RequestInv, RequestType, Phases
  <2>4. wait' \in [Request -> 0..AcquireWait]
    BY FamilyAssumption DEF RequestInv, RequestType
  <2>5. RequestType'
    BY <2>2, <2>3, <2>4 DEF RequestInv, RequestType
  <2>6. ~released'[r]
    BY DEF Take, RequestInv, Placed
  <2>7. Placed(r)' /\ WithinPolicy(r)'
    BY <2>2, <2>3, <2>6 DEF RequestInv, Placed, WithinPolicy
  <2>8. QED  BY <2>5, <2>7, OthersStay DEF RequestInv, RequestType
<1>2. CASE TakeAndReject(r, m, k)
  BY <1>2, FinishKeeps DEF TakeAndReject
<1>3. QED  BY <1>1, <1>2 DEF Take

LEMMA NoneLeftKeeps ==
  ASSUME RequestInv, NEW r \in Request, NoneLeft(r)
  PROVE  RequestInv'
<1>1. CASE Finish(r)
  BY <1>1, FinishKeeps
<1>2. CASE ~Finish(r)
  <2> USE DEF NoneLeft, GoTo
  <2>1. phase' \in [Request -> Phases] /\ phase'[r] = "polling"
    BY <1>2 DEF RequestInv, RequestType, Phases
  <2>2. wait' \in [Request -> 0..AcquireWait]
    BY <1>2, FamilyAssumption DEF RequestInv, RequestType
  <2>3. RequestType'
    BY <1>2, <2>1, <2>2 DEF RequestInv, RequestType
  <2>4. Placed(r)' /\ WithinPolicy(r)'
    BY <1>2, <2>1 DEF RequestInv, Placed, WithinPolicy
  <2>5. QED  BY <1>2, <2>3, <2>4, OthersStay DEF RequestInv, RequestType
<1>3. QED  BY <1>1, <1>2

LEMMA RetryKeeps ==
  ASSUME RequestInv, NEW r \in Request, NEW s \in Failures, Retry(r, s)
  PROVE  /\ RequestInv'
         /\ attempt'[r] <= budget'[r]
<1> USE DEF Retry
<1>1. handle[r] \in Handles
  BY DEF RequestInv, Placed
<1>2. /\ status' \in [Request -> Failures \cup {"ok"}]
      /\ budget' \in [Request -> 0..HardMaxRetries]
      /\ met' \in [Request -> SUBSET (Member \X Failures)]
      /\ \A q \in Request : WithinPolicy(q)'
      /\ budget'[r] = LowerBudget(r, s)
      /\ \A q \in Request : q # r => status'[q] = status[q] /\ budget'[q] = budget[q]
  BY <1>1, MeetsKeeps
<1>3. attempt[r] \in 0..HardMaxRetries /\ attempt[r] < budget'[r] /\ budget'[r] \in 0..HardMaxRetries
  BY <1>2 DEF WillRetry, RequestInv, RequestType
<1>4. attempt[r] < HardMaxRetries /\ RequestType
  BY <1>3 DEF HardMaxRetries, RequestInv
<1>5. /\ phase' \in [Request -> Phases]
      /\ (handle \in [Request -> Handles \cup {NoHandle}])'
      /\ released' \in [Request -> BOOLEAN]
      /\ attempt' \in [Request -> 0..HardMaxRetries]
      /\ phase'[r] = "acquire" /\ handle'[r] = NoHandle /\ ~released'[r]
      /\ \A q \in Request \ {r} : /\ phase'[q] = phase[q] /\ handle'[q] = handle[q]
                                  /\ released'[q] = released[q] /\ attempt'[q] = attempt[q]
  BY <1>4, NextAttemptKeeps
<1>6. RequestType'
  BY <1>2, <1>4, <1>5 DEF RequestType
<1>7. Placed(r)'
  BY <1>5 DEF Placed
<1>8. \A q \in Request \ {r} : met'[q] = met[q]
  BY DEF Meets, RequestInv, RequestType
<1>9. attempt'[r] = attempt[r] + 1
  BY DEF NextAttempt, RequestInv, RequestType
<1>10. RequestInv'
  BY <1>2, <1>5, <1>6, <1>7, <1>8, OthersStay
<1>11. QED  BY <1>3, <1>9, <1>10 DEF HardMaxRetries

LEMMA AwaitErrorBodyKeeps ==
  ASSUME RequestInv, NEW r \in Request, NEW s \in Failures, AwaitErrorBody(r, s)
  PROVE  RequestInv'
<1> USE DEF AwaitErrorBody, GoTo
<1>1. handle[r] \in Handles
  BY DEF RequestInv, Placed
<1>2. /\ status' \in [Request -> Failures \cup {"ok"}]
      /\ budget' \in [Request -> 0..HardMaxRetries]
      /\ met' \in [Request -> SUBSET (Member \X Failures)]
      /\ \A q \in Request : WithinPolicy(q)'
      /\ status'[r] = s /\ budget'[r] = LowerBudget(r, s)
      /\ \A q \in Request : q # r => status'[q] = status[q] /\ budget'[q] = budget[q]
  BY <1>1, MeetsKeeps
<1>3. phase' \in [Request -> Phases] /\ phase'[r] = "errorBody"
  BY DEF RequestInv, RequestType, Phases
<1>4. RequestType'
  BY <1>2, <1>3 DEF RequestInv, RequestType
<1>5. status'[r] = "429" => attempt'[r] < budget'[r]
  BY <1>2 DEF WillRetry
<1>6. ~released'[r]
  BY DEF RequestInv, Placed
<1>7. Placed(r)'
  BY <1>1, <1>3, <1>5, <1>6 DEF Placed
<1>8. \A q \in Request \ {r} : met'[q] = met[q] /\ phase'[q] = phase[q]
  BY DEF Meets, RequestInv, RequestType
<1>9. QED  BY <1>2, <1>4, <1>7, <1>8, OthersStay

LEMMA AnswerKeeps ==
  ASSUME RequestInv, NEW r \in Request, NEW s \in Failures \cup {"ok"},
         Answer(r, s) \/ AnswerSSE(r, s)
  PROVE  RequestInv'
<1> USE DEF Answer, AnswerSSE, FinalAnswer, GoTo
<1>1. handle[r] \in Handles
  BY DEF RequestInv, Placed
<1>2. /\ status' \in [Request -> Failures \cup {"ok"}]
      /\ budget' \in [Request -> 0..HardMaxRetries]
      /\ met' \in [Request -> SUBSET (Member \X Failures)]
      /\ \A q \in Request : WithinPolicy(q)'
      /\ \A q \in Request : q # r => status'[q] = status[q] /\ budget'[q] = budget[q]
  <2>1. CASE s = "ok"
    BY <2>1 DEF RequestInv, RequestType, WithinPolicy
  <2>2. CASE s # "ok"
    BY <1>1, <2>2, MeetsKeeps
  <2>3. QED  BY <2>1, <2>2
<1>3. phase' \in [Request -> Phases] /\ phase'[r] \in {"body", "sse"}
  BY DEF RequestInv, RequestType, Phases
<1>4. RequestType'
  BY <1>2, <1>3 DEF RequestInv, RequestType
<1>5. ~released'[r]
  BY DEF RequestInv, Placed
<1>6. Placed(r)'
  BY <1>1, <1>3, <1>5 DEF Placed
<1>7. \A q \in Request \ {r} : met'[q] = met[q] /\ phase'[q] = phase[q]
  BY DEF Meets, RequestInv, RequestType
<1>8. QED  BY <1>2, <1>4, <1>6, <1>7, OthersStay

LEMMA ErrorBodyReadKeeps ==
  ASSUME RequestInv, NEW r \in Request, ErrorBodyRead(r)
  PROVE  /\ RequestInv'
         /\ attempt'[r] > attempt[r] => attempt'[r] <= budget'[r]
<1>1. CASE status[r] # "429"
  <2>1. Finish(r)
    BY <1>1 DEF ErrorBodyRead
  <2>2. attempt'[r] = 0 /\ attempt[r] \in Nat
    BY <2>1 DEF Finish, RequestInv, RequestType
  <2>3. QED  BY <2>1, <2>2, FinishKeeps
<1>2. CASE status[r] = "429"
  <2> USE <1>2 DEF ErrorBodyRead
  <2>1. attempt[r] \in 0..HardMaxRetries /\ attempt[r] < budget[r] /\ budget[r] \in 0..HardMaxRetries
    BY DEF RequestInv, RequestType, Placed
  <2>2. attempt[r] < HardMaxRetries /\ RequestType
    BY <2>1 DEF HardMaxRetries, RequestInv
  <2>3. /\ phase' \in [Request -> Phases]
        /\ (handle \in [Request -> Handles \cup {NoHandle}])'
        /\ released' \in [Request -> BOOLEAN]
        /\ attempt' \in [Request -> 0..HardMaxRetries]
        /\ phase'[r] = "acquire" /\ handle'[r] = NoHandle /\ ~released'[r]
        /\ \A q \in Request \ {r} : /\ phase'[q] = phase[q] /\ handle'[q] = handle[q]
                                    /\ released'[q] = released[q] /\ attempt'[q] = attempt[q]
    BY <2>2, NextAttemptKeeps
  <2>4. RequestType'
    BY <2>2, <2>3 DEF RequestType
  <2>5. Placed(r)' /\ WithinPolicy(r)'
    BY <2>3 DEF Placed, RequestInv, WithinPolicy
  <2>6. RequestInv'
    BY <2>3, <2>4, <2>5, OthersStay
  <2>7. attempt'[r] = attempt[r] + 1 /\ budget' = budget
    BY DEF NextAttempt, RequestInv, RequestType
  <2>8. QED  BY <2>1, <2>6, <2>7 DEF HardMaxRetries
<1>3. QED  BY <1>1, <1>2

LEMMA StreamStepsKeep ==
  ASSUME RequestInv, NEW r \in Request, (\E n \in 1..MaxUsageLines : UsageChunk(r, n)) \/ Gone(r)
  PROVE  RequestInv'
<1>2. CASE \E n \in 1..MaxUsageLines : UsageChunk(r, n)
  <2> USE <1>2 DEF UsageChunk
  <2>1. released' \in [Request -> BOOLEAN]
    BY DEF RequestInv, RequestType
  <2>2. RequestType' /\ Placed(r)' /\ WithinPolicy(r)'
    BY <2>1 DEF RequestInv, RequestType, Placed, WithinPolicy
  <2>3. QED  BY <2>2, OthersStay DEF RequestInv, RequestType
<1>3. CASE Gone(r) /\ ~Finish(r)
  <2> USE <1>3 DEF Gone, GoTo
  <2>1. /\ phase' \in [Request -> Phases]
        /\ phase'[r] = IF phase[r] \in {"body", "sse"} THEN "done" ELSE phase[r]
    BY DEF RequestInv, RequestType, Phases
  <2>2. connected' \in [Request -> BOOLEAN]
    BY DEF RequestInv, RequestType
  <2>3. released[r] => phase[r] \notin {"body", "sse"}
    OBVIOUS
  <2>4. RequestType' /\ Placed(r)' /\ WithinPolicy(r)'
    BY <2>1, <2>2, <2>3 DEF RequestInv, RequestType, Placed, WithinPolicy
  <2>5. QED  BY <2>4, OthersStay DEF RequestInv, RequestType
<1>4. QED  BY <1>2, <1>3, FinishKeeps

\* An attempt is only ever counted up to the budget it is made within.
CountedWithinBudget == \A r \in Request : attempt'[r] > attempt[r] => attempt'[r] <= budget'[r]

LEMMA FinishCounts ==
  ASSUME RequestInv, NEW r \in Request, Finish(r)
  PROVE  CountedWithinBudget
<1>1. \A q \in Request : attempt'[q] = IF q = r THEN 0 ELSE attempt[q]
  BY DEF Finish, RequestInv, RequestType
<1>2. \A q \in Request : attempt[q] \in Nat
  BY DEF RequestInv, RequestType
<1>3. QED  BY <1>1, <1>2 DEF CountedWithinBudget

LEMMA TickKeeps == ASSUME RequestInv, Tick PROVE RequestInv'
<1>1. wait' \in [Request -> 0..AcquireWait]
  <2>1. \A n \in 0..AcquireWait : Greater(n - 1, 0) \in 0..AcquireWait
    BY FamilyAssumption DEF Greater
  <2>2. QED  BY <2>1 DEF Tick, RequestInv, RequestType
<1>2. RequestType'
  BY <1>1 DEF Tick, RequestInv, RequestType
<1>3. \A r \in Request : Placed(r)' /\ WithinPolicy(r)'
  BY DEF Tick, RequestInv, Placed, WithinPolicy
<1>4. QED  BY <1>2, <1>3 DEF RequestInv

LEMMA RequestNext ==
  ASSUME RequestInv, [Next]_vars
  PROVE  RequestInv' /\ CountedWithinBudget
<1>1. \A q \in Request : attempt[q] \in Nat
  BY DEF RequestInv, RequestType
<1>2. ASSUME attempt' = attempt PROVE CountedWithinBudget
  BY <1>1, <1>2 DEF CountedWithinBudget
<1>3. ASSUME NEW r \in Request, NoneLeft(r)
      PROVE  RequestInv' /\ CountedWithinBudget
  BY <1>2, <1>3, NoneLeftKeeps, FinishCounts DEF NoneLeft
<1>4. ASSUME NEW r \in Request, NEW m \in Member, NEW k \in Keys, Take(r, m, k)
      PROVE  RequestInv' /\ CountedWithinBudget
  BY <1>2, <1>4, TakeKeeps, FinishCounts DEF Take, TakeAndForward, TakeAndReject
<1>5. ASSUME NEW r \in Request, NEW s \in Failures, Retry(r, s)
      PROVE  RequestInv' /\ CountedWithinBudget
  <2>1. RequestInv' /\ attempt'[r] <= budget'[r]
    BY <1>5, RetryKeeps
  <2>2. \A q \in Request \ {r} : attempt'[q] = attempt[q]
    BY <1>5 DEF Retry, NextAttempt, RequestInv, RequestType
  <2>3. QED  BY <1>1, <2>1, <2>2 DEF CountedWithinBudget
<1>6. ASSUME NEW r \in Request, NEW s \in Failures, AwaitErrorBody(r, s)
      PROVE  RequestInv' /\ CountedWithinBudget
  BY <1>2, <1>6, AwaitErrorBodyKeeps DEF AwaitErrorBody
<1>7. ASSUME NEW r \in Request, NEW s \in Failures \cup {"ok"}, Answer(r, s) \/ AnswerSSE(r, s)
      PROVE  RequestInv' /\ CountedWithinBudget
  BY <1>2, <1>7, AnswerKeeps DEF Answer, AnswerSSE, FinalAnswer
<1>8. ASSUME NEW r \in Request, ErrorBodyRead(r)
      PROVE  RequestInv' /\ CountedWithinBudget
  <2>1. RequestInv' /\ (attempt'[r] > attempt[r] => attempt'[r] <= budget'[r])
    BY <1>8, ErrorBodyReadKeeps
  <2>2. \A q \in Request \ {r} : attempt'[q] = attempt[q]
    <3>1. attempt' = [attempt EXCEPT ![r] = 0] \/ attempt' = [attempt EXCEPT ![r] = @ + 1]
      BY <1>8 DEF ErrorBodyRead, Finish, NextAttempt
    <3>2. QED  BY <3>1 DEF RequestInv, RequestType
  <2>3. QED  BY <1>1, <2>1, <2>2 DEF CountedWithinBudget
<1>9. ASSUME NEW r \in Request, GiveUp(r) \/ BodyOver(r) \/ SSEEnd(r) \/ SSEError(r)
      PROVE  RequestInv' /\ CountedWithinBudget
  <2>1. Finish(r)
    BY <1>9 DEF GiveUp, BodyOver, SSEEnd, SSEError
  <2>2. QED  BY <2>1, FinishKeeps, FinishCounts
<1>10. ASSUME NEW r \in Request, (\E n \in 1..MaxUsageLines : UsageChunk(r, n)) \/ Gone(r)
       PROVE  RequestInv' /\ CountedWithinBudget
  BY <1>2, <1>10, StreamStepsKeep, FinishCounts DEF UsageChunk, Gone
<1>11. CASE Tick
  BY <1>2, <1>11, TickKeeps DEF Tick
<1>12. CASE UNCHANGED vars
  <2>1. RequestInv'
    BY <1>12 DEF vars, reqVars, RequestInv, RequestType, Placed, WithinPolicy
  <2>2. QED  BY <1>2, <1>12, <2>1 DEF vars, reqVars
<1>13. QED
  BY <1>3, <1>4, <1>5, <1>6, <1>7, <1>8, <1>9, <1>10, <1>11, <1>12
  DEF Next, Acquiring, Answered, Over

LEMMA RequestInit == ASSUME Init PROVE RequestInv
<1> USE DEF Init
<1>1. RequestType
  BY FamilyAssumption DEF RequestType, Phases, HardMaxRetries
<1>2. \A r \in Request : Placed(r) /\ WithinPolicy(r)
  BY DEF Placed, WithinPolicy
<1>3. QED  BY <1>1, <1>2 DEF RequestInv

LEMMA RetryPolicyStep ==
  ASSUME RequestInv, [Next]_vars, NEW r \in Request, attempt'[r] > attempt[r], NEW f \in met'[r]
  PROVE  attempt'[r] <= MaxRetries[f[1]][f[2]]
<1>1. RequestInv' /\ attempt'[r] <= budget'[r]
  BY RequestNext DEF CountedWithinBudget
<1>2. f \in Member \X Failures
  BY <1>1 DEF RequestInv, RequestType
<1>3. MaxRetries[f[1]][f[2]] \in Nat /\ budget'[r] <= MaxRetries[f[1]][f[2]]
  BY <1>1, <1>2, FamilyAssumption DEF RequestInv, WithinPolicy
<1>4. attempt'[r] \in 0..HardMaxRetries /\ budget'[r] \in 0..HardMaxRetries
  BY <1>1 DEF RequestInv, RequestType
<1>5. QED  BY <1>1, <1>3, <1>4 DEF HardMaxRetries

\* The strictest policy a request has met bounds its attempts, whatever the
\* members, their policies and the order in which they failed it.
THEOREM FamilyRetryPolicy == Spec => RetryPolicy
<1>1. Init => RequestInv
  BY RequestInit
<1>2. RequestInv /\ [Next]_vars => RequestInv'
  BY RequestNext
<1>3. RequestInv /\ [Next]_vars =>
        [\A r \in Request : attempt'[r] > attempt[r] =>
           \A f \in met'[r] : attempt'[r] <= MaxRetries[f[1]][f[2]]]_vars
  BY RetryPolicyStep
<1>4. QED  BY <1>1, <1>2, <1>3, PTL DEF Spec, RetryPolicy

-----------------------------------------------------------------------------
(***************************************************************************)
(* The keys.  A step hands h to r, takes back what r holds, or leaves all  *)
(* with what they have; Held is what the lease sees of it.                 *)
(***************************************************************************)
HoldersOf(h) == {r \in Request : Held[r] = h}

Gains(r, h) ==
  /\ Held[r] = NoHandle /\ CanTake(h.provider, h.key)
  /\ Held' = [Held EXCEPT ![r] = h]
  /\ pending' = [pending EXCEPT ![h.provider][h.key] = @ + 1]
  /\ surplus' = surplus

\* The handle of r is released n times; all but the first are too many.
Loses(r, n) ==
  LET h == Held[r]
  IN  /\ h \in Handles
      /\ Held' = [Held EXCEPT ![r] = NoHandle]
      /\ pending' = [pending EXCEPT ![h.provider][h.key] = Greater(@ - n, 0)]
      /\ surplus' = [surplus EXCEPT ![h] = Lesser(@ + (n - 1), Cardinality(HoldersOf(h)) - 1)]

Keeps == UNCHANGED <<Held, pending, surplus>>

MovesKey ==
  \/ \E r \in Request, h \in Handles : Gains(r, h)
  \/ \E r \in Request, n \in 1..MaxUsageLines : Loses(r, n)
  \/ Keeps

LEMMA CountedHolders ==
  ASSUME NEW h \in Handles
  PROVE  Holders(h) = HoldersOf(h)
  BY NoHandleIs DEF Holders, Holds, HoldersOf, Held, Holding

LEMMA HeldIs ==
  ASSUME RequestType, NEW r \in Request
  PROVE  /\ Held[r] = IF released[r] THEN NoHandle ELSE handle[r]
         /\ Held[r] \in Handles \cup {NoHandle}
  BY DEF Held, Holding, RequestType

LEMMA HeldAfter ==
  ASSUME RequestType, NEW r \in Request, NEW h \in Handles \cup {NoHandle}, NEW b \in BOOLEAN,
         handle' = [handle EXCEPT ![r] = h], released' = [released EXCEPT ![r] = b]
  PROVE  Held' = [Held EXCEPT ![r] = IF b THEN NoHandle ELSE h]
<1>1. ASSUME NEW q \in Request
      PROVE  Held'[q] = IF q = r THEN IF b THEN NoHandle ELSE h ELSE Held[q]
  BY DEF Held, Holding, RequestType
<1>2. QED  BY <1>1 DEF Held

\* What is dropped was held, unless it was released before.
LEMMA DroppedKey ==
  ASSUME RequestInv, NEW r \in Request, handle[r] \in Handles, DropHandle(r),
         NEW ok, ReleaseOnce(r, ok)
  PROVE  Loses(r, 1) \/ Keeps
<1>1. Held' = [Held EXCEPT ![r] = NoHandle]
  BY HeldAfter DEF RequestInv, DropHandle
<1>2. CASE released[r]
  <2>1. Held[r] = NoHandle
    BY <1>2, HeldIs DEF RequestInv
  <2>2. Held' = Held
    BY <1>1, <2>1 DEF Held
  <2>3. QED  BY <1>2, <2>2 DEF ReleaseOnce, Keeps
<1>3. CASE ~released[r]
  <2>1. Held[r] = handle[r]
    BY <1>3, HeldIs DEF RequestInv
  <2>2. /\ pending' = PendingLess(handle[r], 1)
        /\ GivesBack(r, 0)
    BY <1>3 DEF ReleaseOnce, Release
  <2>3. surplus' = [surplus EXCEPT ![handle[r]] =
                      Lesser(@ + (1 - 1), Cardinality(HoldersOf(handle[r])) - 1)]
    <3>1. Holders(handle[r]) = HoldersOf(handle[r]) /\ 1 - 1 = 0
      BY CountedHolders
    <3>2. QED  BY <2>2, <3>1 DEF GivesBack
  <2>4. QED  BY <1>1, <2>1, <2>2, <2>3 DEF PendingLess, SettleWith, Loses
<1>4. QED  BY <1>2, <1>3

LEMMA StepsMoveKeys ==
  ASSUME RequestInv, [Next]_vars
  PROVE  MovesKey
<1>1. ASSUME NEW r \in Request, handle[r] \in Handles, DropHandle(r),
             \E ok \in BOOLEAN : ReleaseOnce(r, ok)
      PROVE  MovesKey
  <2>1. Loses(r, 1) \/ Keeps
    BY <1>1, DroppedKey
  <2>2. 1 \in 1..MaxUsageLines
    BY FamilyAssumption
  <2>3. QED  BY <2>1, <2>2 DEF MovesKey
<1>2. ASSUME NEW r \in Request, handle[r] = NoHandle \/ released[r], DropHandle(r),
             UNCHANGED <<pending, surplus>>
      PROVE  MovesKey
  <2>1. Held' = [Held EXCEPT ![r] = NoHandle]
    BY <1>2, HeldAfter DEF RequestInv, DropHandle
  <2>2. Held[r] = NoHandle
    BY <1>2, HeldIs DEF RequestInv
  <2>3. Held' = Held
    BY <2>1, <2>2 DEF Held
  <2>4. QED  BY <1>2, <2>3 DEF MovesKey, Keeps
<1>3. ASSUME UNCHANGED <<handle, released, pending, surplus>>
      PROVE  MovesKey
  BY <1>3 DEF MovesKey, Keeps, Held, Holding
<1>4. ASSUME NEW r \in Request, NoneLeft(r)
      PROVE  MovesKey
  <2>1. handle[r] = NoHandle
    BY <1>4 DEF NoneLeft, RequestInv, Placed
  <2>2. QED  BY <1>2, <1>3, <1>4, <2>1 DEF NoneLeft, Finish, memberVars
<1>5. ASSUME NEW r \in Request, NEW m \in Member, NEW k \in Keys, Take(r, m, k)
      PROVE  MovesKey
  <2>1. handle[r] = NoHandle /\ ~released[r]
    BY <1>5 DEF Take, RequestInv, Placed
  <2>2. CASE TakeAndReject(r, m, k)
    BY <1>2, <1>5, <2>1, <2>2 DEF Take, TakeAndReject, Finish
  <2>3. CASE TakeAndForward(r, m, k)
    <3> DEFINE h == [provider |-> m, key |-> k]
    <3>1. h \in Handles /\ h.provider = m /\ h.key = k
      BY HandleOf
    <3>2. handle' = [handle EXCEPT ![r] = h] /\ released' = [released EXCEPT ![r] = FALSE]
      BY <2>1, <2>3 DEF TakeAndForward, RequestInv, RequestType
    <3> HIDE DEF h
    <3>3. Held' = [Held EXCEPT ![r] = h]
      BY <3>1, <3>2, HeldAfter DEF RequestInv
    <3>4. Held[r] = NoHandle
      BY <2>1, HeldIs DEF RequestInv
    <3>5. pending' = [pending EXCEPT ![h.provider][h.key] = @ + 1] /\ CanTake(h.provider, h.key)
      BY <1>5, <2>3, <3>1 DEF Take, TakeAndForward
    <3>6. surplus' = surplus
      BY <1>5 DEF Take
    <3>7. QED  BY <3>1, <3>3, <3>4, <3>5, <3>6 DEF MovesKey, Gains
  <2>4. QED  BY <1>5, <2>2, <2>3 DEF Take
<1>6. ASSUME NEW r \in Request,
             \/ \E s \in Failures : Retry(r, s)
             \/ GiveUp(r) \/ ErrorBodyRead(r) \/ BodyOver(r) \/ SSEEnd(r) \/ SSEError(r)
      PROVE  MovesKey
  <2>1. handle[r] \in Handles
    BY <1>6 DEF RequestInv, Placed, Retry, GiveUp, ErrorBodyRead, BodyOver, SSEEnd, SSEError
  <2>2. DropHandle(r)
    BY <1>6 DEF Retry, GiveUp, ErrorBodyRead, BodyOver, SSEEnd, SSEError, NextAttempt, Finish
  <2>3. \E ok \in BOOLEAN : ReleaseOnce(r, ok)
    BY <1>6 DEF Retry, GiveUp, ErrorBodyRead, BodyOver, SSEEnd, SSEError
  <2>4. QED  BY <1>1, <2>1, <2>2, <2>3
<1>7. ASSUME NEW r \in Request,
             \/ \E s \in Failures : AwaitErrorBody(r, s)
             \/ \E s \in Failures \cup {"ok"} : Answer(r, s) \/ AnswerSSE(r, s)
      PROVE  MovesKey
  BY <1>3, <1>7 DEF AwaitErrorBody, Answer, AnswerSSE, FinalAnswer, memberVars
<1>8. ASSUME NEW r \in Request, NEW n \in 1..MaxUsageLines, UsageChunk(r, n)
      PROVE  MovesKey
  <2>1. handle[r] \in Handles /\ ~released[r]
    BY <1>8 DEF UsageChunk, RequestInv, Placed
  <2>2. handle' = [handle EXCEPT ![r] = handle[r]] /\ released' = [released EXCEPT ![r] = TRUE]
    BY <1>8 DEF UsageChunk, RequestInv, RequestType
  <2>3. Held' = [Held EXCEPT ![r] = NoHandle]
    BY <2>1, <2>2, HeldAfter DEF RequestInv
  <2>4. Held[r] = handle[r]
    BY <2>1, HeldIs DEF RequestInv
  <2>5. pending' = PendingLess(handle[r], n) /\ GivesBack(r, n - 1)
    BY <1>8 DEF UsageChunk
  <2>6. surplus' = [surplus EXCEPT ![handle[r]] =
                      Lesser(@ + (n - 1), Cardinality(HoldersOf(handle[r])) - 1)]
    BY <2>1, <2>5, CountedHolders DEF GivesBack
  <2>7. Loses(r, n)
    BY <2>1, <2>3, <2>4, <2>5, <2>6 DEF PendingLess, SettleWith, Loses
  <2>8. QED  BY <2>7 DEF MovesKey
<1>9. ASSUME NEW r \in Request, Gone(r)
      PROVE  MovesKey
  BY <1>2, <1>3, <1>9 DEF Gone, Finish, memberVars
<1>10. CASE Tick
  BY <1>3, <1>10 DEF Tick
<1>11. CASE UNCHANGED vars
  BY <1>3, <1>11 DEF vars, memberVars, reqVars
<1>12. QED
  BY <1>4, <1>5, <1>6, <1>7, <1>8, <1>9, <1>10, <1>11 DEF Next, Acquiring, Answered, Over

-----------------------------------------------------------------------------
(***************************************************************************)
(* Counting.  A request streams at most once, so that the streams of a key *)
(* are no more than the requests that have come to stream.                 *)
(***************************************************************************)
Streamed == {r \in Request : phase[r] \in {"sse", "done"}}

PendingInBounds ==
  \A h \in Handles : /\ pending[h.provider][h.key] <= Cardinality(HoldersOf(h))
                     /\ pending[h.provider][h.key] >= Cardinality(HoldersOf(h)) - surplus[h]

CountInv ==
  /\ RequestInv
  /\ MemberType
  /\ PendingInBounds
  /\ \A m \in Member, k \in Keys : streams[m][k] <= Cardinality(Streamed)

LEMMA PenaltiesIn ==
  ASSUME NEW b \in 0..MaxBlock, NEW ok, NEW p \in Penalties(b, ok)
  PROVE  p \in 0..MaxBlock
  BY DEF Penalties

LEMMA SubsetsFinite ==
  ASSUME NEW S \in SUBSET Request
  PROVE  IsFiniteSet(S) /\ Cardinality(S) \in Nat /\ Cardinality(S) <= Cardinality(Request)
<1>1. IsFiniteSet(Request)
  BY FamilyAssumption
<1>2. IsFiniteSet(S) /\ Cardinality(S) <= Cardinality(Request)
  BY <1>1, FS_Subset, Zenon
<1>3. QED  BY <1>2, FS_CardinalityType, Zenon

LEMMA HoldersFinite ==
  ASSUME NEW h
  PROVE  IsFiniteSet(HoldersOf(h)) /\ Cardinality(HoldersOf(h)) \in Nat
  BY SubsetsFinite DEF HoldersOf

\* The bounds of one key, as numbers: what is pending, held and overlooked.
InBounds(p, h, x) == p <= h /\ p >= h - x

LEMMA GainInBounds ==
  ASSUME NEW p \in Nat, NEW h \in Nat, NEW x \in Nat, InBounds(p, h, x)
  PROVE  InBounds(p + 1, h + 1, x)
  BY DEF InBounds

LEMMA LossInBounds ==
  ASSUME NEW p \in Nat, NEW h \in Nat \ {0}, NEW x \in Nat, NEW n \in Nat \ {0}, InBounds(p, h, x)
  PROVE  /\ Greater(p - n, 0) \in Nat /\ Lesser(x + (n - 1), h - 1) \in Nat
         /\ InBounds(Greater(p - n, 0), h - 1, Lesser(x + (n - 1), h - 1))
  BY DEF InBounds, Greater, Lesser

LEMMA BoundsAre ==
  /\ PendingInBounds <=>
       \A h \in Handles : InBounds(pending[h.provider][h.key], Cardinality(HoldersOf(h)), surplus[h])
  /\ PendingInBounds' <=>
       \A h \in Handles :
         InBounds(pending'[h.provider][h.key], Cardinality(HoldersOf(h)'), surplus'[h])
  BY DEF PendingInBounds, InBounds

\* A count that is changed at one handle stays what it was at any other.
LEMMA OtherHandle ==
  ASSUME NEW f \in [Member -> [Keys -> Nat]], NEW h \in Handles, NEW g \in Handles, NEW v \in Nat
  PROVE  LET f2 == [f EXCEPT ![g.provider][g.key] = v]
         IN  /\ f2 \in [Member -> [Keys -> Nat]]
             /\ f2[h.provider][h.key] = IF h = g THEN v ELSE f[h.provider][h.key]
<1>1. /\ h.provider \in Member /\ h.key \in Keys /\ g.provider \in Member /\ g.key \in Keys
      /\ h = g <=> h.provider = g.provider /\ h.key = g.key
  BY HandleIs
<1>2. QED  BY <1>1

\* The counts of the keys follow who holds them.
LEMMA MovesCount ==
  ASSUME CountInv, MovesKey
  PROVE  /\ pending' \in [Member -> [Keys -> Nat]]
         /\ surplus' \in [Handles -> Nat]
         /\ PendingInBounds'
<1>1. /\ pending \in [Member -> [Keys -> Nat]] /\ surplus \in [Handles -> Nat]
      /\ \A h \in Handles :
           InBounds(pending[h.provider][h.key], Cardinality(HoldersOf(h)), surplus[h])
  BY BoundsAre DEF CountInv, MemberType
<1>2. ASSUME NEW h \in Handles PROVE pending[h.provider][h.key] \in Nat /\ surplus[h] \in Nat
  BY <1>1, HandleIs
<1>3. ASSUME NEW r \in Request, NEW g \in Handles, Gains(r, g)
      PROVE  /\ pending' \in [Member -> [Keys -> Nat]]
             /\ surplus' \in [Handles -> Nat]
             /\ PendingInBounds'
  <2>1. \A q \in Request : Held'[q] = IF q = r THEN g ELSE Held[q]
    BY <1>3 DEF Gains, Held
  <2> DEFINE v == pending[g.provider][g.key] + 1
  <2>2. pending' = [pending EXCEPT ![g.provider][g.key] = v] /\ surplus' = surplus /\ v \in Nat
    BY <1>2, <1>3 DEF Gains
  <2> HIDE DEF v
  <2>3. pending' \in [Member -> [Keys -> Nat]]
    BY <1>1, <2>2, OtherHandle
  <2>4. ASSUME NEW h \in Handles
        PROVE  InBounds(pending'[h.provider][h.key], Cardinality(HoldersOf(h)'), surplus'[h])
    <3>1. pending'[h.provider][h.key] = IF h = g THEN v ELSE pending[h.provider][h.key]
      BY <1>1, <2>2, OtherHandle
    <3>2. CASE h = g
      <4>1. HoldersOf(h)' = HoldersOf(h) \cup {r} /\ r \notin HoldersOf(h)
        BY <1>3, <2>1, <3>2, NoHandleIs DEF HoldersOf, Gains
      <4>2. Cardinality(HoldersOf(h) \cup {r}) = Cardinality(HoldersOf(h)) + 1
        BY <4>1, HoldersFinite, FS_AddElement
      <4>3. InBounds(pending[h.provider][h.key] + 1, Cardinality(HoldersOf(h)) + 1, surplus[h])
        BY <1>1, <1>2, HoldersFinite, GainInBounds
      <4>4. QED  BY <2>2, <3>1, <3>2, <4>1, <4>2, <4>3 DEF v
    <3>3. CASE h # g
      <4>1. HoldersOf(h)' = HoldersOf(h)
        BY <1>3, <2>1, <3>3, NoHandleIs DEF HoldersOf, Gains
      <4>2. QED  BY <1>1, <2>2, <3>1, <3>3, <4>1
    <3>4. QED  BY <3>2, <3>3
  <2>5. QED  BY <1>1, <2>2, <2>3, <2>4, BoundsAre
<1>4. ASSUME NEW r \in Request, NEW n \in 1..MaxUsageLines, Loses(r, n)
      PROVE  /\ pending' \in [Member -> [Keys -> Nat]]
             /\ surplus' \in [Handles -> Nat]
             /\ PendingInBounds'
  <2> DEFINE g == Held[r]
             held == Cardinality(HoldersOf(g))
             v == Greater(pending[g.provider][g.key] - n, 0)
             x == Lesser(surplus[g] + (n - 1), held - 1)
  <2>1. \A q \in Request : Held'[q] = IF q = r THEN NoHandle ELSE Held[q]
    BY <1>4 DEF Loses, Held
  <2>2. /\ g \in Handles
        /\ pending' = [pending EXCEPT ![g.provider][g.key] = v]
        /\ surplus' = [surplus EXCEPT ![g] = x]
    BY <1>4 DEF Loses
  <2>3. r \in HoldersOf(g)
    BY DEF HoldersOf
  <2>4. \A h \in Handles : HoldersOf(h)' = IF h = g THEN HoldersOf(h) \ {r} ELSE HoldersOf(h)
    BY <2>1, NoHandleIs DEF HoldersOf
  <2>5. held \in Nat \ {0} /\ Cardinality(HoldersOf(g) \ {r}) = held - 1
    BY <2>3, HoldersFinite, FS_RemoveElement, FS_EmptySet
  <2>6. n \in Nat \ {0}
    BY FamilyAssumption
  <2>7. InBounds(pending[g.provider][g.key], held, surplus[g])
    BY <1>1, <2>2
  <2> HIDE DEF g, held
  <2>8. v \in Nat /\ x \in Nat /\ InBounds(v, held - 1, x)
    BY <1>2, <2>2, <2>5, <2>6, <2>7, LossInBounds
  <2> HIDE DEF v, x
  <2>9. pending' \in [Member -> [Keys -> Nat]] /\ surplus' \in [Handles -> Nat]
    BY <1>1, <2>2, <2>8, OtherHandle
  <2>10. ASSUME NEW h \in Handles
         PROVE  InBounds(pending'[h.provider][h.key], Cardinality(HoldersOf(h)'), surplus'[h])
    <3>1. /\ pending'[h.provider][h.key] = IF h = g THEN v ELSE pending[h.provider][h.key]
          /\ surplus'[h] = IF h = g THEN x ELSE surplus[h]
      BY <1>1, <2>2, <2>8, OtherHandle
    <3>2. CASE h = g
      BY <2>4, <2>5, <2>8, <3>1, <3>2
    <3>3. CASE h # g
      BY <1>1, <2>4, <3>1, <3>3
    <3>4. QED  BY <3>2, <3>3
  <2>11. QED  BY <2>9, <2>10, BoundsAre
<1>5. CASE Keeps
  <2>1. \A h \in Handles : HoldersOf(h)' = HoldersOf(h)
    BY <1>5 DEF Keeps, HoldersOf
  <2>2. QED  BY <1>1, <1>5, <2>1, BoundsAre DEF Keeps
<1>6. QED  BY <1>3, <1>4, <1>5 DEF MovesKey

\* What a release, or a key given back unused, does to the member.
LEMMA PenaltiesType ==
  ASSUME MemberType, NEW m \in Member, NEW k \in Keys, NEW ok,
         \E b \in Penalties(blocked[m][k], ok) : blocked' = [blocked EXCEPT ![m][k] = b],
         \E d \in Penalties(down[m], ok) : down' = [down EXCEPT ![m] = Greater(@, d)]
  PROVE  /\ blocked' \in [Member -> [Keys -> 0..MaxBlock]]
         /\ down' \in [Member -> 0..MaxBlock]
<1>1. blocked[m][k] \in 0..MaxBlock /\ down[m] \in 0..MaxBlock
  BY DEF MemberType
<1>2. PICK b \in 0..MaxBlock : blocked' = [blocked EXCEPT ![m][k] = b]
  BY <1>1, PenaltiesIn
<1>3. PICK d \in 0..MaxBlock : down' = [down EXCEPT ![m] = Greater(@, d)]
  BY <1>1, PenaltiesIn
<1>4. Greater(down[m], d) \in 0..MaxBlock
  BY <1>1 DEF Greater
<1>5. QED  BY <1>2, <1>3, <1>4 DEF MemberType

LEMMA BlocksNext ==
  ASSUME CountInv, [Next]_vars
  PROVE  blocked' \in [Member -> [Keys -> 0..MaxBlock]] /\ down' \in [Member -> 0..MaxBlock]
<1> USE DEF CountInv
<1>1. ASSUME UNCHANGED <<blocked, down>>
      PROVE  /\ blocked' \in [Member -> [Keys -> 0..MaxBlock]]
             /\ down' \in [Member -> 0..MaxBlock]
  BY <1>1 DEF MemberType
<1>2. ASSUME NEW r \in Request, handle[r] \in Handles, \E ok \in BOOLEAN : ReleaseOnce(r, ok)
      PROVE  /\ blocked' \in [Member -> [Keys -> 0..MaxBlock]]
             /\ down' \in [Member -> 0..MaxBlock]
  <2>1. handle[r].provider \in Member /\ handle[r].key \in Keys
    BY <1>2, HandleIs
  <2>2. PICK ok \in BOOLEAN : ReleaseOnce(r, ok)
    BY <1>2
  <2>3. CASE released[r]
    BY <1>1, <2>2, <2>3 DEF ReleaseOnce
  <2>4. CASE ~released[r]
    BY <2>1, <2>2, <2>4, PenaltiesType DEF ReleaseOnce, Release, SettleWith
  <2>5. QED  BY <2>3, <2>4
<1>3. ASSUME NEW r \in Request, NEW m \in Member, NEW k \in Keys, Take(r, m, k)
      PROVE  /\ blocked' \in [Member -> [Keys -> 0..MaxBlock]]
             /\ down' \in [Member -> 0..MaxBlock]
  BY <1>1, <1>3, PenaltiesType DEF Take, TakeAndForward, TakeAndReject
<1>4. ASSUME NEW r \in Request,
             \/ \E s \in Failures : Retry(r, s)
             \/ GiveUp(r) \/ ErrorBodyRead(r) \/ BodyOver(r) \/ SSEEnd(r) \/ SSEError(r)
      PROVE  handle[r] \in Handles /\ \E ok \in BOOLEAN : ReleaseOnce(r, ok)
  BY <1>4 DEF RequestInv, Placed, Retry, GiveUp, ErrorBodyRead, BodyOver, SSEEnd, SSEError
<1>5. CASE Tick
  <2>1. \A n \in 0..MaxBlock : Greater(n - 1, 0) \in 0..MaxBlock
    BY FamilyAssumption DEF Greater
  <2>2. QED  BY <1>5, <2>1 DEF Tick, MemberType
<1>6. CASE UNCHANGED vars
  BY <1>1, <1>6 DEF vars, memberVars
<1>7. ASSUME NEW r \in Request,
             \/ \E s \in Failures : AwaitErrorBody(r, s)
             \/ \E s \in Failures \cup {"ok"} : Answer(r, s) \/ AnswerSSE(r, s)
             \/ \E n \in 1..MaxUsageLines : UsageChunk(r, n)
             \/ NoneLeft(r) \/ Gone(r)
      PROVE  UNCHANGED <<blocked, down>>
  BY <1>7 DEF AwaitErrorBody, Answer, AnswerSSE, FinalAnswer, UsageChunk, NoneLeft, Gone, memberVars
<1>8. QED
  BY <1>1, <1>2, <1>3, <1>4, <1>5, <1>6, <1>7 DEF Next, Acquiring, Answered, Over

\* Starting a stream, or ending one any number of times.
LEMMA StreamCountIs ==
  ASSUME MemberType, NEW r \in Request, handle[r] \in Handles, NEW n \in Int, n <= 1,
         StreamCount(r, n), NEW m \in Member, NEW k \in Keys
  PROVE  /\ streams' \in [Member -> [Keys -> Nat]]
         /\ streams'[m][k] <= streams[m][k] + (IF n = 1 THEN 1 ELSE 0)
<1> DEFINE p == handle[r].provider
           q == handle[r].key
<1>1. p \in Member /\ q \in Keys
  BY HandleIs
<1>2. streams' = [streams EXCEPT ![p][q] = Greater(@ + n, 0)]
  BY DEF StreamCount
<1> HIDE DEF p, q
<1>3. \A c \in Nat : /\ Greater(c + n, 0) \in Nat
                     /\ Greater(c + n, 0) <= c + (IF n = 1 THEN 1 ELSE 0)
  BY DEF Greater
<1>4. streams' \in [Member -> [Keys -> Nat]]
  BY <1>1, <1>2, <1>3 DEF MemberType
<1>5. streams[m][k] \in Nat
  BY DEF MemberType
<1>6. streams'[m][k] = IF m = p /\ k = q THEN Greater(streams[m][k] + n, 0) ELSE streams[m][k]
  BY <1>1, <1>2 DEF MemberType
<1>7. QED  BY <1>3, <1>4, <1>5, <1>6

LEMMA StreamsNext ==
  ASSUME CountInv, [Next]_vars
  PROVE  /\ streams' \in [Member -> [Keys -> Nat]]
         /\ \A m \in Member, k \in Keys : streams'[m][k] <= Cardinality(Streamed')
<1> USE DEF CountInv
<1>1. Cardinality(Streamed) \in Nat /\ IsFiniteSet(Streamed)
      /\ Cardinality(Streamed') \in Nat /\ IsFiniteSet(Streamed')
  <2>1. Streamed \in SUBSET Request /\ Streamed' \in SUBSET Request
    BY DEF Streamed
  <2>2. QED  BY <2>1, SubsetsFinite
<1>2. Streamed \subseteq Streamed'
  <2>1. ASSUME NEW r \in Request,
               phase' = phase \/ \E p : GoTo(r, p) /\ (phase[r] \in {"sse", "done"} => p = "done")
        PROVE  Streamed \subseteq Streamed'
    BY <2>1 DEF Streamed, GoTo, RequestInv, RequestType
  <2>2. ASSUME phase' = phase PROVE Streamed \subseteq Streamed'
    BY <2>2 DEF Streamed
  <2>3. ASSUME NEW r \in Request, Acquiring(r) \/ Answered(r)
        PROVE  phase' = phase \/ \E p : GoTo(r, p) /\ (phase[r] \in {"sse", "done"} => p = "done")
    BY <2>3 DEF Acquiring, Answered, Take, TakeAndForward, TakeAndReject, NoneLeft, Finish, Retry,
                NextAttempt, AwaitErrorBody, Answer, GiveUp, AnswerSSE, FinalAnswer
  <2>4. ASSUME NEW r \in Request,
               Over(r) \/ (\E n \in 1..MaxUsageLines : UsageChunk(r, n)) \/ Gone(r)
        PROVE  phase' = phase \/ \E p : GoTo(r, p) /\ (phase[r] \in {"sse", "done"} => p = "done")
    BY <2>4 DEF Over, ErrorBodyRead, BodyOver, SSEEnd, SSEError, UsageChunk, Gone, Finish,
                NextAttempt
  <2>5. QED  BY <2>1, <2>2, <2>3, <2>4 DEF Next, Tick, vars, reqVars
<1>3. Cardinality(Streamed) <= Cardinality(Streamed')
  BY <1>1, <1>2, FS_Subset, Zenon
<1>4. ASSUME streams' = streams
      PROVE  /\ streams' \in [Member -> [Keys -> Nat]]
             /\ \A m \in Member, k \in Keys : streams'[m][k] <= Cardinality(Streamed')
  BY <1>1, <1>3, <1>4 DEF MemberType
<1>5. ASSUME NEW r \in Request, handle[r] \in Handles, NEW n \in Nat \ {0}, StreamCount(r, -n)
      PROVE  /\ streams' \in [Member -> [Keys -> Nat]]
             /\ \A m \in Member, k \in Keys : streams'[m][k] <= Cardinality(Streamed')
  <2>1. -n \in Int /\ -n <= 1 /\ -n # 1
    OBVIOUS
  <2>2. streams' \in [Member -> [Keys -> Nat]]
    BY <1>5, <2>1, StreamCountIs, HandleIs
  <2>3. ASSUME NEW m \in Member, NEW k \in Keys
        PROVE  streams'[m][k] <= Cardinality(Streamed')
    <3>1. streams'[m][k] <= streams[m][k] + 0
      BY <1>5, <2>1, StreamCountIs
    <3>2. streams[m][k] \in Nat /\ streams'[m][k] \in Nat
      BY <2>2 DEF MemberType
    <3>3. QED  BY <1>1, <1>3, <3>1, <3>2
  <2>4. QED  BY <2>2, <2>3
<1>6. ASSUME NEW r \in Request, NEW s \in Failures \cup {"ok"}, AnswerSSE(r, s)
      PROVE  /\ streams' \in [Member -> [Keys -> Nat]]
             /\ \A m \in Member, k \in Keys : streams'[m][k] <= Cardinality(Streamed')
  <2>1. handle[r] \in Handles /\ StreamCount(r, 1)
    BY <1>6 DEF AnswerSSE, FinalAnswer, RequestInv, Placed
  <2>2. streams' \in [Member -> [Keys -> Nat]]
    BY <2>1, StreamCountIs, HandleIs
  <2>3. Streamed' = Streamed \cup {r} /\ r \notin Streamed
    BY <1>6 DEF AnswerSSE, FinalAnswer, GoTo, Streamed, RequestInv, RequestType
  <2>4. Cardinality(Streamed') = Cardinality(Streamed) + 1
    BY <1>1, <2>3, FS_AddElement
  <2>5. ASSUME NEW m \in Member, NEW k \in Keys
        PROVE  streams'[m][k] <= Cardinality(Streamed')
    <3>1. streams'[m][k] <= streams[m][k] + 1 /\ streams[m][k] \in Nat /\ streams'[m][k] \in Nat
      BY <2>1, <2>2, StreamCountIs DEF MemberType
    <3>2. QED  BY <1>1, <2>4, <3>1
  <2>6. QED  BY <2>2, <2>5
<1>7. ASSUME NEW r \in Request,
             (\E n \in 1..MaxUsageLines : UsageChunk(r, n)) \/ SSEEnd(r) \/ SSEError(r)
      PROVE  /\ streams' \in [Member -> [Keys -> Nat]]
             /\ \A m \in Member, k \in Keys : streams'[m][k] <= Cardinality(Streamed')
  <2>1. handle[r] \in Handles
    BY <1>7 DEF UsageChunk, SSEEnd, SSEError, RequestInv, Placed
  <2>2. CASE \E n \in 1..MaxUsageLines : UsageChunk(r, n)
    <3>1. PICK n \in 1..MaxUsageLines : UsageChunk(r, n)
      BY <2>2
    <3>2. n \in Nat \ {0} /\ StreamCount(r, -n)
      BY <3>1, FamilyAssumption DEF UsageChunk
    <3>3. QED  BY <1>5, <2>1, <3>2
  <2>3. CASE SSEEnd(r) \/ SSEError(r)
    <3>1. streams' = streams \/ StreamCount(r, -1)
      BY <2>3 DEF SSEEnd, SSEError
    <3>2. 1 \in Nat \ {0}
      OBVIOUS
    <3>3. QED  BY <1>4, <1>5, <2>1, <3>1, <3>2
  <2>4. QED  BY <1>7, <2>2, <2>3
<1>8. ASSUME NEW r \in Request,
             \/ Acquiring(r) \/ Gone(r) \/ ErrorBodyRead(r) \/ BodyOver(r) \/ GiveUp(r)
             \/ \E s \in Failures : Retry(r, s) \/ AwaitErrorBody(r, s)
             \/ \E s \in Failures \cup {"ok"} : Answer(r, s)
      PROVE  streams' = streams
  BY <1>8 DEF Acquiring, Take, NoneLeft, Gone, ErrorBodyRead, BodyOver, GiveUp, Retry,
              AwaitErrorBody, Answer, memberVars
<1>9. CASE Tick \/ UNCHANGED vars
  BY <1>4, <1>9 DEF Tick, vars, memberVars
<1>10. QED  BY <1>4, <1>6, <1>7, <1>8, <1>9 DEF Next, Answered, Over

LEMMA CountNext == ASSUME CountInv, [Next]_vars PROVE CountInv'
<1>1. RequestInv' /\ MovesKey
  BY RequestNext, StepsMoveKeys DEF CountInv
<1>2. /\ pending' \in [Member -> [Keys -> Nat]]
      /\ surplus' \in [Handles -> Nat]
      /\ PendingInBounds'
  BY <1>1, MovesCount
<1>3. MemberType'
  BY <1>2, BlocksNext, StreamsNext DEF MemberType
<1>4. QED  BY <1>1, <1>2, <1>3, StreamsNext DEF CountInv

LEMMA CountInit == ASSUME Init PROVE CountInv
<1>1. RequestInv /\ MemberType
  BY RequestInit, FamilyAssumption DEF Init, MemberType
<1>2. ASSUME NEW h \in Handles
      PROVE  InBounds(pending[h.provider][h.key], Cardinality(HoldersOf(h)), surplus[h])
  <2>1. HoldersOf(h) = {}
    BY NoHandleIs DEF HoldersOf, Held, Holding, Init
  <2>2. pending[h.provider][h.key] = 0 /\ surplus[h] = 0
    BY HandleIs DEF Init
  <2>3. QED  BY <2>1, <2>2, FS_EmptySet DEF InBounds
<1>3. ASSUME NEW m \in Member, NEW k \in Keys PROVE streams[m][k] <= Cardinality(Streamed)
  <2>1. streams[m][k] = 0
    BY DEF Init
  <2>2. Cardinality(Streamed) \in Nat
    BY SubsetsFinite DEF Streamed
  <2>3. QED  BY <2>1, <2>2
<1>4. QED  BY <1>1, <1>2, <1>3, BoundsAre DEF CountInv

LEMMA CountIsTyped == ASSUME CountInv PROVE TypeOK
<1>1. Cardinality(Request) \in Nat
  BY SubsetsFinite
<1>2. ASSUME NEW m \in Member, NEW k \in Keys
      PROVE  /\ pending[m][k] \in 0..Cardinality(Request)
             /\ streams[m][k] \in 0..Cardinality(Request)
  <2> DEFINE h == [provider |-> m, key |-> k]
  <2>1. h \in Handles /\ h.provider = m /\ h.key = k
    BY HandleOf
  <2> HIDE DEF h
  <2>2. HoldersOf(h) \in SUBSET Request /\ Streamed \in SUBSET Request
    BY DEF HoldersOf, Streamed
  <2>3. pending[m][k] <= Cardinality(HoldersOf(h)) /\ streams[m][k] <= Cardinality(Streamed)
    BY <2>1 DEF CountInv, PendingInBounds
  <2>4. streams[m][k] \in Nat /\ pending[m][k] \in Nat
    BY DEF CountInv, MemberType
  <2>5. QED  BY <1>1, <2>2, <2>3, <2>4, SubsetsFinite
<1>3. /\ pending \in [Member -> [Keys -> 0..Cardinality(Request)]]
      /\ streams \in [Member -> [Keys -> 0..Cardinality(Request)]]
  BY <1>2 DEF CountInv, MemberType
<1>4. QED  BY <1>3 DEF TypeOK, CountInv, MemberType, RequestInv, RequestType

\* Every state of the family is well typed: in particular no count of a key
\* exceeds the number of requests.
THEOREM FamilyTypeOK == Spec => []TypeOK
<1>1. Init => CountInv
  BY CountInit
<1>2. CountInv /\ [Next]_vars => CountInv'
  BY CountNext
<1>3. CountInv => TypeOK
  BY CountIsTyped
<1>4. QED  BY <1>1, <1>2, <1>3, PTL DEF Spec

\* The pending count of every key of every member never counts more than the
\* requests that hold it, whichever members they were served by before, and it
\* misses only as many as events with several usage lines took out.
THEOREM FamilyPendingBounded == Spec => []PendingBounded
<1>1. Init => CountInv
  BY CountInit
<1>2. CountInv /\ [Next]_vars => CountInv'
  BY CountNext
<1>3. CountInv => PendingBounded
  BY CountedHolders DEF CountInv, PendingInBounds, PendingBounded
<1>4. QED  BY <1>1, <1>2, <1>3, PTL DEF Spec

-----------------------------------------------------------------------------
(***************************************************************************)
(* The lease.  A key is handed out below the cap because its two counters  *)
(* are, and pending counts the holders but for the overlooked ones.        *)
(***************************************************************************)
LEMMA FamilyLeaseStep ==
  ASSUME CountInv, [Next]_vars
  PROVE  [Lease!Next]_(Lease!vars)
<1>1. MovesKey
  BY StepsMoveKeys DEF CountInv
<1>2. ASSUME NEW h
      PROVE  /\ Lease!Holders(h) = HoldersOf(h)
             /\ Lease!Cardinality(HoldersOf(h)) = Cardinality(HoldersOf(h))
  <2>1. Lease!Holders(h) = HoldersOf(h)
    BY DEF Lease!Holders, HoldersOf
  <2>2. Lease!Cardinality(HoldersOf(h)) = Cardinality(HoldersOf(h))
    BY Zenon DEF Lease!Cardinality, Lease!IsFiniteSet, Cardinality, IsFiniteSet
  <2>3. QED  BY <2>1, <2>2
<1>3. ASSUME NEW r \in Request, NEW h \in Handles, Gains(r, h)
      PROVE  Lease!Acquire(r, h)
  <2>1. h.provider \in Member /\ h.key \in Keys
    BY HandleIs
  <2>2. pending[h.provider][h.key] >= Cardinality(HoldersOf(h)) - surplus[h]
    BY DEF CountInv, PendingInBounds
  <2>3. /\ pending[h.provider][h.key] \in Nat /\ streams[h.provider][h.key] \in Nat
        /\ surplus[h] \in Nat
    BY <2>1 DEF CountInv, MemberType
  <2>4. pending[h.provider][h.key] + streams[h.provider][h.key] < MaxConcurrent
    BY <1>3 DEF Gains, CanTake
  <2>5. Cardinality(HoldersOf(h)) < MaxConcurrent + surplus[h]
    BY <2>2, <2>3, <2>4, HoldersFinite, FamilyAssumption
  <2>6. QED  BY <1>2, <1>3, <2>5 DEF Gains, Lease!Acquire
<1>4. ASSUME NEW r \in Request, NEW n \in 1..MaxUsageLines, Loses(r, n)
      PROVE  Lease!Release(r, n - 1)
  <2> DEFINE h == Held[r]
             held == Cardinality(HoldersOf(h))
  <2>1. /\ h \in Handles /\ Held' = [Held EXCEPT ![r] = NoHandle]
        /\ surplus' = [surplus EXCEPT ![h] = Lesser(@ + (n - 1), held - 1)]
    BY <1>4 DEF Loses
  <2>2. h # NoHandle
    BY <2>1, NoHandleIs
  <2>3. Lease!Cardinality(Lease!Holders(h)) = held
    BY <1>2
  <2> HIDE DEF held
  <2>4. QED  BY <2>1, <2>2, <2>3 DEF Lease!Release, Lesser
<1>5. CASE Keeps
  BY <1>5 DEF Keeps, Lease!vars
<1>6. \A n \in 1..MaxUsageLines : n - 1 \in 0..(MaxUsageLines - 1)
  BY FamilyAssumption
<1>7. QED  BY <1>1, <1>3, <1>4, <1>5, <1>6 DEF MovesKey, Lease!Next

\* The family implements the lease over all its members' keys: a request has
\* settled with one member before it takes a key of another, and no key is
\* held by more than max_concurrent requests, but for the requests that an
\* event with several usage lines took out.
THEOREM FamilyLease == Spec => LeaseSpec
<1>1. Init => CountInv
  BY CountInit
<1>2. CountInv /\ [Next]_vars => CountInv'
  BY CountNext
<1>3. Init => Lease!Init
  BY DEF Init, Lease!Init, Held, Holding
<1>4. CountInv /\ [Next]_vars => [Lease!Next]_(Lease!vars)
  BY FamilyLeaseStep
<1>5. QED  BY <1>1, <1>2, <1>3, <1>4, PTL DEF Spec, LeaseSpec, Lease!Spec
=============================================================================
