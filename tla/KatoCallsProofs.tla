-------------------------- MODULE KatoCallsProofs --------------------------
(***************************************************************************)
(* KatoCalls for every set of calls and clusters and every number of       *)
(* retries: a retry repeats only what was left open, what callers are told *)
(* is true, and everything but a group run is an AtMostOnce.               *)
(*                                                                         *)
(* Calls do not influence each other, so the invariant speaks of one call  *)
(* at a time, and so does the proof that a step keeps it.                  *)
(***************************************************************************)
EXTENDS KatoCalls, TLAPS

Unchanged(c) ==
  /\ at'[c] = at[c] /\ attempts'[c] = attempts[c] /\ wire'[c] = wire[c]
  /\ late'[c] = late[c] /\ served'[c] = served[c]
  /\ result'[c] = result[c] /\ told'[c] = told[c] /\ unsure'[c] = unsure[c]

CallStep(c) ==
  \/ Receive(c) \/ Resolve(c) \/ ReadBodyFails(c) \/ ClientStep(c)
  \/ KatoServes(c) \/ KatoServesLate(c) \/ Retry(c) \/ Tell(c)

-----------------------------------------------------------------------------
(* The inductive invariant *)

(* Requests on the wire or given up on may still have an effect. *)
Pending(c) == late[c] + (IF wire[c] = Sent THEN 1 ELSE 0)

(* An exchange is open exactly while the client waits, the caller hears    *)
(* nothing before the end, and only a group run makes a second request.    *)
ControlInv(c) ==
  /\ at[c] = "waiting" <=> wire[c] # Nothing
  /\ at[c] # "over" => told[c] = Silence
  /\ at[c] \in {"new", "received"} => attempts[c] = 0
  /\ at[c] = "ready" => attempts[c] <= MaxRetries /\ (Once(c) => attempts[c] = 0)
  /\ Once(c) => attempts[c] <= 1
  /\ at[c] \in {"waiting", "returned"} /\ ~Once(c) => attempts[c] >= 1
  /\ at[c] = "returned" => result[c] # NoResult
  /\ \/ at[c] \in {"new", "received", "ready"} /\ attempts[c] = 0
     \/ at[c] = "waiting" /\ attempts[c] = 1
     => result[c] = NoResult

(* The last request is still open, or was a success. *)
LastCounts(c) ==
  IF at[c] = "waiting" \/ (at[c] \in {"returned", "over"} /\ result[c].kind = "body")
  THEN 1 ELSE 0

(* No request has two effects, and one that kato refused has none.         *)
EffectInv(c) ==
  /\ served[c] + Pending(c) <= unsure[c] + LastCounts(c)
  /\ unsure[c] + LastCounts(c) <= attempts[c]

(* A success on the wire, or understood by the client, was an effect; the  *)
(* request that ended in a refusal has none, and none is to come.          *)
Refused(c) ==
  Refusal(wire[c]) \/ (at[c] \in {"returned", "over"} /\ Refusal(result[c].status))

AnswerInv(c) ==
  /\ wire[c] = 200 \/ result[c].kind = "body" => served[c] >= 1
  /\ Refused(c) => served[c] + Pending(c) <= unsure[c] /\ unsure[c] < attempts[c]

(* What the caller is told is the client's result, or that there is no     *)
(* such cluster, and then kato was not asked.                              *)
ToldInv(c) ==
  at[c] = "over" =>
    \/ told[c] = [kind |-> "unknown", status |-> 404] /\ attempts[c] = 0
    \/ \E r \in Results \ {NoResult} : result[c] = r /\ told[c] = Normalize(r)

CallInv(c) == ControlInv(c) /\ EffectInv(c) /\ AnswerInv(c) /\ ToldInv(c)

IInv == TypeOK /\ \A c \in Call : CallInv(c)

-----------------------------------------------------------------------------
(* What the client returns and what callers are told. *)
LEMMA Values ==
  /\ {NoResult, Body, PlainError, DecodeError} \subseteq Results
  /\ \A s \in {400, 429, 500} : APIError(s) \in Results
  /\ [kind |-> "unknown", status |-> 404] \in Told
  /\ \A r \in Results \ {NoResult} : Normalize(r) \in Told
<1>1. \A s \in {400, 429, 500} : APIError(s) \in Results
  BY DEF Results, Status
<1>2. [kind |-> "unknown", status |-> 404] \in Told
  BY DEF Told
<1>3. ASSUME NEW r \in Results, r # NoResult
      PROVE  Normalize(r) \in Told
  <2>1. CASE r = Body
    BY <2>1 DEF Body, Normalize, Told, Status
  <2>2. CASE r \in {PlainError, DecodeError}
    BY <2>2 DEF PlainError, DecodeError, Normalize, Told
  <2>3. CASE \E s \in Status \ {200} : r = APIError(s)
    BY <2>3 DEF APIError, Normalize, Told, Status
  <2> QED
    BY <1>3, <2>1, <2>2, <2>3 DEF Results
<1> QED
  BY <1>1, <1>2, <1>3 DEF Results

(* A success is final, and only kato's own statuses are refusals.          *)
LEMMA ResultKinds ==
  ASSUME NEW r \in Results
  PROVE  /\ r.kind = "body" => ~retriable(r) /\ ~Refusal(r.status)
         /\ r.kind # "body" /\ Decided(r) => Refusal(r.status)
         /\ Refusal(r.status) => r.kind = "api"
BY DEF Results, Status, NoResult, Body, PlainError, DecodeError, APIError, retriable,
       Refusal, Decided

(* A client that still waits may yet end unsure. *)
LEMMA MoreUnsure ==
  ASSUME TypeOK, NEW c \in Call, CallInv(c), at[c] = "waiting"
  PROVE  unsure[c] + 1 \in 0 .. MaxRetries + 1
<1>1. attempts[c] \in 0 .. MaxRetries + 1 /\ unsure[c] \in 0 .. MaxRetries + 1
  BY DEF TypeOK
<1>2. unsure[c] + 1 <= attempts[c]
  BY DEF CallInv, EffectInv, LastCounts
<1> QED
  BY <1>1, <1>2, RetriesAssumption

(* Every variable keeps its type in every step. *)
LEMMA TypeInductive ==
  ASSUME TypeOK, NEW c \in Call, CallInv(c), CallStep(c)
  PROVE  TypeOK'
<1>0. MaxRetries \in Nat
  BY RetriesAssumption
<1> USE DEF TypeOK
<1>1. CASE Receive(c)
  BY <1>1 DEF Receive, Places
<1>2. CASE Resolve(c)
  <2>1. CASE cluster[c] \in Registered
    BY <1>2, <2>1 DEF Resolve, Places
  <2>2. CASE cluster[c] \notin Registered
    <3>1. told' = [told EXCEPT ![c] = [kind |-> "unknown", status |-> 404]]
      BY <1>2, <2>2 DEF Resolve
    <3>2. told' \in [Call -> Told]
      BY <3>1, Values
    <3>3. at' = [at EXCEPT ![c] = "over"]
      BY <1>2, <2>2 DEF Resolve
    <3> QED
      BY <1>2, <3>2, <3>3 DEF Resolve, Places
  <2> QED
    BY <2>1, <2>2
<1>3. CASE ReadBodyFails(c)
  BY <1>3, Values DEF ReadBodyFails, Places
<1>4. CASE Send(c)
  BY <1>0, <1>4 DEF Send, Places, CallInv, ControlInv, Sent
<1>5. CASE SendFails(c)
  <2>1. result' \in [Call -> Results]
    BY <1>5, Values DEF SendFails
  <2>2. attempts' \in [Call -> 0 .. MaxRetries + 1]
    BY <1>0, <1>5 DEF SendFails, CallInv, ControlInv
  <2> QED
    BY <1>5, <2>1, <2>2 DEF SendFails, Places
<1>6. CASE GiveUp(c)
  <2>1. result' \in [Call -> Results]
    BY <1>6, Values DEF GiveUp
  <2>2. late' \in [Call -> Nat]
    BY <1>6 DEF GiveUp
  <2>3. unsure' \in [Call -> 0 .. MaxRetries + 1]
    BY <1>0, <1>6, MoreUnsure DEF GiveUp
  <2> QED
    BY <1>6, <2>1, <2>2, <2>3 DEF GiveUp, Places
<1>7. CASE Answer(c)
  <2>0. unsure' \in [Call -> 0 .. MaxRetries + 1]
    BY <1>0, <1>7, MoreUnsure DEF Answer
  <2>1. CASE wire[c] = 200
    <3>1. PICK r \in {Body, DecodeError} : result' = [result EXCEPT ![c] = r]
      BY <1>7, <2>1 DEF Answer
    <3>2. result' \in [Call -> Results]
      BY <3>1, Values
    <3> QED
      BY <1>7, <2>0, <3>2 DEF Answer, Places, Nothing
  <2>2. CASE wire[c] # 200
    <3>0. wire[c] \in {400, 429, 500}
      BY <1>7, <2>2 DEF Answer, Status
    <3>1. APIError(wire[c]) \in Results
      BY <3>0 DEF Results, Status
    <3>2. result' = [result EXCEPT ![c] = APIError(wire[c])]
      BY <1>7, <2>2 DEF Answer
    <3>3. result' \in [Call -> Results]
      BY <3>1, <3>2
    <3> QED
      BY <1>7, <2>0, <3>3 DEF Answer, Places, Nothing
  <2> QED
    BY <2>1, <2>2
<1>8. CASE KatoServes(c)
  BY <1>8 DEF KatoServes
<1>9. CASE KatoServesLate(c)
  BY <1>9 DEF KatoServesLate
<1>10. CASE Retry(c)
  BY <1>10 DEF Retry, Places
<1>11. CASE Tell(c)
  BY <1>11, Values DEF Tell, Places, CallInv, ControlInv
<1> QED
  BY <1>1, <1>2, <1>3, <1>4, <1>5, <1>6, <1>7, <1>8, <1>9, <1>10, <1>11 DEF CallStep, ClientStep
-----------------------------------------------------------------------------
(* A call's step leaves every other call alone. *)
LEMMA Frame ==
  ASSUME TypeOK, NEW c \in Call, NEW d \in Call, c # d, CallStep(c)
  PROVE  Unchanged(d) /\ door' = door
<1>1. CASE Receive(c)
  BY <1>1 DEF Receive, TypeOK, Unchanged
<1>2. CASE Resolve(c)
  <2>1. CASE cluster[c] \in Registered
    BY <1>2, <2>1 DEF Resolve, TypeOK, Unchanged
  <2>2. CASE cluster[c] \notin Registered
    <3>1. told' = [told EXCEPT ![c] = [kind |-> "unknown", status |-> 404]]
      BY <1>2, <2>2 DEF Resolve
    <3>2. told'[d] = told[d]
      BY <3>1 DEF TypeOK
    <3> QED
      BY <1>2, <2>2, <3>2 DEF Resolve, TypeOK, Unchanged
  <2> QED
    BY <2>1, <2>2
<1>3. CASE ReadBodyFails(c)
  BY <1>3 DEF ReadBodyFails, TypeOK, Unchanged
<1>4. CASE Send(c)
  BY <1>4 DEF Send, TypeOK, Unchanged
<1>5. CASE SendFails(c)
  BY <1>5 DEF SendFails, TypeOK, Unchanged
<1>6. CASE GiveUp(c)
  BY <1>6 DEF GiveUp, TypeOK, Unchanged
<1>7. CASE Answer(c)
  BY <1>7 DEF Answer, TypeOK, Unchanged
<1>8. CASE KatoServes(c)
  BY <1>8 DEF KatoServes, TypeOK, Unchanged
<1>9. CASE KatoServesLate(c)
  BY <1>9 DEF KatoServesLate, TypeOK, Unchanged
<1>10. CASE Retry(c)
  BY <1>10 DEF Retry, TypeOK, Unchanged
<1>11. CASE Tell(c)
  BY <1>11 DEF Tell, TypeOK, Unchanged
<1> QED
  BY <1>1, <1>2, <1>3, <1>4, <1>5, <1>6, <1>7, <1>8, <1>9, <1>10, <1>11 DEF CallStep, ClientStep

(* A step of one call leaves what is known of every other as it was.       *)
LEMMA OtherCalls ==
  ASSUME NEW d \in Call, CallInv(d), Unchanged(d), door' = door
  PROVE  CallInv(d)'
<1> USE DEF Unchanged
<1>1. ControlInv(d)'
  BY DEF CallInv, ControlInv, Once
<1>2. EffectInv(d)'
  BY DEF CallInv, EffectInv, Pending, LastCounts
<1>3. AnswerInv(d)'
  BY DEF CallInv, AnswerInv, Refused, Pending, Refusal
<1>4. ToldInv(d)'
  BY DEF CallInv, ToldInv
<1> QED
  BY <1>1, <1>2, <1>3, <1>4 DEF CallInv

(* The acting call keeps its invariant. *)
LEMMA CallInductive ==
  ASSUME TypeOK, NEW c \in Call, CallInv(c), CallStep(c)
  PROVE  CallInv(c)'
<1> USE DEF LastCounts, Refused
<1>0. /\ attempts[c] \in Nat /\ late[c] \in Nat /\ served[c] \in Nat /\ unsure[c] \in Nat
      /\ wire[c] \in {Nothing, Sent, 200, 400, 429, 500}
      /\ MaxRetries \in Nat
  BY RetriesAssumption DEF TypeOK, Status
<1>1. CASE Receive(c)
  <2>1. at'[c] = "received"
    BY <1>1 DEF Receive, TypeOK
  <2> USE DEF Receive, CallInv
  <2>2. ControlInv(c)'
    BY <1>1, <2>1 DEF ControlInv, Once, Nothing
  <2>3. EffectInv(c)'
    BY <1>1, <2>1 DEF EffectInv, Pending
  <2>4. AnswerInv(c)'
    BY <1>1, <2>1 DEF AnswerInv, Pending, Refusal
  <2>5. ToldInv(c)'
    BY <2>1 DEF ToldInv
  <2> QED
    BY <2>2, <2>3, <2>4, <2>5
<1>2. CASE Resolve(c)
  <2> USE DEF CallInv
  <2>0. /\ at[c] = "received" /\ door' = door /\ attempts' = attempts /\ wire' = wire
        /\ late' = late /\ served' = served /\ result' = result /\ unsure' = unsure
        /\ result[c].kind = "none" /\ ~Refusal(result[c].status)
    BY <1>2 DEF Resolve, ControlInv, NoResult, Refusal
  <2>1. CASE cluster[c] \in Registered
    <3>1. at' = [at EXCEPT ![c] = "ready"] /\ told' = told
      BY <1>2, <2>1 DEF Resolve
    <3>2. at'[c] = "ready"
      BY <3>1 DEF TypeOK
    <3> QED
      <4>1. ControlInv(c)'
        BY <1>0, <2>0, <3>1, <3>2 DEF ControlInv, Once
      <4>2. EffectInv(c)'
        BY <1>0, <2>0, <3>2 DEF EffectInv, Pending
      <4>3. AnswerInv(c)'
        BY <1>0, <2>0, <3>2 DEF AnswerInv, Pending, Refusal
      <4>4. ToldInv(c)'
        BY <2>0, <3>1, <3>2 DEF ToldInv, ControlInv
      <4> QED
        BY <4>1, <4>2, <4>3, <4>4
  <2>2. CASE cluster[c] \notin Registered
    <3>1. /\ at' = [at EXCEPT ![c] = "over"]
          /\ told' = [told EXCEPT ![c] = [kind |-> "unknown", status |-> 404]]
      BY <1>2, <2>2 DEF Resolve
    <3>2. at'[c] = "over" /\ told'[c] = [kind |-> "unknown", status |-> 404]
      BY <3>1 DEF TypeOK
    <3> QED
      <4>1. ControlInv(c)'
        BY <1>0, <2>0, <3>2 DEF ControlInv, Once
      <4>2. EffectInv(c)'
        BY <1>0, <2>0, <3>2 DEF EffectInv, Pending
      <4>3. AnswerInv(c)'
        BY <1>0, <2>0, <3>2 DEF AnswerInv, Pending, Refusal
      <4>4. ToldInv(c)'
        BY <2>0, <3>2 DEF ToldInv, ControlInv
      <4> QED
        BY <4>1, <4>2, <4>3, <4>4
  <2> QED
    BY <2>1, <2>2
<1>3. CASE ReadBodyFails(c)
  <2> USE DEF ReadBodyFails, TypeOK, CallInv
  <2>1. ControlInv(c)'
    BY <1>0, <1>3 DEF ControlInv, Once, Nothing, Sent, Silence, PlainError, NoResult
  <2>2. EffectInv(c)'
    BY <1>0, <1>3 DEF ControlInv, EffectInv, Pending, Nothing, Sent, PlainError, NoResult
  <2>3. AnswerInv(c)'
    BY <1>0, <1>3 DEF ControlInv, EffectInv, Pending, AnswerInv, Refusal, Nothing, Sent, PlainError, NoResult
  <2>4. ToldInv(c)'
    BY <1>3 DEF ControlInv, ToldInv
  <2> QED
    BY <2>1, <2>2, <2>3, <2>4
<1>4. CASE Send(c)
  <2> USE DEF Send, TypeOK, CallInv
  <2>1. ControlInv(c)'
    BY <1>0, <1>4 DEF ControlInv, Once, Nothing, Sent, Silence
  <2>2. EffectInv(c)'
    BY <1>0, <1>4 DEF ControlInv, EffectInv, Pending, Nothing, Sent
  <2>3. AnswerInv(c)'
    BY <1>0, <1>4 DEF ControlInv, EffectInv, Pending, AnswerInv, Refusal, Nothing, Sent
  <2>4. ToldInv(c)'
    BY <1>4 DEF ControlInv, ToldInv
  <2> QED
    BY <2>1, <2>2, <2>3, <2>4
<1>5. CASE SendFails(c)
  <2> USE DEF SendFails, TypeOK, CallInv
  <2>1. ControlInv(c)'
    BY <1>0, <1>5 DEF ControlInv, Once, Nothing, Sent, Silence, PlainError, NoResult
  <2>2. EffectInv(c)'
    BY <1>0, <1>5 DEF ControlInv, EffectInv, Pending, Nothing, Sent
  <2>3. AnswerInv(c)'
    BY <1>0, <1>5 DEF ControlInv, EffectInv, Pending, AnswerInv, Refusal, Nothing, Sent, PlainError, NoResult
  <2>4. ToldInv(c)'
    BY <1>5 DEF ControlInv, ToldInv
  <2> QED
    BY <2>1, <2>2, <2>3, <2>4
<1>6. CASE GiveUp(c)
  <2> USE DEF GiveUp, TypeOK, CallInv
  <2>1. ControlInv(c)'
    BY <1>0, <1>6 DEF ControlInv, Once, Nothing, Sent, Silence, PlainError, NoResult
  <2>2. EffectInv(c)'
    BY <1>0, <1>6 DEF ControlInv, EffectInv, Pending, Nothing, Sent, PlainError
  <2>3. AnswerInv(c)'
    BY <1>0, <1>6 DEF ControlInv, EffectInv, Pending, AnswerInv, Refusal, Nothing, Sent, PlainError, NoResult
  <2>4. ToldInv(c)'
    BY <1>6 DEF ControlInv, ToldInv
  <2> QED
    BY <2>1, <2>2, <2>3, <2>4
<1>7. CASE Answer(c)
  <2> USE DEF TypeOK, CallInv
  <2>1. CASE wire[c] = 200
    <3>1. PICK r \in {Body, DecodeError} : result' = [result EXCEPT ![c] = r]
      BY <1>7, <2>1 DEF Answer
    <3>2. result'[c] \in {Body, DecodeError}
      BY <3>1
    <3>3. unsure'[c] = unsure[c] + (IF result'[c].kind = "body" THEN 0 ELSE 1)
      BY <1>0, <1>7, <3>1, <3>2 DEF Answer, Decided, Body, DecodeError
    <3> QED
      BY <1>0, <1>7, <2>1, <3>2, <3>3
      DEF Answer, ControlInv, Once, EffectInv, Pending, AnswerInv, Refusal, ToldInv,
          Nothing, Sent, Body, DecodeError, NoResult
  <2>2. CASE wire[c] # 200
    <3>1. result' = [result EXCEPT ![c] = APIError(wire[c])]
      BY <1>7, <2>2 DEF Answer
    <3>2. result'[c] = [kind |-> "api", status |-> wire[c]]
      BY <3>1 DEF APIError
    <3>3. unsure'[c] = unsure[c] + (IF Refusal(wire[c]) THEN 0 ELSE 1)
      BY <1>0, <1>7, <2>2, <3>2 DEF Answer, Decided, APIError
    <3> QED
      BY <1>0, <1>7, <2>2, <3>2, <3>3
      DEF Answer, ControlInv, Once, EffectInv, Pending, AnswerInv, Refusal, ToldInv,
          Nothing, Sent, NoResult
  <2> QED
    BY <2>1, <2>2
<1>8. CASE KatoServes(c)
  <2> USE DEF TypeOK, CallInv
  <2>1. PICK s \in {200, 400, 429, 500}, effect \in {0, 1} :
          /\ s = 200 => effect = 1
          /\ Refusal(s) => effect = 0
          /\ wire' = [wire EXCEPT ![c] = s]
          /\ served' = [served EXCEPT ![c] = @ + effect]
    BY <1>8 DEF KatoServes, Status
  <2>2. wire[c] = Sent /\ wire'[c] = s /\ served'[c] = served[c] + effect
    BY <1>8, <2>1 DEF KatoServes
  <2>3. /\ at' = at /\ door' = door /\ attempts' = attempts /\ late' = late
        /\ result' = result /\ told' = told /\ unsure' = unsure
    BY <1>8 DEF KatoServes
  <2>4. ControlInv(c)'
    BY <2>2, <2>3 DEF ControlInv, Once, Nothing, Sent
  <2>5. EffectInv(c)'
    BY <1>0, <2>2, <2>3 DEF EffectInv, Pending, Sent
  <2>6. AnswerInv(c)'
    <3>1. s = 200 \/ result[c].kind = "body" => served'[c] >= 1
      BY <1>0, <2>1, <2>2 DEF AnswerInv
    <3>2. Refusal(s) => served'[c] + Pending(c)' <= unsure'[c] /\ unsure'[c] < attempts'[c]
      <4>1. at[c] = "waiting"
        BY <2>2 DEF ControlInv, Nothing, Sent
      <4> QED
        BY <1>0, <2>1, <2>2, <2>3, <4>1 DEF EffectInv, Pending, Sent
    <3>3. at[c] \notin {"returned", "over"}
      BY <2>2 DEF ControlInv, Nothing, Sent
    <3> QED
      BY <2>2, <2>3, <3>1, <3>2, <3>3 DEF AnswerInv
  <2>7. ToldInv(c)'
    BY <2>3 DEF ToldInv
  <2> QED
    BY <2>4, <2>5, <2>6, <2>7
<1>9. CASE KatoServesLate(c)
  <2> USE DEF KatoServesLate, TypeOK, CallInv
  <2>1. ControlInv(c)'
    BY <1>0, <1>9 DEF ControlInv, Once, Nothing, Sent, Silence
  <2>2. EffectInv(c)'
    BY <1>0, <1>9 DEF ControlInv, EffectInv, Pending, Nothing, Sent
  <2>3. AnswerInv(c)'
    BY <1>0, <1>9 DEF ControlInv, EffectInv, Pending, AnswerInv, Refusal, Nothing, Sent
  <2>4. ToldInv(c)'
    BY <1>9 DEF ControlInv, ToldInv
  <2> QED
    BY <2>1, <2>2, <2>3, <2>4
<1>10. CASE Retry(c)
  <2> USE DEF Retry, TypeOK, CallInv
  <2>0. result[c].kind # "body"
    BY <1>10, ResultKinds
  <2>1. ControlInv(c)'
    BY <1>0, <1>10 DEF ControlInv, Once, Nothing, Sent, Silence
  <2>2. EffectInv(c)'
    BY <1>0, <1>10, <2>0 DEF ControlInv, EffectInv, Pending, Nothing, Sent
  <2>3. AnswerInv(c)'
    BY <1>0, <1>10 DEF ControlInv, EffectInv, Pending, AnswerInv, Refusal, Nothing, Sent
  <2>4. ToldInv(c)'
    BY <1>10 DEF ControlInv, ToldInv
  <2> QED
    BY <2>1, <2>2, <2>3, <2>4
<1>11. CASE Tell(c)
  <2> USE DEF Tell, TypeOK, CallInv
  <2>1. ControlInv(c)'
    BY <1>0, <1>11 DEF ControlInv, Once, Nothing, Sent, Silence
  <2>2. EffectInv(c)'
    BY <1>0, <1>11 DEF ControlInv, EffectInv, Pending, Nothing, Sent
  <2>3. AnswerInv(c)'
    BY <1>0, <1>11 DEF ControlInv, EffectInv, Pending, AnswerInv, Refusal, Nothing, Sent
  <2>4. ToldInv(c)'
    BY <1>11 DEF ControlInv, ToldInv
  <2> QED
    BY <2>1, <2>2, <2>3, <2>4
<1> QED
  BY <1>1, <1>2, <1>3, <1>4, <1>5, <1>6, <1>7, <1>8, <1>9, <1>10, <1>11 DEF CallStep, ClientStep
-----------------------------------------------------------------------------
(* The invariant holds in every reachable state: each call, through        *)
(* whatever door, keeps to the order of its steps, and what was sent,      *)
(* served and told of it agree.                                            *)
THEOREM Inductive == Spec => []IInv
<1>1. Init => IInv
  <2> SUFFICES ASSUME Init
               PROVE  IInv
    OBVIOUS
  <2>1. TypeOK
    <3>1. NoResult \in Results /\ Silence \in Told
      BY DEF Results, Told, Silence
    <3>2. 0 \in 0 .. MaxRetries + 1
      BY RetriesAssumption
    <3> QED
      BY <3>1, <3>2 DEF Init, TypeOK, Places, Nothing
  <2>2. ASSUME NEW c \in Call
        PROVE  CallInv(c)
    BY RetriesAssumption
    DEF Init, CallInv, ControlInv, EffectInv, AnswerInv, ToldInv, Pending, LastCounts,
        Refused, Once, Nothing, Sent, NoResult, Refusal
  <2> QED
    BY <2>1, <2>2 DEF IInv
<1>2. IInv /\ [Next]_vars => IInv'
  <2> SUFFICES ASSUME IInv, [Next]_vars
               PROVE  IInv'
    OBVIOUS
  <2>1. CASE UNCHANGED vars
    <3>1. TypeOK'
      BY <2>1 DEF vars, IInv, TypeOK
    <3>2. ASSUME NEW c \in Call
          PROVE  CallInv(c)'
      BY <2>1, <3>2, OtherCalls DEF vars, Unchanged, IInv
    <3> QED
      BY <3>1, <3>2 DEF IInv
  <2>2. ASSUME NEW c \in Call, CallStep(c)
        PROVE  IInv'
    <3>1. TypeOK'
      BY <2>2, TypeInductive DEF IInv
    <3>2. ASSUME NEW d \in Call
          PROVE  CallInv(d)'
      <4>1. CASE d = c
        BY <2>2, <4>1, CallInductive DEF IInv
      <4>2. CASE d # c
        <5>1. Unchanged(d) /\ door' = door
          BY <2>2, <3>2, <4>2, Frame DEF IInv
        <5> QED
          BY <3>2, <5>1, OtherCalls DEF IInv
      <4> QED
        BY <4>1, <4>2
    <3> QED
      BY <3>1, <3>2 DEF IInv
  <2> QED
    BY <2>1, <2>2 DEF Next, CallStep
<1> QED
  BY <1>1, <1>2, PTL DEF Spec

(* Every variable keeps its type; in particular no call makes more         *)
(* requests than GroupRunner.MaxRetries allows.                            *)
THEOREM TypeCorrect == Spec => []TypeOK
<1>1. IInv => TypeOK
  BY DEF IInv
<1> QED
  BY <1>1, Inductive, PTL

(* Once a call is over, what its caller may conclude is so: a result was   *)
(* an effect, and a refused request was none and will be none.             *)
ToldTrue(c) ==
  /\ told[c].kind = "result" => served[c] >= 1
  /\ Verdict(told[c]) = "happened" => served[c] >= 1
  /\ Verdict(told[c]) = "refused" =>
       /\ served[c] + Pending(c) <= unsure[c]
       /\ attempts[c] <= 1 => unsure[c] = 0
  /\ at[c] # "over" => Verdict(told[c]) = "none"
  /\ at[c] = "over" => Verdict(told[c]) \in {"happened", "refused", "open"}

(* What a call's invariant says makes what its caller is told true.        *)
LEMMA ToldIsTrue ==
  ASSUME TypeOK, NEW c \in Call, CallInv(c)
  PROVE  ToldTrue(c)
<1> USE DEF ToldTrue
<1>0. attempts[c] \in Nat /\ late[c] \in Nat /\ served[c] \in Nat /\ unsure[c] \in Nat
  BY RetriesAssumption DEF TypeOK
<1>1. CASE at[c] # "over"
  BY <1>1 DEF CallInv, ControlInv, Silence, Verdict
<1>2. CASE at[c] = "over" /\ told[c] = [kind |-> "unknown", status |-> 404] /\ attempts[c] = 0
  <2>1. attempts[c] = 0 /\ at[c] = "over" /\ told[c].kind = "unknown" /\ told[c].status = 404
    BY <1>2
  <2>2. LastCounts(c) \in {0, 1}
    BY DEF LastCounts
  <2>3. served[c] + Pending(c) <= unsure[c] /\ unsure[c] = 0
    BY <1>0, <2>1, <2>2 DEF CallInv, EffectInv, Pending
  <2> QED
    BY <2>1, <2>3 DEF Verdict, Refusal
<1>3. ASSUME NEW r \in Results \ {NoResult}, at[c] = "over", result[c] = r, told[c] = Normalize(r)
      PROVE  ToldTrue(c)
  <2>1. CASE r = Body
    <3>1. told[c] = [kind |-> "result", status |-> 200]
      BY <1>3, <2>1 DEF Body, Normalize
    <3>2. served[c] >= 1
      BY <1>3, <2>1 DEF Body, CallInv, AnswerInv
    <3> QED
      BY <1>3, <3>1, <3>2 DEF Verdict
  <2>2. CASE r \in {PlainError, DecodeError}
    <3>0. r.kind \in {"plain", "garbled"}
      BY <2>2 DEF PlainError, DecodeError
    <3>1. told[c] = [kind |-> "unreachable", status |-> 502]
      BY <1>3, <3>0 DEF Normalize
    <3> QED
      BY <1>3, <3>1 DEF Verdict, Refusal
  <2>3. ASSUME NEW s \in {400, 429, 500}, r = APIError(s)
        PROVE  ToldTrue(c)
    <3>0. r.kind = "api" /\ r.status = s
      BY <2>3 DEF APIError
    <3>1. told[c] = [kind |-> "error", status |-> s]
      BY <1>3, <3>0 DEF Normalize
    <3>2. Refusal(s) => served[c] + Pending(c) <= unsure[c] /\ unsure[c] < attempts[c]
      BY <1>3, <3>0 DEF CallInv, AnswerInv, Refused
    <3>3. told[c].kind = "error" /\ told[c].status = s
      BY <3>1
    <3> QED
      BY <1>0, <1>3, <2>3, <3>2, <3>3 DEF Verdict
  <2> QED
    BY <1>3, <2>1, <2>2, <2>3 DEF Results, Status
<1> QED
  BY <1>1, <1>2, <1>3 DEF CallInv, ToldInv

(* Retries repeat only what was left open: a target is served at most once *)
(* for each request that ended without kato's word and once for the last,  *)
(* requests that are still on their way included.                          *)
THEOREM TargetsAreBounded == Spec => []TargetsBounded
<1>1. IInv => TargetsBounded
  <2> SUFFICES ASSUME IInv
               PROVE  TargetsBounded
    OBVIOUS
  <2> SUFFICES ASSUME NEW c \in Call
               PROVE  LET effects == served[c] + late[c] + (IF wire[c] = Sent THEN 1 ELSE 0)
                      IN  /\ effects <= 1 + unsure[c]
                          /\ effects <= 1 + MaxRetries
                          /\ told[c].kind = "result" => served[c] >= 1
                          /\ Verdict(told[c]) = "refused" => effects <= unsure[c]
    BY DEF TargetsBounded
  <2>0. /\ attempts[c] \in Nat /\ late[c] \in Nat /\ served[c] \in Nat /\ unsure[c] \in Nat
        /\ attempts[c] <= MaxRetries + 1 /\ MaxRetries \in Nat
    BY RetriesAssumption DEF IInv, TypeOK
  <2>1. LastCounts(c) \in {0, 1} /\ Pending(c) \in Nat
    BY <2>0 DEF LastCounts, Pending
  <2>2. served[c] + Pending(c) <= 1 + unsure[c] /\ served[c] + Pending(c) <= 1 + MaxRetries
    <3>1. served[c] + Pending(c) <= unsure[c] + LastCounts(c) /\ unsure[c] + LastCounts(c) <= attempts[c]
      BY DEF IInv, CallInv, EffectInv
    <3> QED
      BY <2>0, <2>1, <3>1
  <2>3. /\ told[c].kind = "result" => served[c] >= 1
        /\ Verdict(told[c]) = "refused" => served[c] + Pending(c) <= unsure[c]
    BY ToldIsTrue DEF IInv, ToldTrue
  <2>4. served[c] + Pending(c) = served[c] + late[c] + (IF wire[c] = Sent THEN 1 ELSE 0)
    BY <2>0 DEF Pending
  <2> QED
    BY <2>2, <2>3, <2>4
<1> QED
  BY <1>1, Inductive, PTL
-----------------------------------------------------------------------------
(* The abstract state changes for the acting call only, and not at all for *)
(* a group run's target.                                                   *)
LEMMA AbstractStep ==
  ASSUME TypeOK, NEW c \in Call, CallStep(c)
  PROVE  /\ AbsEffects' = [AbsEffects EXCEPT ![c] = IF Once(c) THEN served'[c] ELSE 0]
         /\ AbsVerdict' = [AbsVerdict EXCEPT ![c] = IF Once(c) THEN Verdict(told'[c]) ELSE "none"]
         /\ AbsAsked' = IF Once(c) /\ at'[c] # "new" THEN AbsAsked \cup {c} ELSE AbsAsked \ {c}
<1>1. door' = door /\ \A d \in Call \ {c} : at'[d] = at[d] /\ served'[d] = served[d] /\ told'[d] = told[d]
  <2>1. ASSUME NEW d \in Call \ {c}
        PROVE  at'[d] = at[d] /\ served'[d] = served[d] /\ told'[d] = told[d]
    BY Frame DEF Unchanged
  <2>2. door' = door
    BY DEF CallStep, ClientStep, Receive, Resolve, ReadBodyFails, Send, SendFails, GiveUp,
           Answer, KatoServes, KatoServesLate, Retry, Tell
  <2> QED
    BY <2>1, <2>2
<1>2. \A d \in Call : Verdict(told[d])' = Verdict(told'[d])
  BY DEF Verdict, Refusal
<1> QED
  BY <1>1, <1>2 DEF AbsEffects, AbsVerdict, AbsAsked, Once

(* A proxied or chat call is an AtMostOnce: receiving it is Ask, kato's    *)
(* effect, late or not, is Effect, and telling the caller is Conclude.     *)
THEOREM Refinement == Spec => RefinesAtMostOnce
<1>1. Init => O!OnceInit
  BY DEF Init, O!OnceInit, AbsAsked, AbsEffects, AbsVerdict, Verdict, Silence
<1> DEFINE AllTrue == \A c \in Call : ToldTrue(c)
<1>2. IInv => AllTrue
  BY ToldIsTrue DEF IInv
<1>3. IInv /\ IInv' /\ AllTrue /\ AllTrue' /\ [Next]_vars => [O!OnceNext]_(O!onceVars)
  <2> SUFFICES ASSUME IInv, IInv', AllTrue, AllTrue', [Next]_vars
               PROVE  O!OnceNext \/ UNCHANGED <<AbsAsked, AbsEffects, AbsVerdict>>
    BY DEF O!onceVars
  <2>1. CASE UNCHANGED vars
    BY <2>1 DEF vars, AbsAsked, AbsEffects, AbsVerdict, Once, Verdict, Refusal
  <2>2. ASSUME NEW c \in Call, CallStep(c)
        PROVE  O!OnceNext \/ UNCHANGED <<AbsAsked, AbsEffects, AbsVerdict>>
    <3> DEFINE now == Verdict(told[c])
               then == Verdict(told'[c])
    <3>0. /\ TypeOK /\ CallInv(c)
          /\ served[c] \in Nat /\ late[c] \in Nat /\ attempts[c] \in Nat
          /\ served'[c] \in Nat /\ late'[c] \in Nat /\ attempts'[c] \in Nat
      BY RetriesAssumption DEF IInv, TypeOK
    <3>1. /\ served[c] + late[c] <= attempts[c] /\ served'[c] + late'[c] <= attempts'[c]
          /\ wire[c] = Sent => served[c] + late[c] + 1 <= attempts[c]
      <4>1. /\ unsure[c] \in Nat /\ unsure'[c] \in Nat
            /\ LastCounts(c) \in {0, 1} /\ LastCounts(c)' \in {0, 1}
        BY DEF IInv, TypeOK, LastCounts
      <4>2. EffectInv(c) /\ EffectInv(c)'
        BY DEF IInv, CallInv
      <4> QED
        BY <3>0, <4>1, <4>2 DEF EffectInv, Pending
    <3>2. /\ AbsEffects' = [AbsEffects EXCEPT ![c] = IF Once(c) THEN served'[c] ELSE 0]
          /\ AbsVerdict' = [AbsVerdict EXCEPT ![c] = IF Once(c) THEN then ELSE "none"]
          /\ AbsAsked' = IF Once(c) /\ at'[c] # "new" THEN AbsAsked \cup {c} ELSE AbsAsked \ {c}
      BY <2>2, <3>0, AbstractStep
    <3>3. CASE ~Once(c)
      <4>1. /\ AbsEffects[c] = 0 /\ AbsVerdict[c] = "none" /\ c \notin AbsAsked
            /\ AbsEffects = [e \in Call |-> AbsEffects[e]]
            /\ AbsVerdict = [e \in Call |-> AbsVerdict[e]]
        BY <3>3 DEF AbsEffects, AbsVerdict, AbsAsked
      <4>2. /\ AbsEffects' = [AbsEffects EXCEPT ![c] = 0]
            /\ AbsVerdict' = [AbsVerdict EXCEPT ![c] = "none"]
            /\ AbsAsked' = AbsAsked \ {c}
        BY <3>2, <3>3
      <4> QED
        BY <4>1, <4>2
    <3>4. CASE Once(c)
      <4>0. /\ AbsEffects[c] = served[c] /\ AbsVerdict[c] = now
            /\ c \in AbsAsked <=> at[c] # "new"
            /\ attempts[c] <= 1
        BY <3>0, <3>4 DEF AbsEffects, AbsVerdict, AbsAsked, CallInv, ControlInv
      <4>same. ASSUME served'[c] = served[c], told' = told, at[c] # "new", at'[c] # "new"
               PROVE  UNCHANGED <<AbsAsked, AbsEffects, AbsVerdict>>
        <5>1. AbsEffects = [AbsEffects EXCEPT ![c] = AbsEffects[c]]
          BY DEF AbsEffects
        <5>2. AbsVerdict = [AbsVerdict EXCEPT ![c] = AbsVerdict[c]]
          BY DEF AbsVerdict
        <5>3. AbsEffects' = AbsEffects
          BY <3>2, <3>4, <4>0, <4>same, <5>1
        <5>4. AbsVerdict' = AbsVerdict
          BY <3>2, <3>4, <4>0, <4>same, <5>2
        <5>5. AbsAsked' = AbsAsked
          BY <3>2, <3>4, <4>0, <4>same
        <5> QED
          BY <5>3, <5>4, <5>5
      <4>1. CASE Receive(c)
        <5>1. at[c] = "new" /\ at'[c] = "received" /\ served' = served /\ told' = told
          BY <3>0, <4>1 DEF Receive, TypeOK
        <5>2. O!Ask(c)
          BY <3>2, <3>4, <4>0, <5>1 DEF O!Ask, AbsEffects, AbsVerdict
        <5> QED
          BY <5>2 DEF O!OnceNext
      <4>2. CASE KatoServes(c) \/ KatoServesLate(c)
        <5>1. PICK effect \in {0, 1} : served'[c] = served[c] + effect
          BY <3>0, <4>2 DEF KatoServes, KatoServesLate, TypeOK
        <5>2. at' = at /\ told' = told /\ (wire[c] = Sent \/ late[c] > 0)
          BY <4>2 DEF KatoServes, KatoServesLate
        <5>3. at[c] # "new" /\ served[c] = 0
          <6>1. served[c] = 0
            BY <3>0, <3>1, <4>0, <5>2
          <6>2. attempts[c] # 0
            BY <3>0, <3>1, <5>2
          <6> QED
            BY <3>0, <6>1, <6>2 DEF CallInv, ControlInv
        <5>4. CASE effect = 0
          <6>1. served'[c] = served[c]
            BY <3>0, <5>1, <5>4
          <6> QED
            BY <4>same, <5>2, <5>3, <6>1
        <5>5. CASE effect = 1
          <6>1. now \in {"none", "open"}
            <7>1. Pending(c) >= 1
              BY <3>0, <5>2 DEF Pending
            <7>2. now # "refused"
              BY <3>0, <4>0, <5>3, <7>1 DEF ToldTrue, Pending
            <7> QED
              BY <4>0, <5>3, <7>2 DEF ToldTrue
          <6>2. O!Effect(c)
            <7>1. served'[c] = 1
              BY <5>1, <5>3, <5>5
            <7>2. AbsVerdict' = AbsVerdict /\ AbsAsked' = AbsAsked
              BY <3>2, <3>4, <4>0, <5>2, <5>3 DEF AbsVerdict
            <7> QED
              BY <3>2, <3>4, <4>0, <5>3, <6>1, <7>1, <7>2 DEF O!Effect
          <6> QED
            BY <6>2 DEF O!OnceNext
        <5> QED
          BY <5>4, <5>5
      <4>3. CASE Resolve(c) \/ Tell(c)
        <5>1. at[c] # "new" /\ at[c] # "over" /\ at'[c] # "new" /\ served' = served /\ late' = late
          BY <3>0, <4>3 DEF Resolve, Tell, TypeOK
        <5>2. now = "none"
          BY <5>1 DEF ToldTrue
        <5>3. CASE at'[c] = "over"
          <6>1. /\ then = "happened" => served[c] >= 1
                /\ then = "refused" => served[c] = 0
                /\ then \in {"happened", "refused", "open"}
            <7>1. attempts' = attempts
              BY <4>3 DEF Resolve, Tell
            <7>2. ToldTrue(c)'
              OBVIOUS
            <7>3. Pending(c)' \in Nat
              BY <3>0 DEF Pending
            <7>4. then = "refused" => served'[c] + Pending(c)' <= 0
              BY <3>0, <4>0, <7>1, <7>2 DEF ToldTrue, Verdict, Refusal
            <7>5. served[c] = served'[c]
              BY <5>1
            <7> QED
              BY <3>0, <5>3, <7>2, <7>3, <7>4, <7>5 DEF ToldTrue, Verdict, Refusal
          <6>2. served[c] <= 1
            BY <3>0, <3>1, <4>0
          <6>3. O!Conclude(c)
            <7>1. AbsEffects' = AbsEffects /\ AbsAsked' = AbsAsked
              BY <3>2, <3>4, <4>0, <5>1 DEF AbsEffects
            <7>2. served[c] \in {0, 1} /\ (then = "happened" => served[c] = 1)
              BY <3>0, <6>1, <6>2
            <7> QED
              BY <3>2, <3>4, <4>0, <5>1, <5>2, <6>1, <7>1, <7>2 DEF O!Conclude
          <6> QED
            BY <6>3 DEF O!OnceNext
        <5>4. CASE at'[c] # "over"
          <6>1. told' = told
            BY <3>0, <4>3, <5>4 DEF Resolve, Tell, TypeOK
          <6> QED
            BY <4>same, <5>1, <6>1
        <5> QED
          BY <5>3, <5>4
      <4>4. CASE ReadBodyFails(c) \/ ClientStep(c) \/ Retry(c)
        <5>1. at[c] # "new" /\ at'[c] # "new" /\ served' = served /\ told' = told
          BY <3>0, <4>4
          DEF ReadBodyFails, ClientStep, Send, SendFails, GiveUp, Answer, Retry, TypeOK
        <5> QED
          BY <4>same, <5>1
      <4> QED
        BY <2>2, <4>1, <4>2, <4>3, <4>4 DEF CallStep
    <3> QED
      BY <3>3, <3>4
  <2> QED
    BY <2>1, <2>2 DEF Next, CallStep
<1> QED
  BY <1>1, <1>2, <1>3, Inductive, PTL DEF Spec, RefinesAtMostOnce, O!OnceSpec
=============================================================================
