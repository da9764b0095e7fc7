----------------------------- MODULE KatoCalls -----------------------------
(***************************************************************************)
(* A call to kato from end to end: who makes it (the REST proxy of         *)
(* internal/api, an MCP tool of internal/mcp, a chat through core.Handle,  *)
(* one target of a group run), the gateway's or registry's lookup, the     *)
(* HTTP client of internal/kato, kato, and what the caller is told.        *)
(*                                                                         *)
(* kato is reached over a network: a request may be refused before it is   *)
(* sent, the client may give up while kato still works on it, or lose the  *)
(* answer.  A request that was given up on can still be served later.      *)
(* Bodies are abstracted to whether they could be read and understood.     *)
(***************************************************************************)
EXTENDS Integers

CONSTANTS
  Call,         \* calls that are made
  Cluster,      \* cluster names callers use
  Registered,   \* the configured ones
  MaxRetries    \* GroupRunner.MaxRetries

ASSUME RegisteredAssumption == Registered \subseteq Cluster
ASSUME RetriesAssumption == MaxRetries \in Nat

(* Who calls.  A proxied answer is relayed as it is; the others decode it. *)
Door == {"rest", "mcp", "chat", "group"}
Proxied == {"rest", "mcp"}

(* kato's answers: done; bad request, busy (kato refused to start); an     *)
(* internal error, which may come before or after the work.                *)
Status == {200, 400, 429, 500}
Refusal(s) == 400 <= s /\ s < 500

VARIABLES
  at,        \* Call -> where the call is
  door,      \* Call -> who makes it
  cluster,   \* Call -> the cluster it names
  attempts,  \* Call -> requests made so far
  wire,      \* Call -> the current exchange: "none", "sent", or kato's answer
  late,      \* Call -> requests given up on that kato may still serve
  served,    \* Call -> how often kato did what was asked
  result,    \* Call -> what the client returned for the last attempt
  told,      \* Call -> what the caller is told
  unsure     \* history: Call -> requests that ended without kato's word on them

vars == <<at, door, cluster, attempts, wire, late, served, result, told, unsure>>

Places == {"new", "received", "ready", "waiting", "returned", "over"}

(* Nothing on the wire, a request, or an answer's status. *)
Nothing == 0
Sent == 1

(* What the client returns: a body, an *APIError with kato's status, or an *)
(* error without a status, from the transport or from decoding a body.     *)
NoResult == [kind |-> "none", status |-> 0]
Body == [kind |-> "body", status |-> 200]
APIError(s) == [kind |-> "api", status |-> s]
PlainError == [kind |-> "plain", status |-> 0]
DecodeError == [kind |-> "garbled", status |-> 0]
Results == {NoResult, Body, PlainError, DecodeError} \cup {APIError(s) : s \in Status \ {200}}

(* Kato's word on a request: it was done, or was refused and will not be.  *)
Decided(r) == r.kind = "body" \/ (r.kind = "api" /\ Refusal(r.status))

(* What a caller sees; status is the HTTP status for a REST caller. *)
Told == [kind : {"none", "result", "unknown", "error", "unreachable"},
         status : Status \cup {0, 404, 502}]
Silence == [kind |-> "none", status |-> 0]

Init ==
  /\ at = [c \in Call |-> "new"]
  /\ door \in [Call -> Door]
  /\ cluster \in [Call -> Cluster]
  /\ attempts = [c \in Call |-> 0]
  /\ wire = [c \in Call |-> Nothing]
  /\ late = [c \in Call |-> 0]
  /\ served = [c \in Call |-> 0]
  /\ result = [c \in Call |-> NoResult]
  /\ told = [c \in Call |-> Silence]
  /\ unsure = [c \in Call |-> 0]

-----------------------------------------------------------------------------
(* The front doors, up to the client *)

Receive(c) ==
  /\ at[c] = "new"
  /\ at' = [at EXCEPT ![c] = "received"]
  /\ UNCHANGED <<door, cluster, attempts, wire, late, served, result, told, unsure>>

(* Gateway.Get or Registry.Get; an unknown cluster is told at once. *)
Resolve(c) ==
  /\ at[c] = "received"
  /\ IF cluster[c] \in Registered
     THEN at' = [at EXCEPT ![c] = "ready"] /\ told' = told
     ELSE /\ at' = [at EXCEPT ![c] = "over"]
          /\ told' = [told EXCEPT ![c] = [kind |-> "unknown", status |-> 404]]
  /\ UNCHANGED <<door, cluster, attempts, wire, late, served, result, unsure>>

(* readBody fails: the body is over maxBodyBytes or breaks off.  The error *)
(* takes the same way as an upstream one.                                  *)
ReadBodyFails(c) ==
  /\ at[c] = "ready" /\ door[c] = "rest"
  /\ at' = [at EXCEPT ![c] = "returned"]
  /\ result' = [result EXCEPT ![c] = PlainError]
  /\ UNCHANGED <<door, cluster, attempts, wire, late, served, told, unsure>>

-----------------------------------------------------------------------------
(* kato.Client.do *)

Send(c) ==
  /\ at[c] = "ready"
  /\ at' = [at EXCEPT ![c] = "waiting"]
  /\ wire' = [wire EXCEPT ![c] = Sent]
  /\ attempts' = [attempts EXCEPT ![c] = @ + 1]
  /\ UNCHANGED <<door, cluster, late, served, result, told, unsure>>

(* The request could not be built or the connection not be made. *)
SendFails(c) ==
  /\ at[c] = "ready"
  /\ at' = [at EXCEPT ![c] = "returned"]
  /\ attempts' = [attempts EXCEPT ![c] = @ + 1]
  /\ result' = [result EXCEPT ![c] = PlainError]
  /\ UNCHANGED <<door, cluster, wire, late, served, told, unsure>>

(* kato serves a request; one it refuses has no effect, one that succeeds  *)
(* has one.                                                                *)
KatoServes(c) ==
  /\ wire[c] = Sent
  /\ \E s \in Status, effect \in {0, 1} :
       /\ s = 200 => effect = 1
       /\ Refusal(s) => effect = 0
       /\ wire' = [wire EXCEPT ![c] = s]
       /\ served' = [served EXCEPT ![c] = @ + effect]
  /\ UNCHANGED <<at, door, cluster, attempts, late, result, told, unsure>>

(* ... and so it does with one nobody waits for any more. *)
KatoServesLate(c) ==
  /\ late[c] > 0
  /\ late' = [late EXCEPT ![c] = @ - 1]
  /\ \E effect \in {0, 1} : served' = [served EXCEPT ![c] = @ + effect]
  /\ UNCHANGED <<at, door, cluster, attempts, wire, result, told, unsure>>

(* The client's timeout, the caller's cancelled context, or a connection   *)
(* that breaks while the answer's header or body is read.                  *)
GiveUp(c) ==
  /\ at[c] = "waiting"
  /\ at' = [at EXCEPT ![c] = "returned"]
  /\ late' = IF wire[c] = Sent THEN [late EXCEPT ![c] = @ + 1] ELSE late
  /\ wire' = [wire EXCEPT ![c] = Nothing]
  /\ result' = [result EXCEPT ![c] = PlainError]
  /\ unsure' = [unsure EXCEPT ![c] = @ + 1]
  /\ UNCHANGED <<door, cluster, attempts, served, told>>

(* The answer was read: 2xx is the body, which the typed methods may fail  *)
(* to decode; the rest is an *APIError.                                    *)
Answer(c) ==
  /\ at[c] = "waiting" /\ wire[c] \in Status
  /\ at' = [at EXCEPT ![c] = "returned"]
  /\ wire' = [wire EXCEPT ![c] = Nothing]
  /\ \E r \in IF wire[c] # 200 THEN {APIError(wire[c])}
              ELSE IF door[c] \in Proxied THEN {Body} ELSE {Body, DecodeError} :
       /\ result' = [result EXCEPT ![c] = r]
       /\ unsure' = IF Decided(r) THEN unsure ELSE [unsure EXCEPT ![c] = @ + 1]
  /\ UNCHANGED <<door, cluster, attempts, late, served, told>>

-----------------------------------------------------------------------------
(* Back to the caller *)

(* retriable: kato's 429 and 5xx, and every error without a status. *)
retriable(r) ==
  r.kind \in {"plain", "garbled"} \/ r.status = 429 \/ r.status >= 500

(* Mutant: the retries are counted after the first two calls. *)
RetryTooOften(c) ==
  /\ at[c] = "returned" /\ door[c] = "group"
  /\ retriable(result[c]) /\ attempts[c] <= MaxRetries + 1
  /\ at' = [at EXCEPT ![c] = "ready"]
  /\ UNCHANGED <<door, cluster, attempts, wire, late, served, result, told, unsure>>

(* Mutant: a success is no reason to stop. *)
RetryDone(c) ==
  /\ at[c] = "returned" /\ door[c] = "group"
  /\ attempts[c] <= MaxRetries
  /\ at' = [at EXCEPT ![c] = "ready"]
  /\ UNCHANGED <<door, cluster, attempts, wire, late, served, result, told, unsure>>

(* Mutant: any door retries. *)
RetryAnyDoor(c) ==
  /\ at[c] = "returned"
  /\ retriable(result[c]) /\ attempts[c] <= MaxRetries
  /\ at' = [at EXCEPT ![c] = "ready"]
  /\ UNCHANGED <<door, cluster, attempts, wire, late, served, result, told, unsure>>

(* GroupRunner.runOne's next attempt. *)
Retry(c) ==
  /\ at[c] = "returned" /\ door[c] = "group"
  /\ retriable(result[c]) /\ attempts[c] <= MaxRetries
  /\ at' = [at EXCEPT ![c] = "ready"]
  /\ UNCHANGED <<door, cluster, attempts, wire, late, served, result, told, unsure>>

(* gateway.Normalize; friendlyKatoError makes the same distinction. *)
Normalize(r) ==
  CASE r.kind = "body" -> [kind |-> "result", status |-> 200]
    [] r.kind = "api" -> [kind |-> "error", status |-> r.status]
    [] OTHER -> [kind |-> "unreachable", status |-> 502]

(* The HTTP answer, the tool result, the chat message or the target's      *)
(* result.  runOne stops at an answer that is final, when its retries are  *)
(* used up, or when the run's context ends.                                *)
Tell(c) ==
  /\ at[c] = "returned"
  /\ at' = [at EXCEPT ![c] = "over"]
  /\ told' = [told EXCEPT ![c] = Normalize(result[c])]
  /\ UNCHANGED <<door, cluster, attempts, wire, late, served, result, unsure>>

ClientStep(c) == Send(c) \/ SendFails(c) \/ GiveUp(c) \/ Answer(c)

Next ==
  \E c \in Call :
    \/ Receive(c) \/ Resolve(c) \/ ReadBodyFails(c) \/ ClientStep(c)
    \/ KatoServes(c) \/ KatoServesLate(c) \/ Retry(c) \/ Tell(c)

Spec == Init /\ [][Next]_vars

-----------------------------------------------------------------------------
(* Properties *)

TypeOK ==
  /\ at \in [Call -> Places]
  /\ door \in [Call -> Door]
  /\ cluster \in [Call -> Cluster]
  /\ attempts \in [Call -> 0 .. MaxRetries + 1]
  /\ wire \in [Call -> {Nothing, Sent} \cup Status]
  /\ late \in [Call -> Nat]
  /\ served \in [Call -> Nat]
  /\ result \in [Call -> Results]
  /\ told \in [Call -> Told]
  /\ unsure \in [Call -> 0 .. MaxRetries + 1]

(* What the caller may conclude, from the status alone as a REST caller    *)
(* has to: 2xx, kato's or the proxy's refusal, or anybody's guess.         *)
Verdict(t) ==
  IF t.kind = "none" THEN "none"
  ELSE IF t.status = 200 THEN "happened"
  ELSE IF Refusal(t.status) THEN "refused" ELSE "open"

(* Everybody but a group run asks once. *)
Once(c) == door[c] # "group"

AbsAsked == {c \in Call : Once(c) /\ at[c] # "new"}
AbsEffects == [c \in Call |-> IF Once(c) THEN served[c] ELSE 0]
AbsVerdict == [c \in Call |-> IF Once(c) THEN Verdict(told[c]) ELSE "none"]

O == INSTANCE AtMostOnce
       WITH asked <- AbsAsked, effects <- AbsEffects, verdict <- AbsVerdict

(* Whatever is lost, late or broken on the way, a proxied or chat call     *)
(* takes effect at most once, a result says that it did, and a 4xx that it *)
(* did not and, late as a request may be served, will not.                 *)
RefinesAtMostOnce == O!OnceSpec

(* A retry never repeats what kato did or refused for certain.  However    *)
(* many requests a target took, kato's effects, those still to come        *)
(* included, are at most one for each request that ended without kato's    *)
(* word on it, a lost or garbled answer or an internal error, and one for  *)
(* the last; a target that ends refused has none for the last.             *)
TargetsBounded ==
  \A c \in Call :
    LET effects == served[c] + late[c] + (IF wire[c] = Sent THEN 1 ELSE 0)
    IN  /\ effects <= 1 + unsure[c]
        /\ effects <= 1 + MaxRetries
        /\ told[c].kind = "result" => served[c] >= 1
        /\ Verdict(told[c]) = "refused" => effects <= unsure[c]

-----------------------------------------------------------------------------
(* What the documents say, and the code does not do; TLC refutes both.     *)

(* group.go: "kato 429/5xx and transport errors are retriable": a target   *)
(* whose complete 2xx answer arrived is not run again.  An answer that     *)
(* cannot be decoded is.                                                   *)
DeliveredIsNotRepeated ==
  \A c \in Call : at[c] \in {"ready", "waiting"} => result[c].kind # "garbled"

(* design of the proxy: 502 is for "kato unreachable / timeout", so kato   *)
(* was at least tried.  A request body over the limit is a 502, too.       *)
UnreachableWasTried ==
  \A c \in Call : told[c].kind = "unreachable" => attempts[c] > 0
=============================================================================
