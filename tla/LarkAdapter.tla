---------------------------- MODULE LarkAdapter ----------------------------
(***************************************************************************)
(* The Lark adapter (internal/platform/lark): message events that post a   *)
(* picker card, and card actions whose answer repaints the clicked card,   *)
(* with validated runs going on in a goroutine that patches the card when  *)
(* kato is done (dispatch.go Start, cardaction.go handleCardAction, and    *)
(* core.Handle behind them).                                               *)
(*                                                                         *)
(* Lark is external: it delivers an event at least once, so any event      *)
(* again at any later time, and it paints the card in a callback's         *)
(* response some time after the handler returned it.  The server keeps no  *)
(* state per card; what a card shows is all there is.                      *)
(*                                                                         *)
(* The flow is clusters, use cases and groups (picker), then a form and    *)
(* its run, or a group's confirmation and its start; what a started group  *)
(* does is ChatGroupRun.                                                   *)
(***************************************************************************)
EXTENDS Dedup, FiniteSets, TLC

CONSTANTS
  Card,            \* the bot's cards
  OldCards,        \* what cards posted before this process may show
  Goroutine,       \* card-action handlers and the runs they start
  MaxConcurrent,   \* capacity of Adapter.sem
  MaxClicks,       \* bound on clicks
  MaxDeliveries    \* bound on events delivered

ASSUME SemAssumption == MaxConcurrent \in Nat \ {0} /\ IsFiniteSet(Goroutine)
ASSUME BoundAssumption == MaxClicks \in Nat /\ MaxDeliveries \in Nat

VARIABLES
  accepted,    \* history: ids of the message events that were not dropped, in order
  pickers,     \* pickers still to be posted
  shown,       \* Card -> what the card shows
  clicks,      \* the clicks made, in order
  deliveries,  \* events delivered so far
  at,          \* Goroutine -> where it is
  job,         \* Goroutine -> the click it handles and the card it built last
  answer,      \* Goroutine -> the callback response not painted yet
  sem,         \* slots taken in Adapter.sem
  runs,        \* kato runs started for each click
  spoiled      \* history: cards whose last result got lost (see PatchCard, Paint)

messageVars == <<dedupVars, accepted, pickers>>
vars == <<messageVars, shown, clicks, deliveries, at, job, answer, sem, runs, spoiled>>

Displays == {"none", "clusters", "picker", "form", "running", "result",
             "confirm", "started", "error"}
Places == {"idle", "decoded", "gate", "run", "patch", "release"}

Actions == {"pick_cluster", "pick", "pick_group", "run", "run_group"}

(* The button values of the cards that have buttons. *)
Buttons ==
  "clusters" :> {"pick_cluster"} @@ "picker" :> {"pick", "pick_group"} @@
  "form" :> {"run"} @@ "result" :> {"pick"} @@ "confirm" :> {"run_group"}

ASSUME OldCardsAssumption == OldCards \subseteq Displays \ {"running"}

ClickIndex == 1 .. MaxClicks
NoClick == 0

(* Cards outlive the process; the server remembers nothing of them. *)
Init ==
  /\ DedupInit
  /\ accepted = <<>> /\ pickers = 0
  /\ shown \in [Card -> OldCards]
  /\ clicks = <<>> /\ deliveries = 0
  /\ at = [h \in Goroutine |-> "idle"]
  /\ job = [h \in Goroutine |-> [click |-> NoClick, card |-> "none"]]
  /\ answer = [h \in Goroutine |-> "none"]
  /\ sem = 0
  /\ runs = [k \in ClickIndex |-> 0]
  /\ spoiled = {}

CardOf(h) == clicks[job[h].click].card

-----------------------------------------------------------------------------
(* Message events *)

(* A user's message, or the same one again; a duplicate is dropped, but    *)
(* not one without an id.  The handler returns at once and a goroutine     *)
(* posts the picker.                                                       *)
MessageEvent(id) ==
  /\ deliveries < MaxDeliveries
  /\ deliveries' = deliveries + 1
  /\ \/ Duplicate(id) /\ UNCHANGED messageVars
     \/ /\ Accept(id)
        /\ accepted' = IF id = EmptyId THEN accepted ELSE Append(accepted, id)
        /\ pickers' = pickers + 1
  /\ UNCHANGED <<shown, clicks, at, job, answer, sem, runs, spoiled>>

(* ListClusters: the reply becomes a card, or fails and is logged. *)
PostPicker ==
  /\ pickers > 0
  /\ pickers' = pickers - 1
  /\ \/ \E c \in Card :
          shown[c] = "none" /\ shown' = [shown EXCEPT ![c] = "clusters"]
     \/ shown' = shown
  /\ UNCHANGED <<dedupVars, accepted, clicks, deliveries, at, job, answer, sem,
                 runs, spoiled>>

-----------------------------------------------------------------------------
(* Card actions *)

(* One of the buttons a card offers; a form's Run has its inputs filled or *)
(* not.                                                                    *)
Click(c, action, filled) ==
  /\ Len(clicks) < MaxClicks
  /\ shown[c] \in DOMAIN Buttons /\ action \in Buttons[shown[c]]
  /\ filled => action = "run"
  /\ clicks' = Append(clicks, [card |-> c, action |-> action, filled |-> filled])
  /\ UNCHANGED <<messageVars, shown, deliveries, at, job, answer, sem, runs, spoiled>>

(* A card action event reaches the adapter, the first time or again.       *)
CardAction(h, k) ==
  /\ deliveries < MaxDeliveries
  /\ deliveries' = deliveries + 1
  /\ at[h] = "idle" /\ answer[h] = "none"
  /\ at' = [at EXCEPT ![h] = "decoded"]
  /\ job' = [job EXCEPT ![h] = [click |-> k, card |-> "none"]]
  /\ UNCHANGED <<messageVars, shown, clicks, answer, sem, runs, spoiled>>

(* Return card as the callback's response. *)
cardResponse(h, card, place) ==
  /\ answer' = [answer EXCEPT ![h] = card]
  /\ at' = [at EXCEPT ![h] = place]

(* decodeCardAction: the intent is the one named in the clicked button. *)
Decoded(h, action) ==
  /\ at[h] = "decoded"
  /\ clicks[job[h].click].action = action

(* PickCluster: its use cases and groups, or an error when the card names  *)
(* a cluster that is gone, or when kato fails.                             *)
PickCluster(h) ==
  /\ Decoded(h, "pick_cluster")
  /\ \E card \in {"picker", "error"} : cardResponse(h, card, "idle")
  /\ UNCHANGED <<messageVars, shown, clicks, deliveries, job, sem, runs, spoiled>>

(* PickGroup: the confirmation, or an error for a group that is gone. *)
PickGroup(h) ==
  /\ Decoded(h, "pick_group")
  /\ \E card \in {"confirm", "error"} : cardResponse(h, card, "idle")
  /\ UNCHANGED <<messageVars, shown, clicks, deliveries, job, sem, runs, spoiled>>

(* RunGroup, handled before core: started, or refused by the group's gate. *)
RunGroup(h) ==
  /\ Decoded(h, "run_group")
  /\ \E card \in {"started", "error"} : cardResponse(h, card, "idle")
  /\ UNCHANGED <<messageVars, shown, clicks, deliveries, job, sem, runs, spoiled>>

(* PickUseCase: the form, or the error of GetUseCase. *)
PickUseCase(h) ==
  /\ Decoded(h, "pick")
  /\ \E card \in {"form", "error"} : cardResponse(h, card, "idle")
  /\ UNCHANGED <<messageVars, shown, clicks, deliveries, job, sem, runs, spoiled>>

(* SubmitForm: the error of GetUseCase, the form again when inputs are     *)
(* missing, or a deferred run.                                             *)
SubmitForm(h) ==
  /\ Decoded(h, "run")
  /\ \/ cardResponse(h, "error", "idle")
     \/ ~clicks[job[h].click].filled /\ cardResponse(h, "form", "idle")
     \/ /\ clicks[job[h].click].filled
        /\ at' = [at EXCEPT ![h] = "gate"] /\ answer' = answer
  /\ UNCHANGED <<messageVars, shown, clicks, deliveries, job, sem, runs, spoiled>>

(* A slot is free: the run starts and the response says running. *)
StartRun(h) ==
  /\ at[h] = "gate"
  /\ sem < MaxConcurrent
  /\ sem' = sem + 1
  /\ cardResponse(h, "running", "run")
  /\ runs' = [runs EXCEPT ![job[h].click] = @ + 1]
  /\ UNCHANGED <<messageVars, shown, clicks, deliveries, job, spoiled>>

(* Mutant: the card core built is returned although nothing runs. *)
BusyRunning(h) ==
  /\ at[h] = "gate"
  /\ sem = MaxConcurrent
  /\ cardResponse(h, "running", "idle")
  /\ UNCHANGED <<messageVars, shown, clicks, deliveries, job, sem, runs, spoiled>>

(* No slot: the response says kato is busy, not running. *)
Busy(h) ==
  /\ at[h] = "gate"
  /\ sem = MaxConcurrent
  /\ cardResponse(h, "error", "idle")
  /\ UNCHANGED <<messageVars, shown, clicks, deliveries, job, sem, runs, spoiled>>

(* Lark paints a response, or drops it when it came too late for the       *)
(* callback window.  A run's own patch may already be on the card.         *)
Paint(h) ==
  LET overtaken == answer[h] = "running" /\ job[h].card # "none" /\ at[h] # "patch"
  IN  /\ answer[h] # "none"
      /\ \/ /\ shown' = [shown EXCEPT ![CardOf(h)] = answer[h]]
            /\ spoiled' = IF overtaken THEN spoiled \cup {CardOf(h)}
                          ELSE spoiled \ {CardOf(h)}
         \/ UNCHANGED <<shown, spoiled>>
      /\ answer' = [answer EXCEPT ![h] = "none"]
      /\ UNCHANGED <<messageVars, clicks, deliveries, at, job, sem, runs>>

-----------------------------------------------------------------------------
(* The goroutine of a run *)

(* deferred: a result (an error or a timeout included), or kato's 400 and  *)
(* the form again.                                                         *)
KatoReturns(h) ==
  /\ at[h] = "run"
  /\ \E card \in {"result", "form"} : job' = [job EXCEPT ![h].card = card]
  /\ at' = [at EXCEPT ![h] = "patch"]
  /\ UNCHANGED <<messageVars, shown, clicks, deliveries, answer, sem, runs, spoiled>>

(* PatchCard, with a context of its own, so also after a timeout; Lark may *)
(* refuse it, which is only logged.                                        *)
PatchCard(h) ==
  /\ at[h] = "patch"
  /\ \/ /\ shown' = [shown EXCEPT ![CardOf(h)] = job[h].card]
        /\ spoiled' = spoiled \ {CardOf(h)}
     \/ shown' = shown /\ spoiled' = spoiled \cup {CardOf(h)}
  /\ at' = [at EXCEPT ![h] = "release"]
  /\ UNCHANGED <<messageVars, clicks, deliveries, job, answer, sem, runs>>

(* Mutant: the slot of a run sent back to the form is kept. *)
ReleaseResultOnly(h) ==
  /\ at[h] = "release"
  /\ sem' = IF job[h].card = "result" THEN sem - 1 ELSE sem
  /\ at' = [at EXCEPT ![h] = "idle"]
  /\ UNCHANGED <<messageVars, shown, clicks, deliveries, job, answer, runs, spoiled>>

(* defer func() { <-a.runSem() }() *)
Release(h) ==
  /\ at[h] = "release"
  /\ sem' = sem - 1
  /\ at' = [at EXCEPT ![h] = "idle"]
  /\ UNCHANGED <<messageVars, shown, clicks, deliveries, job, answer, runs, spoiled>>

-----------------------------------------------------------------------------
GoroutineStep(h) ==
  \/ PickCluster(h) \/ PickGroup(h) \/ RunGroup(h) \/ PickUseCase(h)
  \/ SubmitForm(h) \/ StartRun(h) \/ Busy(h)
  \/ KatoReturns(h) \/ PatchCard(h) \/ Release(h)

Next ==
  \/ \E id \in Id \cup {EmptyId} : MessageEvent(id)
  \/ PostPicker
  \/ \E c \in Card, action \in Actions, filled \in BOOLEAN :
       Click(c, action, filled)
  \/ \E h \in Goroutine, k \in 1 .. Len(clicks) : CardAction(h, k)
  \/ \E h \in Goroutine : GoroutineStep(h) \/ Paint(h)

Spec == Init /\ [][Next]_vars

(* Goroutines are scheduled; kato and Lark calls end by their timeouts;    *)
(* Lark paints or drops a response.                                        *)
FairSpec ==
  /\ Spec
  /\ \A h \in Goroutine : WF_vars(GoroutineStep(h)) /\ WF_vars(Paint(h))

-----------------------------------------------------------------------------
(* Properties *)

TypeOK ==
  /\ DedupOK
  /\ accepted \in Seq(Id) /\ pickers \in 0 .. deliveries
  /\ shown \in [Card -> Displays]
  /\ clicks \in Seq([card : Card, action : Actions, filled : BOOLEAN])
  /\ Len(clicks) <= MaxClicks /\ deliveries \in 0 .. MaxDeliveries
  /\ at \in [Goroutine -> Places]
  /\ job \in [Goroutine -> [click : ClickIndex \cup {NoClick}, card : Displays]]
  /\ answer \in [Goroutine -> Displays]
  /\ sem \in 0 .. MaxConcurrent
  /\ runs \in [ClickIndex -> Nat]
  /\ spoiled \subseteq Card

(* A redelivered message gets a second picker only once dedupCap other     *)
(* messages were answered after it: among the messages that have an id,    *)
(* any dedupCap + 1 accepted in a row are different, whatever arrives      *)
(* without one in between.                                                 *)
PickersApart ==
  \A i, j \in 1 .. Len(accepted) :
    i < j /\ accepted[i] = accepted[j] => j - i > dedupCap

(* The semaphore counts the runs in progress, whatever kato answers and    *)
(* whatever becomes of the patch.                                          *)
SlotsAreCounted ==
  sem = Cardinality({h \in Goroutine : at[h] \in {"run", "patch", "release"}})

(* A card that says running gets a result, or the form back: an over-cap   *)
(* submit says busy "rather than a running card that never resolves", and  *)
(* a run's result "must still reach the card".  Excused is a card whose    *)
(* last result is lost, its patch refused by Lark or painted over by the   *)
(* late response, until something newer is on the card.                    *)
RunningResolves ==
  \A c \in Card : shown[c] = "running" ~> shown[c] # "running" \/ c \in spoiled

-----------------------------------------------------------------------------
(* ARCHITECTURE: card actions need no dedup because handling one again is  *)
(* an idempotent repainting of the same card: a click starts at most one   *)
(* run, however often its event is delivered.                              *)
OneRunPerClick == \A k \in ClickIndex : runs[k] <= 1
=============================================================================
