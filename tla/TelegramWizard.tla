--------------------------- MODULE TelegramWizard ---------------------------
(***************************************************************************)
(* The Telegram adapter's input wizard: dispatch.go (handleMessage,        *)
(* handleCallback, submit), render.go, and core.Handle for PickUseCase and *)
(* SubmitForm, over the store of TelegramSessions.                         *)
(*                                                                         *)
(* go-telegram/bot dispatches every update on a goroutine of its own, so   *)
(* the handlers of one user's messages overlap.  A handler is a sequence   *)
(* of steps, each one store operation or one call to Telegram or kato; it  *)
(* keeps what it read (job) from one step to the next.  An accepted run    *)
(* goes on in the goroutine submit starts; the model lets the handler's    *)
(* process go on as that goroutine.                                        *)
(*                                                                         *)
(* The messages of an earlier process stay in the chat, and their buttons  *)
(* work, though its sessions are gone.                                     *)
(***************************************************************************)
EXTENDS TelegramSessions, FiniteSets

CONSTANTS
  Goroutine,      \* handlers and runs in progress
  Required,       \* UseCase -> the contract's required inputs
  MaxConcurrent,  \* capacity of Adapter.sem
  MaxUpdates,     \* bound on the updates users send
  OldScreens,     \* what messages of an earlier process may show
  Unreliable      \* whether calls to Telegram may fail

ASSUME RequiredAssumption == Required \in [UseCase -> SUBSET Input]
ASSUME SemAssumption == MaxConcurrent \in Nat \ {0} /\ Unreliable \in BOOLEAN
ASSUME GoroutineAssumption == IsFiniteSet(Goroutine)
ASSUME ScreensAssumption == OldScreens \subseteq {"none", "clusters", "picker", "confirm"}

VARIABLES
  at,       \* Goroutine -> where its handler is
  job,      \* Goroutine -> the handler's locals
  sem,      \* number of slots taken in Adapter.sem
  shown,    \* Message -> what the chat shows in it
  updates   \* updates sent so far

vars == <<sessVars, at, job, sem, shown, updates>>

Places == {"idle", "texted", "cancelling", "ending", "listing", "confirming",
           "starting", "picked", "contract",
           "validate", "fail", "announce", "gate", "close", "run", "result",
           "edit", "release"}

(* What a message shows: the cluster picker, a cluster's use cases and     *)
(* groups, a group to confirm, ...; input for a prompt, usecase for a Run  *)
(* button, err when the text carries the form error.                       *)
Displays == {"none", "clusters", "picker", "confirm", "prompt", "button", "running", "result",
             "error", "cancelled"}
Show(what) == [what |-> what, input |-> NoInput, usecase |-> "none", err |-> FALSE]

-----------------------------------------------------------------------------
(* missingRequired and requiredMissing, which agree. *)
missingRequired(uc, have) == {i \in Required[uc] : have[i] = Blank}

(* Users, messages and use cases are symmetric; a fresh handler's locals. *)
Fresh(u) == [usecase |-> "none", user |-> u, msg |-> NoMessage,
             inputs |-> NoInputs, show |-> Show("none"), slot |-> FALSE,
             expired |-> FALSE, rejected |-> FALSE]

Init ==
  /\ \E old \in [Message -> OldScreens] : shown = [m \in Message |-> Show(old[m])]
  /\ SessInit
  /\ at = [h \in Goroutine |-> "idle"]
  /\ job = [h \in Goroutine |-> Fresh("none")]
  /\ sem = 0
  /\ updates = 0

-----------------------------------------------------------------------------
(* Updates: onUpdate starts a handler *)

Arrive(h, place, locals) ==
  /\ at[h] = "idle"
  /\ updates < MaxUpdates
  /\ updates' = updates + 1
  /\ at' = [at EXCEPT ![h] = place]
  /\ job' = [job EXCEPT ![h] = locals]
  /\ UNCHANGED <<sessVars, sem, shown>>

(* A text message; the value typed is u's, or blank. *)
UserTexts(h, u) ==
  \E value \in {u, Blank} :
    Arrive(h, "texted", [Fresh(u) EXCEPT !.inputs = [i \in Input |-> value]])

UserCancels(h, u) == Arrive(h, "cancelling", Fresh(u))

(* A tap on a cluster, on a group, and on a group's Run button. *)
UserTaps(h, u, m) ==
  \E tap \in {<<"clusters", "listing">>, <<"picker", "confirming">>, <<"confirm", "starting">>} :
    /\ shown[m].what = tap[1]
    /\ Arrive(h, tap[2], [Fresh(u) EXCEPT !.msg = m])

(* A tap on a use case in a picker. *)
UserPicks(h, u, m, uc) ==
  /\ shown[m].what = "picker"
  /\ Arrive(h, "picked", [Fresh(u) EXCEPT !.msg = m, !.usecase = uc])

(* A tap on a Run button: SubmitForm with empty inputs. *)
UserRuns(h, u, m) ==
  /\ shown[m].what = "button"
  /\ Arrive(h, "validate", [Fresh(u) EXCEPT !.msg = m, !.usecase = shown[m].usecase])

-----------------------------------------------------------------------------
(* Rendering *)

Goto(h, place) == at' = [at EXCEPT ![h] = place]

(* The Telegram call that follows a store operation is a step of its own. *)
ThenEdit(h, display) ==
  /\ Goto(h, "edit")
  /\ job' = [job EXCEPT ![h].show = display]

(* RenderForm: record what is awaited and prompt for it; with nothing      *)
(* missing show a Run button, which has no room for formErr.               *)
RenderForm(h, have, formErr, locals) ==
  LET m == locals.msg
      missing == missingRequired(locals.usecase, have)
      first == CHOOSE i \in missing : \A j \in missing : i <= j
      next == IF missing = {} THEN NoInput ELSE first
      display == IF missing = {}
                 THEN [Show("button") EXCEPT !.usecase = locals.usecase]
                 ELSE [Show("prompt") EXCEPT !.input = next, !.err = formErr]
  IN  /\ update(m, have, next)
      /\ Goto(h, "edit")
      /\ job' = [job EXCEPT ![h] = [locals EXCEPT !.show = display]]

(* Mutant: a rejected run's goroutine forgets its slot. *)
EditMessageLeaking(h) ==
  LET release == job[h].slot /\ ~job[h].rejected
  IN  /\ at[h] = "edit"
      /\ \/ /\ ~job[h].expired
            /\ shown' = [shown EXCEPT ![job[h].msg] = job[h].show]
         \/ /\ Unreliable \/ job[h].expired
            /\ shown' = shown
      /\ Goto(h, IF release THEN "release" ELSE "idle")
      /\ job' = IF release THEN job ELSE [job EXCEPT ![h] = Fresh("none")]
      /\ UNCHANGED <<sessVars, sem, updates>>

(* The edit itself.  It fails when its context has expired, and may fail   *)
(* when Telegram does; a failed edit is only logged.                       *)
EditMessage(h) ==
  /\ at[h] = "edit"
  /\ \/ /\ ~job[h].expired
        /\ shown' = [shown EXCEPT ![job[h].msg] = job[h].show]
     \/ /\ Unreliable \/ job[h].expired
        /\ shown' = shown
  /\ Goto(h, IF job[h].slot THEN "release" ELSE "idle")
  /\ job' = IF job[h].slot THEN job ELSE [job EXCEPT ![h] = Fresh("none")]
  /\ UNCHANGED <<sessVars, sem, updates>>

(* RenderError ends the wizard, then edits. *)
RenderError(h) ==
  /\ at[h] = "fail"
  /\ end(job[h].msg)
  /\ ThenEdit(h, Show("error"))
  /\ UNCHANGED <<sem, shown, updates>>

-----------------------------------------------------------------------------
(* handleMessage *)

(* An awaited reply: snapshot the wizard and add the value. *)
TakeReply(h) ==
  LET u == job[h].user
      p == byM[byU[u]]
  IN  /\ at[h] = "texted"
      /\ AwaitsReply(u)
      /\ Goto(h, "validate")
      /\ job' = [job EXCEPT ![h].msg = byU[u], ![h].usecase = p.usecase,
                   ![h].inputs = [p.collected EXCEPT ![p.next] = job[h].inputs[p.next]]]
      /\ UNCHANGED <<sessVars, sem, shown, updates>>

(* Not a reply: a new cluster picker, or nothing when the text does not start a    *)
(* flow or the picker could not be sent.                                   *)
StartFlow(h) ==
  /\ at[h] = "texted"
  /\ ~AwaitsReply(job[h].user)
  /\ \/ \E m \in Message :
          /\ shown[m].what = "none"
          /\ shown' = [shown EXCEPT ![m] = Show("clusters")]
     \/ shown' = shown
  /\ Goto(h, "idle")
  /\ job' = [job EXCEPT ![h] = Fresh("none")]
  /\ UNCHANGED <<sessVars, sem, updates>>

(* /cancel, byUser: the message the index holds, whosever wizard is there. *)
FindCancelled(h) ==
  LET m == byU[job[h].user]
  IN  /\ at[h] = "cancelling"
      /\ Goto(h, IF m = NoMessage THEN "idle" ELSE "ending")
      /\ job' = [job EXCEPT ![h] = IF m = NoMessage THEN Fresh("none")
                                   ELSE [@ EXCEPT !.msg = m]]
      /\ UNCHANGED <<sessVars, sem, shown, updates>>

EndCancelled(h) ==
  /\ at[h] = "ending"
  /\ end(job[h].msg)
  /\ ThenEdit(h, Show("cancelled"))
  /\ UNCHANGED <<sem, shown, updates>>

-----------------------------------------------------------------------------
(* handleCallback *)

(* core's PickCluster: ListUseCases and the registered groups, or an error; *)
(* PickGroup: a group's confirmation, or a group that is gone.  Neither    *)
(* looks at the wizard the message may have meanwhile.                     *)
PickCluster(h) ==
  /\ at[h] = "listing"
  /\ ThenEdit(h, Show("picker")) \/ (Goto(h, "fail") /\ job' = job)
  /\ UNCHANGED <<sessVars, sem, shown, updates>>

PickGroup(h) ==
  /\ at[h] = "confirming"
  /\ ThenEdit(h, Show("confirm")) \/ (Goto(h, "fail") /\ job' = job)
  /\ UNCHANGED <<sessVars, sem, shown, updates>>

(* RunGroup: the run goes on as ChatGroupRun has it and leaves the message *)
(* alone, or the group is gone or already running.                         *)
RunGroup(h) ==
  /\ at[h] = "starting"
  /\ \/ Goto(h, "idle") /\ job' = [job EXCEPT ![h] = Fresh("none")]
     \/ Goto(h, "fail") /\ job' = job
  /\ UNCHANGED <<sessVars, sem, shown, updates>>

Begin(h) ==
  /\ at[h] = "picked"
  /\ begin(job[h].msg, job[h].user, job[h].usecase)
  /\ Goto(h, "contract")
  /\ UNCHANGED <<job, sem, shown, updates>>

(* core: GetUseCase, then the form with nothing filled in. *)
PickUseCase(h) ==
  /\ at[h] = "contract"
  /\ \/ RenderForm(h, NoInputs, FALSE, job[h])
     \/ Goto(h, "fail") /\ UNCHANGED <<sessVars, job>>
  /\ UNCHANGED <<sem, shown, updates>>

-----------------------------------------------------------------------------
(* submit *)

(* Mutant: the form is not checked. *)
SubmitFormUnchecked(h) ==
  /\ at[h] = "validate"
  /\ Goto(h, "announce")
  /\ UNCHANGED <<sessVars, job, sem, shown, updates>>

(* core: GetUseCase and missingRequired. *)
SubmitForm(h) ==
  /\ at[h] = "validate"
  /\ \/ Goto(h, "fail") /\ UNCHANGED <<sessVars, job>>
     \/ /\ missingRequired(job[h].usecase, job[h].inputs) # {}
        /\ RenderForm(h, job[h].inputs, TRUE, job[h])
     \/ /\ missingRequired(job[h].usecase, job[h].inputs) = {}
        /\ Goto(h, "announce") /\ UNCHANGED <<sessVars, job>>
  /\ UNCHANGED <<sem, shown, updates>>

(* RenderRunning; its error ends the handler. *)
RenderRunning(h) ==
  /\ at[h] = "announce"
  /\ \/ /\ shown' = [shown EXCEPT ![job[h].msg] = Show("running")]
        /\ Goto(h, "gate") /\ job' = job
     \/ /\ Unreliable /\ shown' = shown
        /\ Goto(h, "idle") /\ job' = [job EXCEPT ![h] = Fresh("none")]
  /\ UNCHANGED <<sessVars, sem, updates>>

(* The semaphore, without blocking: a slot, or the busy error. *)
TakeSlot(h) ==
  /\ at[h] = "gate"
  /\ sem < MaxConcurrent
  /\ sem' = sem + 1
  /\ job' = [job EXCEPT ![h].slot = TRUE]
  /\ Goto(h, "close")
  /\ UNCHANGED <<sessVars, shown, updates>>

(* Mutant: the busy path gives back a slot it never got. *)
BusyReleasing(h) ==
  /\ at[h] = "gate"
  /\ sem = MaxConcurrent
  /\ end(job[h].msg)
  /\ Goto(h, "fail")
  /\ sem' = sem - 1
  /\ UNCHANGED <<job, shown, updates>>

Busy(h) ==
  /\ at[h] = "gate"
  /\ sem = MaxConcurrent
  /\ end(job[h].msg)
  /\ Goto(h, "fail")
  /\ UNCHANGED <<job, sem, shown, updates>>

(* Close the wizard's input window; then the run starts. *)
CloseInput(h) ==
  /\ at[h] = "close"
  /\ update(job[h].msg, job[h].inputs, NoInput)
  /\ Goto(h, "run")
  /\ UNCHANGED <<job, sem, shown, updates>>

(* Mutant: a 400 runs again with the same inputs. *)
KatoReturnsRetrying(h) ==
  /\ at[h] = "run"
  /\ \/ Goto(h, "result") /\ UNCHANGED <<sessVars, job>>
     \/ Goto(h, "close") /\ UNCHANGED <<sessVars, job>>
  /\ UNCHANGED <<sem, shown, updates>>

(* The deferred run: kc.Run returns a result or an error that is rendered  *)
(* as one, or RunTimeout passes, after which the context is no use to the  *)
(* renderer either; a 400 goes back to the form.                           *)
KatoReturns(h) ==
  /\ at[h] = "run"
  /\ \/ Goto(h, "result") /\ UNCHANGED <<sessVars, job>>
     \/ /\ Goto(h, "result")
        /\ job' = [job EXCEPT ![h].expired = TRUE]
        /\ UNCHANGED sessVars
     \/ RenderForm(h, job[h].inputs, TRUE, [job[h] EXCEPT !.rejected = TRUE])
  /\ UNCHANGED <<sem, shown, updates>>

RenderResult(h) ==
  /\ at[h] = "result"
  /\ end(job[h].msg)
  /\ ThenEdit(h, Show("result"))
  /\ UNCHANGED <<sem, shown, updates>>

ReleaseSlot(h) ==
  /\ at[h] = "release"
  /\ sem' = sem - 1
  /\ Goto(h, "idle")
  /\ job' = [job EXCEPT ![h] = Fresh("none")]
  /\ UNCHANGED <<sessVars, shown, updates>>

(* The sweeper drops a wizard whose deadline has passed. *)
Sweep(m) ==
  /\ sweep(m)
  /\ UNCHANGED <<at, job, sem, shown, updates>>

-----------------------------------------------------------------------------
UserStep(h) ==
  \E u \in User :
    \/ UserTexts(h, u)
    \/ UserCancels(h, u)
    \/ \E m \in Message : UserTaps(h, u, m)
    \/ \E m \in Message, uc \in UseCase : UserPicks(h, u, m, uc)
    \/ \E m \in Message : UserRuns(h, u, m)

HandlerStep(h) ==
  \/ TakeReply(h) \/ StartFlow(h) \/ FindCancelled(h) \/ EndCancelled(h)
  \/ PickCluster(h) \/ PickGroup(h) \/ RunGroup(h)
  \/ Begin(h) \/ PickUseCase(h) \/ SubmitForm(h) \/ RenderRunning(h)
  \/ TakeSlot(h) \/ Busy(h) \/ CloseInput(h)
  \/ KatoReturns(h) \/ RenderResult(h) \/ RenderError(h) \/ EditMessage(h)
  \/ ReleaseSlot(h)

Next ==
  \/ \E h \in Goroutine : UserStep(h) \/ HandlerStep(h)
  \/ \E m \in Message : Sweep(m)

Spec == Init /\ [][Next]_vars

(* Handlers are scheduled; calls to Telegram and kato end, by their        *)
(* clients' timeouts and RunTimeout.                                       *)
FairSpec == Spec /\ \A h \in Goroutine : WF_vars(HandlerStep(h))

-----------------------------------------------------------------------------
(* Properties *)

MaybeUseCase == UseCase \cup {"none"}
Display == [what : Displays, input : Input \cup {NoInput}, usecase : MaybeUseCase,
            err : BOOLEAN]
Job == [usecase : MaybeUseCase, user : User \cup {"none"},
        msg : Message \cup {NoMessage}, inputs : [Input -> Value], show : Display,
        slot : BOOLEAN, expired : BOOLEAN, rejected : BOOLEAN]

TypeOK ==
  /\ SessTypeOK
  /\ at \in [Goroutine -> Places]
  /\ job \in [Goroutine -> Job]
  /\ sem \in 0 .. MaxConcurrent
  /\ shown \in [Message -> Display]
  /\ updates \in Nat

(* Kato is only ever asked to run with every required input filled in,     *)
(* whatever happened to the wizard since they were checked.                *)
RunsAreComplete ==
  \A h \in Goroutine : at[h] \in {"close", "run"} =>
    missingRequired(job[h].usecase, job[h].inputs) = {}

(* The semaphore counts the runs that hold a slot, at most MaxConcurrent:  *)
(* no path of a run forgets to give its slot back or gives it back twice.  *)
SlotsAreCounted ==
  /\ sem = Cardinality({h \in Goroutine : job[h].slot})
  /\ \A h \in Goroutine : at[h] \in {"close", "run", "result", "release"} => job[h].slot

(* Every update is handled to the end, and a run's slot given back. *)
HandlersFinish == \A h \in Goroutine : at[h] # "idle" ~> at[h] = "idle"

-----------------------------------------------------------------------------
(* What the comments and documents say, and the code does not do.  TLC     *)
(* refutes each of these; NoDoubleSubmit is a run of its own.              *)

(* dispatch.go: once a form is complete and running, "a stray text must    *)
(* not be read as another input (which would double-submit)".              *)
NoDoubleSubmit ==
  \A g, h \in Goroutine :
    at[g] = "run" /\ at[h] = "run" /\ job[g].msg = job[h].msg => g = h

(* session.go, replyContext: a snapshot of the active wizard for           *)
(* (chat,user): a user's reply only ever fills in that user's wizard.      *)
RepliesFillOwnWizard ==
  \A u \in User : AwaitsReply(u) => byM[byU[u]].user = u

(* design: a kato 400 re-enters the form and "the wizard re-prompts with   *)
(* the error".                                                             *)
RejectionIsShown ==
  \A h \in Goroutine : at[h] = "edit" /\ job[h].rejected => job[h].show.err

(* ARCHITECTURE: a timeout is reported as "couldn't reach kato": no        *)
(* message says running once nothing runs for it.                          *)
RunningIsTrue ==
  \A m \in Message : shown[m].what = "running" =>
    \E h \in Goroutine : at[h] # "idle" /\ job[h].msg = m

(* session.go: next is "the input currently being prompted".               *)
PromptIsNext ==
  (\A h \in Goroutine : at[h] = "idle") =>
    \A m \in Message :
      byM[m] # NoSession /\ shown[m].what = "prompt" => byM[m].next = shown[m].input
=============================================================================
