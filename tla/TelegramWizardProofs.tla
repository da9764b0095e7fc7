------------------------ MODULE TelegramWizardProofs ------------------------
(***************************************************************************)
(* TelegramWizard for every number of users, messages, use cases, handlers *)
(* and run slots: a user has one wizard, kato sees complete forms only,    *)
(* and slots are counted.                                                  *)
(*                                                                         *)
(* A handler's step changes its own program point and locals, the sessions *)
(* through one operation, and one message; each is treated on its own.     *)
(***************************************************************************)
EXTENDS TelegramWizard, FiniteSetTheorems, TLAPS

-----------------------------------------------------------------------------
(* The inductive invariant *)

(* What a Run button carries, on the screen or about to be shown. *)
ButtonOK(display) == display.what = "button" => display.usecase \in UseCase

(* What a handler's locals hold at a place p of its code; the inputs it    *)
(* checked are its own copy.                                               *)
LocalOK(p, j) ==
  /\ p \in {"texted", "cancelling", "picked"} => j.user \in User
  /\ p \notin {"idle", "texted", "cancelling"} => j.msg \in Message
  /\ p \in {"picked", "contract", "validate", "announce", "gate", "close", "run"} =>
       j.usecase \in UseCase
  /\ p \in {"announce", "gate", "close", "run"} => missingRequired(j.usecase, j.inputs) = {}
  /\ j.slot => p \in {"close", "run", "result", "edit", "release"}
  /\ p \in {"close", "run", "result", "release"} => j.slot
  /\ ButtonOK(j.show)

Holders == {h \in Goroutine : job[h].slot}

IInv ==
  /\ TypeOK
  /\ OneWizardPerUser
  /\ \A h \in Goroutine : LocalOK(at[h], job[h])
  /\ \A m \in Message : ButtonOK(shown[m])
  /\ sem = Cardinality(Holders)

-----------------------------------------------------------------------------
(* The session operations *)

SessOK == SessTypeOK /\ OneWizardPerUser

(* A new wizard replaces the one its user had.                             *)
LEMMA BeginKeeps ==
  ASSUME SessOK, NEW m \in Message, NEW u \in User, NEW uc \in UseCase, begin(m, u, uc)
  PROVE  SessOK'
<1> DEFINE new == [usecase |-> uc, user |-> u, next |-> NoInput, collected |-> NoInputs]
<1>1. new \in Pending
  BY DEF Pending, NoInputs, Value
<1>2. byM' = [Without(byU[u]) EXCEPT ![m] = new] /\ byU' = [byU EXCEPT ![u] = m]
  BY DEF begin
<1>3. Without(byU[u]) \in [Message -> Pending \cup {NoSession}]
  BY DEF SessOK, SessTypeOK, Without
<1>4. SessTypeOK'
  BY <1>1, <1>2, <1>3 DEF SessOK, SessTypeOK
<1>5. ASSUME NEW n \in Message, byM'[n] # NoSession
      PROVE  byU'[byM'[n].user] = n
  <2>1. CASE n = m
    BY <1>2, <1>3, <2>1 DEF SessOK, SessTypeOK
  <2>2. CASE n # m
    <3>1. n # byU[u] /\ byM'[n] = byM[n]
      BY <1>2, <1>3, <1>5, <2>2 DEF Without
    <3>2. byM[n] \in Pending /\ byU[byM[n].user] = n
      BY <1>5, <3>1 DEF SessOK, SessTypeOK, OneWizardPerUser
    <3>3. byM[n].user # u
      BY <3>1, <3>2
    <3> QED
      BY <1>2, <3>1, <3>2, <3>3 DEF SessOK, SessTypeOK, Pending
  <2> QED
    BY <2>1, <2>2
<1> QED
  BY <1>4, <1>5 DEF SessOK, OneWizardPerUser

(* A value recorded stays in the wizard it is for.                         *)
LEMMA UpdateKeeps ==
  ASSUME SessOK, NEW m \in Message, NEW have \in [Input -> Value],
         NEW next \in Input \cup {NoInput}, update(m, have, next)
  PROVE  SessOK'
<1>1. CASE byM[m] = NoSession
  BY <1>1 DEF update, SessOK, SessTypeOK, OneWizardPerUser
<1>2. CASE byM[m] # NoSession
  <2> DEFINE new == [byM[m] EXCEPT !.collected = have, !.next = next]
  <2>1. byM' = [byM EXCEPT ![m] = new] /\ byU' = byU
    BY <1>2 DEF update
  <2>2. byM[m] \in Pending
    BY <1>2 DEF SessOK, SessTypeOK
  <2>3. new \in Pending /\ new.user = byM[m].user
    BY <2>2 DEF Pending
  <2> QED
    BY <1>2, <2>1, <2>3 DEF SessOK, SessTypeOK, OneWizardPerUser
<1> QED
  BY <1>1, <1>2

(* A wizard ended is gone, with its user's entry.                          *)
LEMMA EndKeeps ==
  ASSUME SessOK, NEW m \in Message, end(m)
  PROVE  SessOK'
<1>1. CASE byM[m] = NoSession
  BY <1>1 DEF end, sessVars, SessOK, SessTypeOK, OneWizardPerUser
<1>2. CASE byM[m] # NoSession
  <2>1. byU' = [byU EXCEPT ![byM[m].user] = NoMessage] /\ byM' = Without(m)
    BY <1>2 DEF end
  <2>2. byM[m] \in Pending /\ byU[byM[m].user] = m
    BY <1>2 DEF SessOK, SessTypeOK, OneWizardPerUser
  <2>3. SessTypeOK'
    BY <2>1, <2>2 DEF SessOK, SessTypeOK, Without, Pending
  <2>4. ASSUME NEW n \in Message, byM'[n] # NoSession
        PROVE  byU'[byM'[n].user] = n
    <3>1. n # m /\ byM'[n] = byM[n]
      BY <2>1, <2>4 DEF Without
    <3>2. byM[n] \in Pending /\ byU[byM[n].user] = n
      BY <2>4, <3>1 DEF SessOK, SessTypeOK, OneWizardPerUser
    <3> QED
      BY <2>1, <2>2, <3>1, <3>2 DEF SessOK, SessTypeOK, Pending
  <2> QED
    BY <2>3, <2>4 DEF SessOK, OneWizardPerUser
<1> QED
  BY <1>1, <1>2

-----------------------------------------------------------------------------
(* Rendering *)

(* A set of inputs that is not empty has a first one. *)
LEMMA FirstInput ==
  ASSUME NEW S \in SUBSET Input, S # {}
  PROVE  \E i \in S : \A j \in S : i <= j
<1>1. S \subseteq Nat
  BY InputAssumption DEF Input
<1>2. PICK i \in S : \A j \in S : ~ (<<j, i>> \in OpToRel(<, Nat))
  BY <1>1, NatLessThanWellFounded, WFMin
<1>3. ASSUME NEW j \in S
      PROVE  i <= j
  <2>1. i \in Nat /\ j \in Nat
    BY <1>1
  <2>2. j < i => <<j, i>> \in OpToRel(<, Nat)
    BY <2>1 DEF OpToRel
  <2>3. ~ (<<j, i>> \in OpToRel(<, Nat))
    BY <1>2, Zenon
  <2>4. ~ (j < i)
    BY <2>2, <2>3, Zenon
  <2> QED
    BY <2>1, <2>4
<1> QED
  BY <1>3

(* What Show builds is a display; only a button has to name a use case.    *)
LEMMA ShowOK ==
  \A what \in Displays : Show(what) \in Display /\ (what # "button" => ButtonOK(Show(what)))
BY DEF Show, Display, MaybeUseCase, ButtonOK

(* RenderForm leaves the sessions in order and has something to show. *)
LEMMA RenderFormKeeps ==
  ASSUME SessOK, NEW h \in Goroutine, NEW have \in [Input -> Value], NEW formErr \in BOOLEAN,
         NEW locals \in Job, locals.msg \in Message, locals.usecase \in UseCase,
         RenderForm(h, have, formErr, locals)
  PROVE  /\ SessOK'
         /\ \E next \in Input \cup {NoInput} : update(locals.msg, have, next)
         /\ at' = [at EXCEPT ![h] = "edit"]
         /\ \E display \in Display :
              /\ ButtonOK(display)
              /\ job' = [job EXCEPT ![h] = [locals EXCEPT !.show = display]]
<1> DEFINE m == locals.msg
           missing == missingRequired(locals.usecase, have)
           first == CHOOSE i \in missing : \A j \in missing : i <= j
           next == IF missing = {} THEN NoInput ELSE first
           display == IF missing = {}
                      THEN [Show("button") EXCEPT !.usecase = locals.usecase]
                      ELSE [Show("prompt") EXCEPT !.input = next, !.err = formErr]
<1>1. /\ update(m, have, next)
      /\ at' = [at EXCEPT ![h] = "edit"]
      /\ job' = [job EXCEPT ![h] = [locals EXCEPT !.show = display]]
  BY DEF RenderForm, Goto
<1>2. missing \in SUBSET Input
  BY RequiredAssumption DEF missingRequired
<1>3. next \in Input \cup {NoInput}
  <2> HIDE DEF missing
  <2>1. missing # {} => first \in missing
    BY <1>2, FirstInput
  <2> QED
    BY <1>2, <2>1
<1>4. display \in Display /\ ButtonOK(display)
  <2> HIDE DEF next, missing
  <2> QED
    BY <1>3 DEF Show, Display, Displays, MaybeUseCase, ButtonOK
<1>5. SessOK'
  <2> HIDE DEF next, missing, display
  <2> QED
    BY <1>1, <1>3, UpdateKeeps
<1>6. \E n \in Input \cup {NoInput} : update(locals.msg, have, n)
  <2> HIDE DEF next, missing, display
  <2> QED
    BY <1>1, <1>3
<1> QED
  BY <1>1, <1>4, <1>5, <1>6

-----------------------------------------------------------------------------
(* Steps *)

(* What a step of handler h leaves: a place and locals that go together.   *)
Moves(h, p, j) ==
  /\ p \in Places /\ j \in Job /\ LocalOK(p, j)
  /\ at' = [at EXCEPT ![h] = p]
  /\ job' = [job EXCEPT ![h] = j]

(* The slots held and counted before and after a step of h. *)
SlotsMove(h) ==
  sem' = IF job'[h].slot = job[h].slot THEN sem
         ELSE IF job'[h].slot THEN sem + 1 ELSE sem - 1

StepOK(h) ==
  /\ \E p \in Places, j \in Job : Moves(h, p, j)
  /\ SessOK'
  /\ shown' \in [Message -> Display] /\ \A m \in Message : ButtonOK(shown'[m])
  /\ SlotsMove(h)
  /\ updates' \in Nat

(* Everything a step of a handler may assume of its own state. *)
Mine(h) == at[h] \in Places /\ job[h] \in Job /\ LocalOK(at[h], job[h])

(* A handler starts with nothing of its own.                               *)
LEMMA FreshOK ==
  ASSUME NEW u \in User \cup {"none"}
  PROVE  Fresh(u) \in Job /\ LocalOK("idle", Fresh(u))
<1>1. Show("none") \in Display /\ ButtonOK(Show("none"))
  BY ShowOK DEF Displays
<1>2. NoInputs \in [Input -> Value]
  BY DEF NoInputs, Value
<1>3. Fresh(u) \in Job
  BY <1>1, <1>2 DEF Fresh, Job, MaybeUseCase
<1>4. Fresh(u).show = Show("none") /\ Fresh(u).slot = FALSE
  BY DEF Fresh
<1> QED
  BY <1>1, <1>3, <1>4 DEF LocalOK

(* An update finds its handler idle, without a slot. *)
LEMMA UserStepOK ==
  ASSUME IInv, NEW h \in Goroutine, UserStep(h)
  PROVE  StepOK(h)
<1>0. SessOK /\ Mine(h) /\ shown \in [Message -> Display] /\ updates \in Nat /\ job \in [Goroutine -> Job]
      /\ \A m \in Message : ButtonOK(shown[m])
  BY DEF IInv, TypeOK, SessOK, Mine
<1>1. ASSUME NEW p \in Places, NEW j \in Job, LocalOK(p, j), ~j.slot, Arrive(h, p, j)
      PROVE  StepOK(h)
  <2>1. Moves(h, p, j)
    BY <1>1 DEF Arrive, Moves
  <2>2. SlotsMove(h)
    <3>1. ~job[h].slot
      BY <1>0, <1>1 DEF Mine, LocalOK, Arrive
    <3>2. job'[h] = j /\ sem' = sem
      BY <1>0, <1>1 DEF Arrive
    <3> QED
      BY <1>0, <1>1, <3>1, <3>2 DEF SlotsMove, Mine, Job
  <2>3. SessOK' /\ shown' = shown /\ updates' \in Nat
    BY <1>0, <1>1 DEF Arrive, SessOK, SessTypeOK, OneWizardPerUser, sessVars
  <2> QED
    BY <1>0, <2>1, <2>2, <2>3 DEF StepOK
<1>2. ASSUME NEW u \in User, UserTexts(h, u)
      PROVE  StepOK(h)
  <2>1. PICK value \in {u, Blank} :
          Arrive(h, "texted", [Fresh(u) EXCEPT !.inputs = [i \in Input |-> value]])
    BY <1>2 DEF UserTexts
  <2> DEFINE j == [Fresh(u) EXCEPT !.inputs = [i \in Input |-> value]]
  <2>2. j \in Job /\ ~j.slot /\ j.user = u /\ j.show = Fresh(u).show
    BY FreshOK DEF Fresh, Job, Value
  <2>3. LocalOK("texted", j)
    BY <2>2, FreshOK DEF LocalOK
  <2> QED
    BY <1>1, <2>1, <2>2, <2>3 DEF Places
<1>3. ASSUME NEW u \in User, UserCancels(h, u)
      PROVE  StepOK(h)
  <2>1. Fresh(u) \in Job /\ ~Fresh(u).slot /\ Fresh(u).user = u
    BY FreshOK DEF Fresh
  <2>2. LocalOK("cancelling", Fresh(u))
    BY <2>1, FreshOK DEF LocalOK
  <2> QED
    BY <1>1, <1>3, <2>1, <2>2 DEF UserCancels, Places
<1>4. ASSUME NEW u \in User, NEW m \in Message, UserTaps(h, u, m)
      PROVE  StepOK(h)
  <2> DEFINE j == [Fresh(u) EXCEPT !.msg = m]
  <2>1. PICK p \in {"listing", "confirming", "starting"} : Arrive(h, p, j)
    BY <1>4 DEF UserTaps
  <2>2. j \in Job /\ ~j.slot /\ j.msg = m /\ j.show = Fresh(u).show
    BY FreshOK DEF Fresh, Job
  <2>3. LocalOK(p, j)
    BY <2>2, FreshOK DEF LocalOK
  <2> QED
    BY <1>1, <2>1, <2>2, <2>3 DEF Places
<1>5. ASSUME NEW u \in User, NEW m \in Message, NEW uc \in UseCase, UserPicks(h, u, m, uc)
      PROVE  StepOK(h)
  <2> DEFINE j == [Fresh(u) EXCEPT !.msg = m, !.usecase = uc]
  <2>1. j \in Job /\ ~j.slot /\ j.user = u /\ j.msg = m /\ j.usecase = uc /\ j.show = Fresh(u).show
    BY FreshOK DEF Fresh, Job, MaybeUseCase
  <2>2. LocalOK("picked", j)
    BY <2>1, FreshOK DEF LocalOK
  <2> QED
    BY <1>1, <1>5, <2>1, <2>2 DEF UserPicks, Places
<1>6. ASSUME NEW u \in User, NEW m \in Message, UserRuns(h, u, m)
      PROVE  StepOK(h)
  <2> DEFINE uc == shown[m].usecase
             j == [Fresh(u) EXCEPT !.msg = m, !.usecase = uc]
  <2>1. uc \in UseCase
    BY <1>0, <1>6 DEF UserRuns, ButtonOK
  <2> HIDE DEF uc
  <2>2. j \in Job /\ ~j.slot /\ j.msg = m /\ j.usecase = uc /\ j.show = Fresh(u).show
    BY <2>1, FreshOK DEF Fresh, Job, MaybeUseCase
  <2>3. LocalOK("validate", j)
    BY <2>1, <2>2, FreshOK DEF LocalOK
  <2>4. Arrive(h, "validate", j)
    BY <1>6 DEF UserRuns, uc
  <2> QED
    BY <1>1, <2>2, <2>3, <2>4 DEF Places
<1> QED
  BY <1>2, <1>3, <1>4, <1>5, <1>6 DEF UserStep

-----------------------------------------------------------------------------
(* The steps of a handler *)

(* What a step is about to change, put together. *)
LEMMA Step ==
  ASSUME IInv, NEW h \in Goroutine, NEW p \in Places, NEW j \in Job, LocalOK(p, j),
         at' = [at EXCEPT ![h] = p], job' = [job EXCEPT ![h] = j], SessOK',
         shown' \in [Message -> Display], \A m \in Message : ButtonOK(shown'[m]),
         sem' = IF j.slot = job[h].slot THEN sem ELSE IF j.slot THEN sem + 1 ELSE sem - 1,
         updates' = updates
  PROVE  StepOK(h)
<1>1. Moves(h, p, j)
  BY DEF Moves
<1>2. job'[h] = j /\ updates' \in Nat
  BY DEF IInv, TypeOK
<1>3. SlotsMove(h)
  BY <1>2 DEF SlotsMove
<1> QED
  BY <1>1, <1>2, <1>3 DEF StepOK

(* Most steps leave the screens alone. *)
LEMMA QuietStep ==
  ASSUME IInv, NEW h \in Goroutine, NEW p \in Places, NEW j \in Job, LocalOK(p, j),
         at' = [at EXCEPT ![h] = p], job' = [job EXCEPT ![h] = j], SessOK',
         j.slot = job[h].slot, UNCHANGED <<sem, shown, updates>>
  PROVE  StepOK(h)
BY Step DEF IInv, TypeOK

(* A step that leaves the sessions alone keeps what is known of them.      *)
LEMMA SessUnchanged ==
  ASSUME IInv, UNCHANGED sessVars
  PROVE  SessOK'
BY DEF IInv, TypeOK, sessVars, SessOK, SessTypeOK, OneWizardPerUser

(* A store operation or none, then the edit that follows it. *)
LEMMA EditStep ==
  ASSUME IInv, NEW h \in Goroutine, NEW what \in Displays, what # "button",
         job[h].msg \in Message, SessOK', ThenEdit(h, Show(what)),
         UNCHANGED <<sem, shown, updates>>
  PROVE  StepOK(h)
<1> DEFINE j == [job[h] EXCEPT !.show = Show(what)]
<1>1. job[h] \in Job /\ Show(what) \in Display /\ ButtonOK(Show(what))
  BY ShowOK DEF IInv, TypeOK
<1>2. /\ j \in Job /\ j.msg \in Message /\ j.show = Show(what) /\ j.slot = job[h].slot
  BY <1>1 DEF Job
<1>3. at' = [at EXCEPT ![h] = "edit"] /\ job' = [job EXCEPT ![h] = j]
  BY DEF ThenEdit, Goto, IInv, TypeOK
<1>4. LocalOK("edit", j)
  <2> HIDE DEF j
  <2> QED
    BY <1>1, <1>2 DEF LocalOK
<1> HIDE DEF j
<1> QED
  BY <1>2, <1>3, <1>4, QuietStep DEF Places

(* A handler that gives up shows an error next. *)
LEMMA FailStep ==
  ASSUME IInv, NEW h \in Goroutine, ~job[h].slot, job[h].msg \in Message, SessOK',
         Goto(h, "fail"), job' = job, UNCHANGED <<sem, shown, updates>>
  PROVE  StepOK(h)
<1>1. Mine(h)
  BY DEF IInv, TypeOK, Mine
<1>2. LocalOK("fail", job[h])
  BY <1>1 DEF Mine, LocalOK
<1>3. job' = [job EXCEPT ![h] = job[h]] /\ at' = [at EXCEPT ![h] = "fail"]
  BY DEF Goto, IInv, TypeOK
<1> QED
  BY <1>1, <1>2, <1>3, QuietStep DEF Mine, Places

(* A handler that returns without a slot. *)
LEMMA DoneStep ==
  ASSUME IInv, NEW h \in Goroutine, ~job[h].slot, SessOK',
         shown' \in [Message -> Display], \A m \in Message : ButtonOK(shown'[m]),
         Goto(h, "idle"), job' = [job EXCEPT ![h] = Fresh("none")], UNCHANGED <<sem, updates>>
  PROVE  StepOK(h)
<1>1. Fresh("none") \in Job /\ LocalOK("idle", Fresh("none")) /\ Fresh("none").slot = FALSE
  BY FreshOK DEF Fresh
<1>2. at' = [at EXCEPT ![h] = "idle"] /\ "idle" \in Places
  BY DEF Goto, Places
<1>3. job[h].slot = FALSE
  BY DEF IInv, TypeOK, Job
<1> QED
  BY <1>1, <1>2, <1>3, Step

(* The form, rendered for locals that keep the slot. *)
LEMMA FormStep ==
  ASSUME IInv, NEW h \in Goroutine, NEW have \in [Input -> Value], NEW formErr \in BOOLEAN,
         NEW locals \in Job, locals.msg \in Message, locals.usecase \in UseCase,
         locals.slot = job[h].slot,
         RenderForm(h, have, formErr, locals), UNCHANGED <<sem, shown, updates>>
  PROVE  StepOK(h)
<1>1. SessOK
  BY DEF IInv, TypeOK, SessOK
<1>2. /\ SessOK'
      /\ at' = [at EXCEPT ![h] = "edit"]
      /\ \E display \in Display :
           /\ ButtonOK(display)
           /\ job' = [job EXCEPT ![h] = [locals EXCEPT !.show = display]]
  BY <1>1, RenderFormKeeps
<1>3. PICK display \in Display :
        /\ ButtonOK(display)
        /\ job' = [job EXCEPT ![h] = [locals EXCEPT !.show = display]]
  BY <1>2
<1> DEFINE j == [locals EXCEPT !.show = display]
<1>4. /\ j \in Job /\ j.msg \in Message /\ j.show = display /\ j.slot = job[h].slot
  BY DEF Job
<1> HIDE DEF j
<1>5. LocalOK("edit", j)
  BY <1>3, <1>4 DEF LocalOK
<1>6. job' = [job EXCEPT ![h] = j]
  BY <1>3 DEF j
<1> QED
  BY <1>2, <1>4, <1>5, <1>6, QuietStep DEF Places

(* The steps on a message, up to the form.                                 *)
LEMMA MessageStepsOK ==
  ASSUME IInv, NEW h \in Goroutine,
         \/ TakeReply(h) \/ StartFlow(h) \/ FindCancelled(h) \/ EndCancelled(h)
         \/ PickCluster(h) \/ PickGroup(h) \/ RunGroup(h) \/ Begin(h) \/ PickUseCase(h)
  PROVE  StepOK(h)
<1>0. /\ SessOK /\ SessTypeOK /\ Mine(h) /\ shown \in [Message -> Display]
      /\ job \in [Goroutine -> Job]
      /\ \A m \in Message : ButtonOK(shown[m])
  BY DEF IInv, TypeOK, SessOK, Mine
<1>1. CASE TakeReply(h)
  <2> DEFINE u == job[h].user
             p == byM[byU[u]]
             have == [p.collected EXCEPT ![p.next] = job[h].inputs[p.next]]
             j == [job[h] EXCEPT !.msg = byU[u], !.usecase = p.usecase, !.inputs = have]
  <2>1. at[h] = "texted" /\ u \in User /\ ~job[h].slot /\ ButtonOK(job[h].show) /\ job[h] \in Job
    BY <1>0, <1>1 DEF TakeReply, Mine, LocalOK
  <2>2. byU[u] \in Message /\ p \in Pending /\ p.next # NoInput
    BY <1>0, <1>1, <2>1 DEF TakeReply, AwaitsReply, SessTypeOK
  <2>3. p.next \in Input /\ p.usecase \in UseCase /\ p.collected \in [Input -> Value]
    BY <2>2 DEF Pending
  <2>4. have \in [Input -> Value]
    BY <2>1, <2>3 DEF Job
  <2>5. job' = [job EXCEPT ![h] = j] /\ at' = [at EXCEPT ![h] = "validate"]
    BY <1>0, <1>1 DEF TakeReply, Goto
  <2> HIDE DEF u, p, have
  <2>6. /\ j \in Job /\ j.msg \in Message /\ j.usecase \in UseCase
        /\ j.show = job[h].show /\ j.slot = job[h].slot
    BY <2>1, <2>2, <2>3, <2>4 DEF Job, MaybeUseCase
  <2> HIDE DEF j
  <2>7. LocalOK("validate", j)
    BY <2>1, <2>6 DEF LocalOK
  <2>8. SessOK' /\ UNCHANGED <<sem, shown, updates>>
    BY <1>1, SessUnchanged DEF TakeReply
  <2> QED
    BY <2>5, <2>6, <2>7, <2>8, QuietStep DEF Places
<1>2. CASE StartFlow(h)
  <2>1. ~job[h].slot
    BY <1>0, <1>2 DEF StartFlow, Mine, LocalOK
  <2>2. shown' \in [Message -> Display] /\ \A m \in Message : ButtonOK(shown'[m])
    <3>1. Show("clusters") \in Display /\ ButtonOK(Show("clusters"))
      BY ShowOK DEF Displays
    <3>2. shown' = shown \/ \E m \in Message : shown' = [shown EXCEPT ![m] = Show("clusters")]
      BY <1>2 DEF StartFlow
    <3> QED
      BY <1>0, <3>1, <3>2
  <2>3. SessOK' /\ Goto(h, "idle") /\ job' = [job EXCEPT ![h] = Fresh("none")] /\ UNCHANGED <<sem, updates>>
    BY <1>2, SessUnchanged DEF StartFlow
  <2> QED
    BY <2>1, <2>2, <2>3, DoneStep
<1>3. CASE FindCancelled(h)
  <2> DEFINE m == byU[job[h].user]
  <2>1. at[h] = "cancelling" /\ job[h].user \in User /\ ~job[h].slot /\ ButtonOK(job[h].show)
    BY <1>0, <1>3 DEF FindCancelled, Mine, LocalOK
  <2>2. SessOK' /\ UNCHANGED <<sem, shown, updates>>
    BY <1>3, SessUnchanged DEF FindCancelled
  <2>3. CASE m = NoMessage
    BY <1>0, <1>3, <2>1, <2>2, <2>3, DoneStep DEF FindCancelled
  <2>4. CASE m # NoMessage
    <3> DEFINE j == [job[h] EXCEPT !.msg = m]
    <3>1. m \in Message
      BY <1>0, <2>1, <2>4 DEF SessTypeOK
    <3>2. at' = [at EXCEPT ![h] = "ending"] /\ job' = [job EXCEPT ![h] = j]
      BY <1>0, <1>3, <2>4 DEF FindCancelled, Goto
    <3> HIDE DEF m
    <3>3. j \in Job /\ j.msg \in Message /\ j.show = job[h].show /\ j.slot = job[h].slot
      BY <1>0, <3>1 DEF Job
    <3> HIDE DEF j
    <3>4. LocalOK("ending", j)
      BY <2>1, <3>3 DEF LocalOK
    <3> QED
      BY <2>2, <3>2, <3>3, <3>4, QuietStep DEF Places
  <2> QED
    BY <2>3, <2>4
<1>4. CASE EndCancelled(h)
  <2>1. job[h].msg \in Message
    BY <1>0, <1>4 DEF EndCancelled, Mine, LocalOK
  <2>2. SessOK'
    BY <1>0, <1>4, <2>1, EndKeeps DEF EndCancelled
  <2> QED
    BY <1>4, <2>1, <2>2, EditStep DEF EndCancelled, Displays
<1>5. CASE PickCluster(h)
  <2>1. job[h].msg \in Message /\ ~job[h].slot
    BY <1>0, <1>5 DEF PickCluster, Mine, LocalOK
  <2>2. SessOK' /\ UNCHANGED <<sem, shown, updates>>
    BY <1>5, SessUnchanged DEF PickCluster
  <2>3. ThenEdit(h, Show("picker")) \/ (Goto(h, "fail") /\ job' = job)
    BY <1>5 DEF PickCluster
  <2> QED
    BY <2>1, <2>2, <2>3, EditStep, FailStep DEF Displays
<1>6. CASE PickGroup(h)
  <2>1. job[h].msg \in Message /\ ~job[h].slot
    BY <1>0, <1>6 DEF PickGroup, Mine, LocalOK
  <2>2. SessOK' /\ UNCHANGED <<sem, shown, updates>>
    BY <1>6, SessUnchanged DEF PickGroup
  <2>3. ThenEdit(h, Show("confirm")) \/ (Goto(h, "fail") /\ job' = job)
    BY <1>6 DEF PickGroup
  <2> QED
    BY <2>1, <2>2, <2>3, EditStep, FailStep DEF Displays
<1>7. CASE RunGroup(h)
  <2>1. job[h].msg \in Message /\ ~job[h].slot
    BY <1>0, <1>7 DEF RunGroup, Mine, LocalOK
  <2>2. SessOK' /\ UNCHANGED <<sem, shown, updates>>
    BY <1>7, SessUnchanged DEF RunGroup
  <2>3. \/ Goto(h, "idle") /\ job' = [job EXCEPT ![h] = Fresh("none")]
        \/ Goto(h, "fail") /\ job' = job
    BY <1>7 DEF RunGroup
  <2> QED
    BY <1>0, <2>1, <2>2, <2>3, DoneStep, FailStep
<1>8. CASE Begin(h)
  <2>1. /\ job[h].msg \in Message /\ job[h].user \in User /\ job[h].usecase \in UseCase
        /\ ~job[h].slot /\ LocalOK("contract", job[h])
    BY <1>0, <1>8 DEF Begin, Mine, LocalOK
  <2>2. SessOK'
    BY <1>0, <1>8, <2>1, BeginKeeps DEF Begin
  <2>3. job' = [job EXCEPT ![h] = job[h]] /\ at' = [at EXCEPT ![h] = "contract"]
    BY <1>0, <1>8 DEF Begin, Goto
  <2> QED
    BY <1>0, <1>8, <2>1, <2>2, <2>3, QuietStep DEF Mine, Places, Begin
<1>9. CASE PickUseCase(h)
  <2>1. job[h].msg \in Message /\ job[h].usecase \in UseCase /\ ~job[h].slot /\ job[h] \in Job
    BY <1>0, <1>9 DEF PickUseCase, Mine, LocalOK
  <2>2. UNCHANGED <<sem, shown, updates>>
    BY <1>9 DEF PickUseCase
  <2>3. CASE RenderForm(h, NoInputs, FALSE, job[h])
    <3>1. NoInputs \in [Input -> Value]
      BY DEF NoInputs, Value
    <3> QED
      BY <1>0, <2>1, <2>2, <2>3, <3>1, FormStep
  <2>4. CASE Goto(h, "fail") /\ UNCHANGED <<sessVars, job>>
    BY <2>1, <2>2, <2>4, SessUnchanged, FailStep
  <2> QED
    BY <1>9, <2>3, <2>4 DEF PickUseCase
<1> QED
  BY <1>1, <1>2, <1>3, <1>4, <1>5, <1>6, <1>7, <1>8, <1>9

(* The steps of a run, from its submission to its last edit.               *)
LEMMA RunStepsOK ==
  ASSUME IInv, NEW h \in Goroutine,
         \/ SubmitForm(h) \/ RenderRunning(h) \/ TakeSlot(h) \/ Busy(h) \/ CloseInput(h)
         \/ KatoReturns(h) \/ RenderResult(h) \/ RenderError(h) \/ EditMessage(h)
         \/ ReleaseSlot(h)
  PROVE  StepOK(h)
<1>0. /\ SessOK /\ SessTypeOK /\ Mine(h) /\ shown \in [Message -> Display]
      /\ job \in [Goroutine -> Job] /\ job[h] \in Job
      /\ \A m \in Message : ButtonOK(shown[m])
  BY DEF IInv, TypeOK, SessOK, Mine
<1>1. CASE SubmitForm(h)
  <2>1. /\ job[h].msg \in Message /\ job[h].usecase \in UseCase /\ ~job[h].slot
        /\ ButtonOK(job[h].show) /\ job[h].inputs \in [Input -> Value]
    BY <1>0, <1>1 DEF SubmitForm, Mine, LocalOK, Job
  <2>2. UNCHANGED <<sem, shown, updates>>
    BY <1>1 DEF SubmitForm
  <2>3. CASE Goto(h, "fail") /\ UNCHANGED <<sessVars, job>>
    BY <2>1, <2>2, <2>3, SessUnchanged, FailStep
  <2>4. CASE RenderForm(h, job[h].inputs, TRUE, job[h])
    BY <1>0, <2>1, <2>2, <2>4, FormStep
  <2>5. CASE /\ missingRequired(job[h].usecase, job[h].inputs) = {}
             /\ Goto(h, "announce") /\ UNCHANGED <<sessVars, job>>
    <3>1. LocalOK("announce", job[h])
      BY <2>1, <2>5 DEF LocalOK
    <3>2. job' = [job EXCEPT ![h] = job[h]] /\ at' = [at EXCEPT ![h] = "announce"]
      BY <1>0, <2>5 DEF Goto
    <3> QED
      BY <1>0, <2>2, <2>5, <3>1, <3>2, SessUnchanged, QuietStep DEF Places
  <2> QED
    BY <1>1, <2>3, <2>4, <2>5 DEF SubmitForm
<1>2. CASE RenderRunning(h)
  <2>1. /\ job[h].msg \in Message /\ ~job[h].slot /\ SessOK'
        /\ LocalOK("gate", job[h])
    BY <1>0, <1>2, SessUnchanged DEF RenderRunning, Mine, LocalOK
  <2>2. shown' \in [Message -> Display] /\ \A m \in Message : ButtonOK(shown'[m])
    <3>1. Show("running") \in Display /\ ButtonOK(Show("running"))
      BY ShowOK DEF Displays
    <3>2. shown' = shown \/ shown' = [shown EXCEPT ![job[h].msg] = Show("running")]
      BY <1>2 DEF RenderRunning
    <3> QED
      BY <1>0, <3>1, <3>2
  <2>3. UNCHANGED <<sem, updates>>
    BY <1>2 DEF RenderRunning
  <2>4. CASE Goto(h, "gate") /\ job' = job
    <3>1. job' = [job EXCEPT ![h] = job[h]] /\ at' = [at EXCEPT ![h] = "gate"]
      BY <1>0, <2>4 DEF Goto
    <3> QED
      BY <1>0, <2>1, <2>2, <2>3, <3>1, Step DEF Places
  <2>5. CASE Goto(h, "idle") /\ job' = [job EXCEPT ![h] = Fresh("none")]
    BY <2>1, <2>2, <2>3, <2>5, DoneStep
  <2> QED
    BY <1>2, <2>4, <2>5 DEF RenderRunning
<1>3. CASE TakeSlot(h)
  <2> DEFINE j == [job[h] EXCEPT !.slot = TRUE]
  <2>1. /\ job[h].msg \in Message /\ job[h].slot = FALSE /\ job[h].usecase \in UseCase
        /\ ButtonOK(job[h].show)
        /\ missingRequired(job[h].usecase, job[h].inputs) = {}
    BY <1>0, <1>3 DEF TakeSlot, Mine, LocalOK, Job
  <2>2. job' = [job EXCEPT ![h] = j] /\ at' = [at EXCEPT ![h] = "close"]
    BY <1>0, <1>3 DEF TakeSlot, Goto
  <2>3. /\ j \in Job /\ j.slot = TRUE /\ j.msg = job[h].msg /\ j.usecase = job[h].usecase
        /\ j.inputs = job[h].inputs /\ j.show = job[h].show
    BY <1>0 DEF Job
  <2>4. sem' = sem + 1 /\ SessOK' /\ UNCHANGED <<shown, updates>>
    BY <1>3, SessUnchanged DEF TakeSlot
  <2> HIDE DEF j
  <2>5. LocalOK("close", j)
    BY <2>1, <2>3 DEF LocalOK
  <2>6. sem' = IF j.slot = job[h].slot THEN sem ELSE IF j.slot THEN sem + 1 ELSE sem - 1
    BY <2>1, <2>3, <2>4
  <2> QED
    BY <1>0, <2>2, <2>3, <2>4, <2>5, <2>6, Step DEF Places
<1>4. CASE Busy(h)
  <2>1. job[h].msg \in Message /\ ~job[h].slot
    BY <1>0, <1>4 DEF Busy, Mine, LocalOK
  <2>2. SessOK'
    BY <1>0, <1>4, <2>1, EndKeeps DEF Busy
  <2> QED
    BY <1>4, <2>1, <2>2, FailStep DEF Busy
<1>5. CASE CloseInput(h)
  <2>1. /\ job[h].msg \in Message /\ job[h].inputs \in [Input -> Value]
        /\ LocalOK("run", job[h])
    BY <1>0, <1>5 DEF CloseInput, Mine, LocalOK, Job
  <2>2. SessOK'
    BY <1>0, <1>5, <2>1, UpdateKeeps DEF CloseInput
  <2>3. job' = [job EXCEPT ![h] = job[h]] /\ at' = [at EXCEPT ![h] = "run"]
    BY <1>0, <1>5 DEF CloseInput, Goto
  <2> QED
    BY <1>0, <1>5, <2>1, <2>2, <2>3, QuietStep DEF Places, CloseInput
<1>6. CASE KatoReturns(h)
  <2>1. /\ job[h].msg \in Message /\ job[h].usecase \in UseCase /\ job[h].slot
        /\ ButtonOK(job[h].show) /\ job[h].inputs \in [Input -> Value]
    BY <1>0, <1>6 DEF KatoReturns, Mine, LocalOK, Job
  <2>2. UNCHANGED <<sem, shown, updates>>
    BY <1>6 DEF KatoReturns
  <2>3. ASSUME NEW j \in Job, j.slot = job[h].slot, j.msg = job[h].msg, j.show = job[h].show,
               Goto(h, "result"), job' = [job EXCEPT ![h] = j], UNCHANGED sessVars
        PROVE  StepOK(h)
    <3>1. LocalOK("result", j)
      BY <2>1, <2>3 DEF LocalOK
    <3>2. at' = [at EXCEPT ![h] = "result"]
      BY <2>3 DEF Goto
    <3> QED
      BY <2>2, <2>3, <3>1, <3>2, SessUnchanged, QuietStep DEF Places
  <2>4. CASE Goto(h, "result") /\ UNCHANGED <<sessVars, job>>
    <3>1. job' = [job EXCEPT ![h] = job[h]]
      BY <1>0, <2>4
    <3> QED
      BY <1>0, <2>3, <2>4, <3>1
  <2>5. CASE /\ Goto(h, "result")
             /\ job' = [job EXCEPT ![h].expired = TRUE]
             /\ UNCHANGED sessVars
    <3> DEFINE j == [job[h] EXCEPT !.expired = TRUE]
    <3>1. j \in Job /\ j.slot = job[h].slot /\ j.msg = job[h].msg /\ j.show = job[h].show
      BY <1>0 DEF Job
    <3>2. job' = [job EXCEPT ![h] = j]
      BY <1>0, <2>5
    <3> HIDE DEF j
    <3> QED
      BY <2>3, <2>5, <3>1, <3>2
  <2>6. CASE RenderForm(h, job[h].inputs, TRUE, [job[h] EXCEPT !.rejected = TRUE])
    <3> DEFINE j == [job[h] EXCEPT !.rejected = TRUE]
    <3>1. j \in Job /\ j.slot = job[h].slot /\ j.msg = job[h].msg /\ j.usecase = job[h].usecase
      BY <1>0 DEF Job
    <3>2. RenderForm(h, job[h].inputs, TRUE, j)
      BY <2>6
    <3> HIDE DEF j
    <3> QED
      BY <2>1, <2>2, <3>1, <3>2, FormStep
  <2> QED
    BY <1>6, <2>4, <2>5, <2>6 DEF KatoReturns
<1>7. CASE RenderResult(h)
  <2>1. job[h].msg \in Message
    BY <1>0, <1>7 DEF RenderResult, Mine, LocalOK
  <2>2. SessOK'
    BY <1>0, <1>7, <2>1, EndKeeps DEF RenderResult
  <2> QED
    BY <1>7, <2>1, <2>2, EditStep DEF RenderResult, Displays
<1>8. CASE RenderError(h)
  <2>1. job[h].msg \in Message
    BY <1>0, <1>8 DEF RenderError, Mine, LocalOK
  <2>2. SessOK'
    BY <1>0, <1>8, <2>1, EndKeeps DEF RenderError
  <2> QED
    BY <1>8, <2>1, <2>2, EditStep DEF RenderError, Displays
<1>9. CASE EditMessage(h)
  <2>1. job[h].msg \in Message /\ ButtonOK(job[h].show) /\ job[h].show \in Display
    BY <1>0, <1>9 DEF EditMessage, Mine, LocalOK, Job
  <2>2. SessOK' /\ UNCHANGED <<sem, updates>>
    BY <1>9, SessUnchanged DEF EditMessage
  <2>3. shown' \in [Message -> Display] /\ \A m \in Message : ButtonOK(shown'[m])
    <3>1. shown' = shown \/ shown' = [shown EXCEPT ![job[h].msg] = job[h].show]
      BY <1>9 DEF EditMessage
    <3> QED
      BY <1>0, <2>1, <3>1
  <2>4. CASE job[h].slot
    <3>1. at' = [at EXCEPT ![h] = "release"] /\ job' = [job EXCEPT ![h] = job[h]]
      BY <1>0, <1>9, <2>4 DEF EditMessage, Goto
    <3>2. LocalOK("release", job[h])
      BY <2>1, <2>4 DEF LocalOK
    <3> QED
      BY <1>0, <2>2, <2>3, <3>1, <3>2, Step DEF Places
  <2>5. CASE ~job[h].slot
    BY <1>9, <2>2, <2>3, <2>5, DoneStep DEF EditMessage
  <2> QED
    BY <2>4, <2>5
<1>10. CASE ReleaseSlot(h)
  <2> DEFINE j == Fresh("none")
  <2>1. job[h].slot = TRUE
    BY <1>0, <1>10 DEF ReleaseSlot, Mine, LocalOK, Job
  <2>2. j \in Job /\ LocalOK("idle", j) /\ j.slot = FALSE
    BY FreshOK DEF Fresh
  <2>3. /\ at' = [at EXCEPT ![h] = "idle"] /\ job' = [job EXCEPT ![h] = j]
        /\ sem' = sem - 1 /\ SessOK' /\ UNCHANGED <<shown, updates>>
    BY <1>10, SessUnchanged DEF ReleaseSlot, Goto
  <2> HIDE DEF j
  <2>4. sem' = IF j.slot = job[h].slot THEN sem ELSE IF j.slot THEN sem + 1 ELSE sem - 1
    BY <2>1, <2>2, <2>3
  <2> QED
    BY <1>0, <2>2, <2>3, <2>4, Step DEF Places
<1> QED
  BY <1>1, <1>2, <1>3, <1>4, <1>5, <1>6, <1>7, <1>8, <1>9, <1>10

-----------------------------------------------------------------------------
(* The slots, counted *)

(* The handlers with a slot can be counted.                                *)
LEMMA HoldersFinite == IsFiniteSet(Holders) /\ Cardinality(Holders) \in Nat
BY GoroutineAssumption, FS_Subset, FS_CardinalityType DEF Holders

(* The count follows the holders; it stays in bounds since only TakeSlot   *)
(* raises it, below the capacity.                                          *)
LEMMA CountKept ==
  ASSUME IInv, NEW h \in Goroutine, StepOK(h),
         job'[h].slot /\ ~job[h].slot => sem < MaxConcurrent
  PROVE  sem' = Cardinality(Holders') /\ sem' \in 0 .. MaxConcurrent
<1>1. PICK p \in Places, j \in Job : Moves(h, p, j)
  BY DEF StepOK
<1>2. /\ job \in [Goroutine -> Job] /\ sem \in 0 .. MaxConcurrent
      /\ sem = Cardinality(Holders) /\ MaxConcurrent \in Nat
  BY SemAssumption DEF IInv, TypeOK
<1>3. job' = [job EXCEPT ![h] = j] /\ j.slot \in BOOLEAN /\ job[h].slot \in BOOLEAN
  BY <1>1, <1>2 DEF Moves, Job
<1>4. job'[h] = j
  BY <1>2, <1>3
<1>5. \A g \in Goroutine : g # h => job'[g] = job[g]
  BY <1>2, <1>3
<1>6. SlotsMove(h)
  BY DEF StepOK
<1>7. CASE j.slot = job[h].slot
  <2>1. Holders' = Holders
    BY <1>4, <1>5, <1>7 DEF Holders
  <2>2. sem' = sem
    BY <1>4, <1>6, <1>7 DEF SlotsMove
  <2> QED
    BY <1>2, <2>1, <2>2
<1>8. CASE j.slot /\ ~job[h].slot
  <2>1. Holders' = Holders \cup {h} /\ h \notin Holders
    BY <1>4, <1>5, <1>8 DEF Holders
  <2>2. Cardinality(Holders \cup {h}) = Cardinality(Holders) + 1
    BY <2>1, HoldersFinite, FS_AddElement
  <2>3. sem' = sem + 1 /\ sem < MaxConcurrent
    BY <1>4, <1>6, <1>8 DEF SlotsMove
  <2> QED
    BY <1>2, <2>1, <2>2, <2>3
<1>9. CASE ~j.slot /\ job[h].slot
  <2>1. Holders' = Holders \ {h} /\ h \in Holders
    BY <1>4, <1>5, <1>9 DEF Holders
  <2>2. Cardinality(Holders \ {h}) = Cardinality(Holders) - 1
    BY <2>1, HoldersFinite, FS_RemoveElement
  <2>3. sem' = sem - 1
    BY <1>4, <1>6, <1>9 DEF SlotsMove
  <2>4. Cardinality(Holders \ {h}) \in Nat
    BY HoldersFinite, FS_Subset, FS_CardinalityType
  <2> QED
    BY <1>2, <2>1, <2>2, <2>3, <2>4
<1> QED
  BY <1>3, <1>7, <1>8, <1>9

(* A step that is sound for its handler keeps the invariant.               *)
LEMMA Keeps ==
  ASSUME IInv, NEW h \in Goroutine, StepOK(h),
         job'[h].slot /\ ~job[h].slot => sem < MaxConcurrent
  PROVE  IInv'
<1>1. PICK p \in Places, j \in Job : Moves(h, p, j)
  BY DEF StepOK
<1>2. at \in [Goroutine -> Places] /\ job \in [Goroutine -> Job]
  BY DEF IInv, TypeOK
<1>3. at' \in [Goroutine -> Places] /\ job' \in [Goroutine -> Job]
  BY <1>1, <1>2 DEF Moves
<1>4. \A g \in Goroutine : LocalOK(at'[g], job'[g])
  <2>1. \A g \in Goroutine : LocalOK(at[g], job[g])
    BY DEF IInv
  <2>2. at'[h] = p /\ job'[h] = j /\ LocalOK(p, j)
    BY <1>1, <1>2 DEF Moves
  <2>3. \A g \in Goroutine : g # h => at'[g] = at[g] /\ job'[g] = job[g]
    BY <1>1, <1>2 DEF Moves
  <2> QED
    BY <2>1, <2>2, <2>3
<1>5. sem' = Cardinality(Holders') /\ sem' \in 0 .. MaxConcurrent
  BY CountKept
<1>6. SessTypeOK' /\ OneWizardPerUser' /\ shown' \in [Message -> Display] /\ updates' \in Nat
  BY DEF StepOK, SessOK
<1>7. \A m \in Message : ButtonOK(shown'[m])
  BY DEF StepOK
<1>8. TypeOK'
  BY <1>3, <1>5, <1>6 DEF TypeOK
<1>9. \A g \in Goroutine : LocalOK(at[g], job[g])'
  BY <1>4 DEF LocalOK, ButtonOK, missingRequired
<1>10. \A m \in Message : ButtonOK(shown[m])'
  BY <1>7 DEF ButtonOK
<1> QED
  BY <1>5, <1>6, <1>8, <1>9, <1>10 DEF IInv
-----------------------------------------------------------------------------
(* The theorems *)

(* Every step of a handler is sound for it.                                *)
LEMMA HandlerStepOK ==
  ASSUME IInv, NEW h \in Goroutine, HandlerStep(h)
  PROVE  StepOK(h)
BY MessageStepsOK, RunStepsOK DEF HandlerStep

(* A slot is taken below the capacity only. *)
LEMMA SlotTaken ==
  ASSUME IInv, NEW h \in Goroutine, UserStep(h) \/ HandlerStep(h),
         job'[h].slot, ~job[h].slot
  PROVE  sem < MaxConcurrent
<1>1. /\ job \in [Goroutine -> Job] /\ sem \in 0 .. MaxConcurrent /\ MaxConcurrent \in Nat
      /\ sem = Cardinality(Holders) /\ MaxConcurrent \in Nat \ {0} /\ StepOK(h)
  BY SemAssumption, UserStepOK, HandlerStepOK DEF IInv, TypeOK
<1>2. sem' = sem + 1
  BY <1>1 DEF StepOK, SlotsMove
<1>3. CASE TakeSlot(h)
  BY <1>3 DEF TakeSlot
<1>4. CASE ~TakeSlot(h)
  <2>1. sem' = sem \/ sem' = sem - 1
    BY <1>4
    DEF UserStep, UserTexts, UserCancels, UserTaps, UserPicks, UserRuns, Arrive,
        HandlerStep, TakeReply, StartFlow, FindCancelled, EndCancelled, PickCluster,
        PickGroup, RunGroup, Begin, PickUseCase, SubmitForm, RenderRunning, Busy,
        CloseInput, KatoReturns, RenderResult, RenderError, EditMessage, ReleaseSlot
  <2> QED
    BY <1>1, <1>2, <2>1
<1> QED
  BY <1>3, <1>4

(* Everything the handlers rely on: sessions, places, locals and slots. *)
THEOREM Inductive == Spec => []IInv
<1>1. Init => IInv
  <2> SUFFICES ASSUME Init
               PROVE  IInv
    OBVIOUS
  <2>1. PICK old \in [Message -> OldScreens] : shown = [m \in Message |-> Show(old[m])]
    BY DEF Init
  <2>2. ASSUME NEW m \in Message
        PROVE  shown[m] \in Display /\ ButtonOK(shown[m])
    <3>1. old[m] \in Displays /\ old[m] # "button"
      BY ScreensAssumption DEF Displays
    <3> QED
      BY <2>1, <3>1, ShowOK
  <2>3. Fresh("none") \in Job /\ LocalOK("idle", Fresh("none")) /\ Fresh("none").slot = FALSE
    BY FreshOK DEF Fresh
  <2>4. SessTypeOK /\ OneWizardPerUser
    BY DEF Init, SessInit, SessTypeOK, OneWizardPerUser
  <2>5. Holders = {} /\ sem = 0 /\ MaxConcurrent \in Nat \ {0}
    BY <2>3, SemAssumption DEF Init, Holders
  <2>6. sem = Cardinality(Holders)
    BY <2>5, FS_EmptySet
  <2>7. at \in [Goroutine -> Places] /\ job \in [Goroutine -> Job] /\ updates \in Nat
    BY <2>3 DEF Init, Places
  <2>8. shown \in [Message -> Display]
    BY <2>1, <2>2
  <2>9. sem \in 0 .. MaxConcurrent
    BY <2>5
  <2>10. \A h \in Goroutine : LocalOK(at[h], job[h])
    BY <2>3 DEF Init
  <2> QED
    BY <2>2, <2>4, <2>6, <2>7, <2>8, <2>9, <2>10 DEF IInv, TypeOK
<1>2. IInv /\ [Next]_vars => IInv'
  <2> SUFFICES ASSUME IInv, [Next]_vars
               PROVE  IInv'
    OBVIOUS
  <2>1. ASSUME NEW h \in Goroutine, UserStep(h) \/ HandlerStep(h)
        PROVE  IInv'
    BY <2>1, UserStepOK, HandlerStepOK, SlotTaken, Keeps
  <2>2. ASSUME SessOK', UNCHANGED <<at, job, sem, shown, updates>>
        PROVE  IInv'
    <3>1. TypeOK' /\ OneWizardPerUser'
      BY <2>2 DEF IInv, TypeOK, SessOK
    <3>2. \A h \in Goroutine : LocalOK(at[h], job[h])'
      BY <2>2 DEF IInv, LocalOK, ButtonOK, missingRequired
    <3>3. \A m \in Message : ButtonOK(shown[m])'
      BY <2>2 DEF IInv, ButtonOK
    <3>4. (sem = Cardinality(Holders))'
      BY <2>2 DEF IInv, Holders
    <3> QED
      BY <3>1, <3>2, <3>3, <3>4 DEF IInv
  <2>3. ASSUME NEW m \in Message, Sweep(m)
        PROVE  IInv'
    <3>1. SessOK'
      BY <2>3, EndKeeps DEF Sweep, sweep, IInv, TypeOK, SessOK
    <3> QED
      BY <2>2, <2>3, <3>1 DEF Sweep
  <2>4. CASE UNCHANGED vars
    BY <2>2, <2>4, SessUnchanged DEF vars
  <2> QED
    BY <2>1, <2>3, <2>4 DEF Next
<1> QED
  BY <1>1, <1>2, PTL DEF Spec

(* Every variable keeps its type. *)
THEOREM TypeCorrect == Spec => []TypeOK
<1>1. IInv => TypeOK
  BY DEF IInv
<1> QED
  BY <1>1, Inductive, PTL

(* However a user's handlers overlap, each wizard is where its owner's     *)
(* index says: a user never has two.                                       *)
THEOREM OneWizard == Spec => []OneWizardPerUser
<1>1. IInv => OneWizardPerUser
  BY DEF IInv
<1> QED
  BY <1>1, Inductive, PTL

(* Kato is asked to run with every required input filled in, whatever      *)
(* became of the wizard the inputs came from.                              *)
THEOREM CompleteRuns == Spec => []RunsAreComplete
<1>1. IInv => RunsAreComplete
  BY DEF IInv, LocalOK, RunsAreComplete
<1> QED
  BY <1>1, Inductive, PTL

(* The semaphore counts exactly the runs that hold a slot. *)
THEOREM SlotsCounted == Spec => []SlotsAreCounted
<1>1. IInv => SlotsAreCounted
  BY DEF IInv, LocalOK, SlotsAreCounted, Holders
<1> QED
  BY <1>1, Inductive, PTL

-----------------------------------------------------------------------------
(* A chat with one user *)

OneUser == \A u, v \in User : u = v

(* Each step changes the sessions through one operation at most. *)
StoreStep ==
  \/ UNCHANGED sessVars
  \/ \E m \in Message, u \in User, uc \in UseCase : begin(m, u, uc)
  \/ \E m \in Message, have \in [Input -> Value], next \in Input \cup {NoInput} :
       update(m, have, next)
  \/ \E m \in Message : end(m)

(* begin keeps IndexedIsOwn, as no other user's index holds the message,   *)
(* and so does end, as no other user's index is left to hold it.           *)
LEMMA BeginIndexes ==
  ASSUME OneUser, SessOK, NEW m \in Message, NEW u \in User, NEW uc \in UseCase,
         begin(m, u, uc)
  PROVE  IndexedIsOwn'
<1> DEFINE new == [usecase |-> uc, user |-> u, next |-> NoInput, collected |-> NoInputs]
<1>1. new \in Pending /\ new.user = u /\ new # NoSession
  BY NoneAssumption DEF Pending, NoInputs, Value
<1>2. byM' = [Without(byU[u]) EXCEPT ![m] = new] /\ byU' = [byU EXCEPT ![u] = m]
  BY DEF begin
<1> HIDE DEF new
<1>3. byM'[m] = new /\ byU'[u] = m
  BY <1>2 DEF SessOK, SessTypeOK, Without
<1> QED
  BY <1>1, <1>3 DEF IndexedIsOwn, OneUser

(* A value recorded disturbs no index entry.                               *)
LEMMA UpdateIndexes ==
  ASSUME SessOK, IndexedIsOwn, NEW m \in Message, NEW have \in [Input -> Value],
         NEW next \in Input \cup {NoInput}, update(m, have, next)
  PROVE  IndexedIsOwn'
<1>1. CASE byM[m] = NoSession
  BY <1>1 DEF update, IndexedIsOwn
<1>2. CASE byM[m] # NoSession
  <2> DEFINE new == [byM[m] EXCEPT !.collected = have, !.next = next]
  <2>1. byM' = [byM EXCEPT ![m] = new] /\ byU' = byU
    BY <1>2 DEF update
  <2>2. byM[m] \in Pending
    BY <1>2 DEF SessOK, SessTypeOK
  <2>3. new.user = byM[m].user /\ new \in Pending /\ new # NoSession
    BY <2>2, NoneAssumption DEF Pending
  <2> HIDE DEF new
  <2> QED
    BY <2>1, <2>3 DEF SessOK, SessTypeOK, IndexedIsOwn
<1> QED
  BY <1>1, <1>2

(* A wizard ended takes its own index entry along.                         *)
LEMMA EndIndexes ==
  ASSUME OneUser, SessOK, IndexedIsOwn, NEW m \in Message, end(m)
  PROVE  IndexedIsOwn'
<1>1. CASE byM[m] = NoSession
  BY <1>1 DEF end, sessVars, IndexedIsOwn
<1>2. CASE byM[m] # NoSession
  <2>1. byM[m].user \in User /\ byU' = [byU EXCEPT ![byM[m].user] = NoMessage]
    BY <1>2 DEF end, SessOK, SessTypeOK, Pending
  <2>2. \A u \in User : byU'[u] = NoMessage
    BY <2>1 DEF OneUser, SessOK, SessTypeOK
  <2> QED
    BY <2>2 DEF IndexedIsOwn
<1> QED
  BY <1>1, <1>2

(* Every step does to the sessions what one operation does, or nothing.    *)
LEMMA StoreSteps ==
  ASSUME IInv, [Next]_vars
  PROVE  StoreStep
<1>1. ASSUME NEW h \in Goroutine, UserStep(h)
      PROVE  StoreStep
  BY <1>1 DEF UserStep, UserTexts, UserCancels, UserTaps, UserPicks, UserRuns, Arrive,
              StoreStep
<1>2. ASSUME NEW h \in Goroutine, HandlerStep(h)
      PROVE  StoreStep
  <2>1. Mine(h) /\ SessOK
    BY DEF IInv, TypeOK, Mine, SessOK
  <2>2. CASE Begin(h)
    BY <2>1, <2>2 DEF Begin, Mine, LocalOK, StoreStep
  <2>3. CASE EndCancelled(h) \/ Busy(h) \/ RenderResult(h) \/ RenderError(h)
    BY <2>1, <2>3 DEF EndCancelled, Busy, RenderResult, RenderError, Mine, LocalOK, StoreStep
  <2>4. CASE CloseInput(h)
    BY <2>1, <2>4 DEF CloseInput, Mine, LocalOK, Job, StoreStep
  <2>5. ASSUME NEW have \in [Input -> Value], NEW formErr \in BOOLEAN, NEW locals \in Job,
               locals.msg \in Message, locals.usecase \in UseCase,
               RenderForm(h, have, formErr, locals)
        PROVE  StoreStep
    BY <2>1, <2>5, RenderFormKeeps DEF StoreStep
  <2>6. CASE PickUseCase(h)
    <3>1. NoInputs \in [Input -> Value] /\ FALSE \in BOOLEAN
      BY DEF NoInputs, Value
    <3>2. job[h] \in Job /\ job[h].msg \in Message /\ job[h].usecase \in UseCase
      BY <2>1, <2>6 DEF PickUseCase, Mine, LocalOK
    <3>3. CASE RenderForm(h, NoInputs, FALSE, job[h])
      BY <2>5, <3>1, <3>2, <3>3
    <3> QED
      BY <2>6, <3>3 DEF PickUseCase, StoreStep
  <2>7. CASE SubmitForm(h)
    <3>1. /\ job[h] \in Job /\ job[h].inputs \in [Input -> Value] /\ TRUE \in BOOLEAN
          /\ job[h].msg \in Message /\ job[h].usecase \in UseCase
      BY <2>1, <2>7 DEF SubmitForm, Mine, LocalOK, Job
    <3>2. CASE RenderForm(h, job[h].inputs, TRUE, job[h])
      BY <2>5, <3>1, <3>2
    <3> QED
      BY <2>7, <3>2 DEF SubmitForm, StoreStep
  <2>8. CASE KatoReturns(h)
    <3> DEFINE locals == [job[h] EXCEPT !.rejected = TRUE]
    <3>1. /\ job[h] \in Job /\ job[h].inputs \in [Input -> Value] /\ TRUE \in BOOLEAN
          /\ job[h].msg \in Message /\ job[h].usecase \in UseCase
      BY <2>1, <2>8 DEF KatoReturns, Mine, LocalOK, Job
    <3>2. locals \in Job /\ locals.msg \in Message /\ locals.usecase \in UseCase
      BY <3>1 DEF Job
    <3>3. CASE RenderForm(h, job[h].inputs, TRUE, locals)
      <4> HIDE DEF locals
      <4> QED
        BY <2>5, <3>1, <3>2, <3>3
    <3> QED
      BY <2>8, <3>3 DEF KatoReturns, StoreStep
  <2>9. CASE \/ TakeReply(h) \/ StartFlow(h) \/ FindCancelled(h) \/ PickCluster(h)
             \/ PickGroup(h) \/ RunGroup(h) \/ RenderRunning(h) \/ TakeSlot(h)
             \/ EditMessage(h) \/ ReleaseSlot(h)
    BY <2>9 DEF TakeReply, StartFlow, FindCancelled, PickCluster, PickGroup, RunGroup,
                RenderRunning, TakeSlot, EditMessage, ReleaseSlot, StoreStep
  <2> QED
    BY <1>2, <2>2, <2>3, <2>4, <2>6, <2>7, <2>8, <2>9 DEF HandlerStep
<1>3. ASSUME NEW m \in Message, Sweep(m)
      PROVE  StoreStep
  BY <1>3 DEF Sweep, sweep, StoreStep
<1>4. CASE UNCHANGED vars
  BY <1>4 DEF vars, StoreStep
<1> QED
  BY <1>1, <1>2, <1>3, <1>4 DEF Next

(* In a chat with one user the index never points at a wizard that is gone *)
(* or another's: the double lookup of replyContext is never half true.  A  *)
(* second user who picks in the same message breaks this.                  *)
THEOREM PrivateIndex ==
  ASSUME OneUser
  PROVE  Spec => []IndexedIsOwn
<1>1. Init => IndexedIsOwn
  BY DEF Init, SessInit, IndexedIsOwn
<1>2. IInv /\ IndexedIsOwn /\ [Next]_vars => IndexedIsOwn'
  <2> SUFFICES ASSUME IInv, IndexedIsOwn, [Next]_vars
               PROVE  IndexedIsOwn'
    OBVIOUS
  <2>1. StoreStep /\ SessOK
    BY StoreSteps DEF IInv, TypeOK, SessOK
  <2>2. CASE UNCHANGED sessVars
    BY <2>2 DEF sessVars, IndexedIsOwn
  <2> QED
    BY <2>1, <2>2, BeginIndexes, UpdateIndexes, EndIndexes DEF StoreStep
<1> QED
  BY <1>1, <1>2, Inductive, PTL DEF Spec
=============================================================================
