---------------------------- MODULE ChatGroupRun ----------------------------
(***************************************************************************)
(* A group run started from a chat: the goroutine behind Lark's            *)
(* handleGroupRun and Telegram's runGroup, with the platform's group       *)
(* reporter and the optional LLM summary.                                  *)
(*                                                                         *)
(* What GroupRunner.Run does inside is GroupRun's; this module adds what   *)
(* the chat sees of it.  Every chat call of the run, the last one          *)
(* included, is made with the run's own context: once that is done, a call *)
(* fails without being sent.  A call that fails on the way may still have  *)
(* reached the platform.                                                   *)
(***************************************************************************)
EXTENDS GroupRun, Evidence, FiniteSets, SequencesExt

CONSTANTS
  Parts,        \* Telegram: chunk4096's pieces of the summary message
  Line,         \* Items -> bytes of the item's line in the evidence
  Runes, Width  \* Items -> runes of its summary, and bytes of one of them

ASSUME PartsAssumption == Parts \in Nat \ {0}
ASSUME TextAssumption == {Line, Runes, Width} \subseteq [Items -> Nat]

VARIABLES
  platform,  \* which adapter took the click
  want,      \* v.Summary || g.Summary
  gate,      \* GroupRunner's gate for the group: free, or held by this or another run
  at,        \* where the goroutine is
  results,   \* reporter.Results: items in the order received
  tally,     \* reporter.summ, by bucket
  shown,     \* the progress message as the chat shows it
  thread,    \* Lark: items replied under the parent card
  evidence,  \* what the summary was asked about, by position in results
  part,      \* summary pieces tried
  posted     \* summary pieces the chat has

chatVars == <<platform, want, gate, at, results, tally, shown, thread,
              evidence, part, posted>>
vars == <<absVars, chatVars>>

ZeroTally == [b \in Buckets |-> 0]
Card(state, n, t) == [state |-> state, count |-> n, tally |-> t]
NoCard == Card("none", 0, ZeroTally)

(* The tallies of a set of items. *)
TallyOf(S) == [b \in Buckets |-> Cardinality({i \in S : outcome[i] = b})]

parts == IF platform = "lark" THEN 1 ELSE Parts

ChatInit ==
  /\ AbsInit
  /\ platform \in {"lark", "telegram"}
  /\ want \in BOOLEAN
  /\ gate \in {"free", "other"}
  /\ at = "click"
  /\ results = <<>> /\ tally = ZeroTally
  /\ shown = NoCard
  /\ thread = {} /\ evidence = NoEvidence
  /\ part = 0 /\ posted = {}

-----------------------------------------------------------------------------
(* Chat calls *)

(* Mutant: the last edit has a context of its own. *)
EditSucceedsAnyTime(card) == shown' = card

EditSucceeds(card) == ~cancelled /\ shown' = card

EditFails(card) ==
  IF cancelled THEN shown' = shown ELSE shown' \in {shown, card}

-----------------------------------------------------------------------------
(* The click *)

(* Unknown group, or TryAcquire said no: an error is shown instead. *)
RefuseClick ==
  /\ at = "click"
  /\ at' = "refused"
  /\ UNCHANGED <<absVars, platform, want, gate, results, tally, shown, thread,
                 evidence, part, posted>>

Acquire ==
  /\ at = "click"
  /\ gate = "free"
  /\ gate' = "this"
  /\ at' = "start"
  /\ UNCHANGED <<absVars, platform, want, results, tally, shown, thread,
                 evidence, part, posted>>

-----------------------------------------------------------------------------
(* GroupRunner.Run and the reporter *)

(* Mutant: the goroutine returns without its deferred release. *)
StartFailsHolding ==
  /\ at = "start"
  /\ Refuse
  /\ EditFails(Card("running", 0, ZeroTally))
  /\ at' = "done"
  /\ UNCHANGED <<platform, want, gate, results, tally, thread, evidence, part, posted>>

(* The group's cluster is unknown, or the progress message was not sent. *)
StartFails ==
  /\ at = "start"
  /\ Refuse
  /\ EditFails(Card("running", 0, ZeroTally))
  /\ at' = "leaving"
  /\ UNCHANGED <<platform, want, gate, results, tally, thread, evidence, part, posted>>

StartSent ==
  /\ at = "start"
  /\ Begin
  /\ EditSucceeds(Card("running", 0, ZeroTally))
  /\ at' = "collect"
  /\ UNCHANGED <<platform, want, gate, results, tally, thread, evidence, part, posted>>

AfterCount == IF platform = "lark" THEN "reply" ELSE "edit"

(* Mutant: the switch over the buckets has no default branch. *)
ServiceDoneNoDefault(i, b) ==
  /\ at = "collect"
  /\ Report(i, b)
  /\ results' = Append(results, i)
  /\ tally' = IF b = "unknown" THEN tally ELSE [tally EXCEPT ![b] = @ + 1]
  /\ at' = AfterCount
  /\ UNCHANGED <<platform, want, gate, shown, thread, evidence, part, posted>>

(* ServiceDone counts the result before it calls the chat. *)
ServiceDone(i, b) ==
  /\ at = "collect"
  /\ Report(i, b)
  /\ results' = Append(results, i)
  /\ tally' = [tally EXCEPT ![b] = @ + 1]
  /\ at' = AfterCount
  /\ UNCHANGED <<platform, want, gate, shown, thread, evidence, part, posted>>

(* Lark: the result goes under the parent card; if that fails, the parent  *)
(* is not patched for it.                                                  *)
ReplyService ==
  /\ at = "reply"
  /\ \/ /\ ~cancelled
        /\ thread' = thread \cup {Last(results)}
        /\ at' = "edit"
     \/ /\ thread' \in {thread} \cup
             (IF cancelled THEN {} ELSE {thread \cup {Last(results)}})
        /\ at' = "collect"
  /\ UNCHANGED <<absVars, platform, want, gate, results, tally, shown,
                 evidence, part, posted>>

(* The progress message; GroupRunner.Run ignores a failure. *)
EditProgress ==
  LET card == Card("running", Len(results), tally) IN
  /\ at = "edit"
  /\ EditSucceeds(card) \/ EditFails(card)
  /\ at' = "collect"
  /\ UNCHANGED <<absVars, platform, want, gate, results, tally, thread,
                 evidence, part, posted>>

FinalCard == Card("done", N, TallyOf(Items))

(* Mutants of Finish: Run hides its error, or the gate is given back as    *)
(* soon as Run returns.                                                    *)
FinishUnheeded ==
  /\ at = "collect"
  /\ End
  /\ EditSucceeds(FinalCard) \/ EditFails(FinalCard)
  /\ at' = IF want THEN "summarize" ELSE "leaving"
  /\ UNCHANGED <<platform, want, gate, results, tally, thread, evidence, part, posted>>

FinishReleasing ==
  /\ at = "collect"
  /\ End
  /\ \/ EditSucceeds(FinalCard) /\ at' = (IF want THEN "summarize" ELSE "leaving")
     \/ EditFails(FinalCard) /\ at' = "leaving"
  /\ gate' = "free"
  /\ UNCHANGED <<platform, want, results, tally, thread, evidence, part, posted>>

(* The final message says N of N.  Its failure is Run's error: the         *)
(* goroutine logs it and leaves, summary or not.                           *)
Finish ==
  /\ at = "collect"
  /\ End
  /\ \/ EditSucceeds(FinalCard) /\ at' = (IF want THEN "summarize" ELSE "leaving")
     \/ EditFails(FinalCard) /\ at' = "leaving"
  /\ UNCHANGED <<platform, want, gate, results, tally, thread, evidence, part, posted>>

-----------------------------------------------------------------------------
(* The summary *)

(* What BuildEvidence is given; a target whose call failed has no summary. *)
EvidenceOf(i) ==
  [header |-> Line[i], healthy |-> outcome[i] = "healthy",
   runes |-> IF outcome[i] = "errored" THEN 0 ELSE Runes[i], width |-> Width[i]]
evidenceResults == [k \in DOMAIN results |-> EvidenceOf(results[k])]

(* Summarize is total: text or a warning, which are posted alike. *)
Summarize ==
  /\ at = "summarize"
  /\ evidence' = BuildEvidence(evidenceResults)
  /\ at' = "post"
  /\ UNCHANGED <<absVars, platform, want, gate, results, tally, shown, thread,
                 part, posted>>

(* Mutant: one piece too many. *)
PostPartBeyond ==
  /\ at = "post"
  /\ part' = part + 1
  /\ posted' \in {posted} \cup (IF cancelled THEN {} ELSE {posted \cup {part}})
  /\ at' = IF part = parts THEN "leaving" ELSE "post"
  /\ UNCHANGED <<absVars, platform, want, gate, results, tally, shown, thread,
                 evidence>>

(* One piece after the other; a failed one does not stop the rest. *)
PostPart ==
  /\ at = "post"
  /\ part' = part + 1
  /\ posted' \in {posted} \cup (IF cancelled THEN {} ELSE {posted \cup {part}})
  /\ at' = IF part' = parts THEN "leaving" ELSE "post"
  /\ UNCHANGED <<absVars, platform, want, gate, results, tally, shown, thread,
                 evidence>>

(* The deferred release. *)
Release ==
  /\ at = "leaving"
  /\ at' = "done"
  /\ gate' = "free"
  /\ UNCHANGED <<absVars, platform, want, results, tally, shown, thread,
                 evidence, part, posted>>

-----------------------------------------------------------------------------
(* Around the goroutine *)

(* GroupTimeout passes. *)
Timeout ==
  /\ at \notin {"click", "refused", "done"}
  /\ Cancel
  /\ UNCHANGED chatVars

(* Another run of the same group, from a chat or from groupapi. *)
OtherRun ==
  /\ gate' = [free |-> "other", other |-> "free", this |-> "this"][gate]
  /\ gate' # gate
  /\ UNCHANGED <<absVars, platform, want, at, results, tally, shown, thread,
                 evidence, part, posted>>

GoroutineStep ==
  \/ RefuseClick \/ Acquire
  \/ StartFails \/ StartSent
  \/ \E i \in Items, b \in Buckets : ServiceDone(i, b)
  \/ ReplyService \/ EditProgress \/ Finish
  \/ Summarize \/ PostPart \/ Release

ChatNext == GoroutineStep \/ Timeout \/ OtherRun

(* The goroutine is scheduled, GroupRunner.Run keeps reporting until it    *)
(* ends (GroupRunner's Termination), and every chat and LLM call returns   *)
(* by the run's deadline.                                                  *)
ChatSpec == ChatInit /\ [][ChatNext]_vars /\ WF_vars(GoroutineStep)

-----------------------------------------------------------------------------
(* Properties *)

TypeOK ==
  /\ phase \in {"idle", "running", "refused", "ended"}
  /\ outcome \in [Items -> Buckets \cup {NoOutcome}] /\ cancelled \in BOOLEAN
  /\ platform \in {"lark", "telegram"} /\ want \in BOOLEAN
  /\ gate \in {"free", "this", "other"}
  /\ at \in {"click", "refused", "start", "collect", "reply", "edit",
             "summarize", "post", "leaving", "done"}
  /\ ToSet(results) \subseteq Items /\ Len(results) <= N
  /\ tally \in [Buckets -> 0 .. N]
  /\ shown \in [state : {"none", "running", "done"}, count : 0 .. N,
                tally : [Buckets -> 0 .. N]]
  /\ thread \subseteq ToSet(results)
  /\ evidence \in [lines : SUBSET DOMAIN results, details : SUBSET DOMAIN results,
                   size : Nat, truncated : BOOLEAN]
  /\ part \in 0 .. parts /\ posted \subseteq 0 .. part - 1
  /\ platform = "telegram" => thread = {}

(* The progress message is always a state the run really was in: the       *)
(* counts it shows add up to the targets it says have completed, each of   *)
(* which has been reported, although edits may be skipped or lost.         *)
ProgressIsTrue ==
  /\ shown.count <= Len(results)
  /\ shown.tally = TallyOf(ToSet(SubSeq(results, 1, shown.count)))

(* A message that says the group is done says so of every target.  Finish  *)
(* writes "N/N" whatever was reported, so this rests on the last edit      *)
(* failing whenever the run was cut short by its own context.              *)
FinalIsComplete == shown.state = "done" => ToSet(results) = Items

(* The summary is asked about every target's outcome, those whose reply or *)
(* edit failed included, only after the final message is up; the LLM is    *)
(* told that some of it is missing exactly when some is.                   *)
SummaryIsComplete ==
  at = "post" \/ posted # {} =>
    /\ ToSet(results) = Items
    /\ shown.state = "done"
    /\ evidence.truncated <=> Missing(evidenceResults, evidence) # {}

(* The evidence keeps within its budget whatever order the targets end in, *)
(* and leaves out only what did not fit when its turn came: "later,        *)
(* shorter services still get their evidence".                             *)
EvidenceFillsBudget ==
  at = "post" => FillsBudget(evidenceResults, evidence)

(* The gate is this run's for as long as the goroutine has anything left   *)
(* to do, the summary included: no other run of the group overlaps it.     *)
GateCoversRun == at \notin {"click", "refused", "done"} => gate = "this"

(* Whatever fails, the group can be run again. *)
GateReleased == gate = "this" ~> gate # "this"
=============================================================================
