------------------------- MODULE ChatGroupRunProofs -------------------------
(***************************************************************************)
(* ChatGroupRun for any number of targets, pieces of summary and bytes:    *)
(* what the progress message says is true, "done" means every target,      *)
(* the gate is held to the end, and the LLM is told of every target that   *)
(* fits its budget, in whatever order they end.                            *)
(*                                                                         *)
(* The message is one of the past: it was written some results ago, and    *)
(* edits since were skipped or lost.  The argument is that results only    *)
(* ever grow at the end and a target's outcome never changes once it is    *)
(* reported, so that what was true of the first results stays true.  What  *)
(* the loops over the results compute is proved by Induction over their    *)
(* turns.                                                                  *)
(***************************************************************************)
EXTENDS ChatGroupRun, FiniteSetTheorems, SequenceTheorems, WellFoundedInduction, TLAPS

-----------------------------------------------------------------------------
(* The inductive invariant *)

Reported == {i \in Items : outcome[i] # NoOutcome}

(* The targets of the first n results. *)
First(n) == {results[j] : j \in 1 .. n}

Typed ==
  /\ outcome \in [Items -> Buckets \cup {NoOutcome}]
  /\ results \in Seq(Items)
  /\ gate \in {"free", "this", "other"}

(* Each target reported is a result once, and counted once. *)
Counted ==
  /\ First(Len(results)) = Reported
  /\ Len(results) = Cardinality(Reported)
  /\ tally = TallyOf(Reported)

ShownTrue ==
  /\ shown.count \in 0 .. Len(results)
  /\ shown.tally = TallyOf(First(shown.count))
  /\ shown.state = "done" => Reported = Items

IInv == Typed /\ Counted /\ ShownTrue /\ GateCoversRun

-----------------------------------------------------------------------------
(* Sets of targets *)

(* There are finitely many targets. *)
LEMMA ItemsFinite ==
  /\ IsFiniteSet(Items) /\ Cardinality(Items) = N
  /\ \A S \in SUBSET Items : IsFiniteSet(S) /\ Cardinality(S) \in Nat
<1>1. IsFiniteSet(Items) /\ Cardinality(Items) = N
  BY NAssumption, FS_Interval DEF Items
<1> QED
  BY <1>1, FS_Subset, FS_CardinalityType

(* First is what the first results of a sequence are. *)
LEMMA FirstOfResults ==
  ASSUME Typed, NEW n \in 0 .. Len(results)
  PROVE  ToSet(SubSeq(results, 1, n)) = First(n)
<1>1. /\ SubSeq(results, 1, n) \in Seq(Items) /\ Len(SubSeq(results, 1, n)) = n
      /\ \A i \in 1 .. n : SubSeq(results, 1, n)[i] = results[i]
  BY SubSeqProperties, LenProperties DEF Typed
<1>2. DOMAIN SubSeq(results, 1, n) = 1 .. n
  BY <1>1, LenProperties
<1> QED
  BY <1>1, <1>2 DEF ToSet, First

(* Nothing of what is counted changes. *)
LEMMA CountedKept ==
  ASSUME IInv, UNCHANGED <<outcome, results, tally>>
  PROVE  Counted'
BY DEF IInv, Counted, First, Reported, TallyOf

(* The message is left alone, or says what the results are now. *)
LEMMA ShownKept ==
  ASSUME IInv, UNCHANGED <<outcome, results, tally>>,
         shown' = shown \/ shown' = Card("running", Len(results), tally)
  PROVE  ShownTrue'
<1>1. CASE shown' = shown
  BY <1>1 DEF IInv, ShownTrue, First, Reported, TallyOf
<1>2. CASE shown' = Card("running", Len(results), tally)
  <2>1. /\ shown'.count = Len(results) /\ shown'.tally = tally /\ shown'.state = "running"
    BY <1>2 DEF Card
  <2>2. Len(results) \in 0 .. Len(results)
    BY LenProperties DEF IInv, Typed
  <2>3. tally = TallyOf(First(Len(results)))
    BY DEF IInv, Counted
  <2>4. ShownTrue' <=> /\ shown'.count \in 0 .. Len(results)
                       /\ shown'.tally = TallyOf(First(shown'.count))
                       /\ shown'.state = "done" => Reported = Items
    BY DEF ShownTrue, First, Reported, TallyOf
  <2> QED
    BY <2>1, <2>2, <2>3, <2>4
<1> QED
  BY <1>1, <1>2

-----------------------------------------------------------------------------
(* A result *)

(* The tally of the buckets, with one more target in bucket b. *)
LEMMA TallyGrows ==
  ASSUME Typed, NEW i \in Items, NEW b \in Buckets, Report(i, b)
  PROVE  /\ Reported' = Reported \cup {i} /\ i \notin Reported
         /\ TallyOf(Reported)' = [TallyOf(Reported) EXCEPT ![b] = @ + 1]
<1> DEFINE In(S, c) == {j \in S : outcome[j] = c}
<1>1. /\ outcome' = [outcome EXCEPT ![i] = b] /\ outcome[i] = NoOutcome
      /\ b # NoOutcome
  BY DEF Report, Buckets, NoOutcome
<1>2. /\ outcome'[i] = b
      /\ \A j \in Items : j # i => outcome'[j] = outcome[j]
  BY <1>1 DEF Typed
<1>3. Reported' = Reported \cup {i} /\ i \notin Reported
  BY <1>1, <1>2 DEF Reported, Items
<1>4. ASSUME NEW c \in Buckets
      PROVE  Cardinality({j \in Reported \cup {i} : outcome'[j] = c})
               = IF c = b THEN Cardinality(In(Reported, c)) + 1
                 ELSE Cardinality(In(Reported, c))
  <2>1. {j \in Reported \cup {i} : outcome'[j] = c}
          = IF c = b THEN In(Reported, c) \cup {i} ELSE In(Reported, c)
    BY <1>1, <1>2, <1>3 DEF Reported
  <2>2. IsFiniteSet(In(Reported, c)) /\ i \notin In(Reported, c)
    BY <1>3, ItemsFinite DEF Reported
  <2>3. Cardinality(In(Reported, c) \cup {i}) = Cardinality(In(Reported, c)) + 1
    BY <2>2, FS_AddElement
  <2> QED
    BY <2>1, <2>3
<1>5. TallyOf(Reported)'
        = [c \in Buckets |-> Cardinality({j \in Reported \cup {i} : outcome'[j] = c})]
  BY <1>3 DEF TallyOf
<1> QED
  BY <1>3, <1>4, <1>5 DEF TallyOf

(* One more result: the tally grows by one, and what was true of the first *)
(* results still is.                                                       *)
LEMMA ResultKeeps ==
  ASSUME IInv, NEW i \in Items, NEW b \in Buckets, ServiceDone(i, b)
  PROVE  Typed' /\ Counted' /\ ShownTrue'
<1> DEFINE n == Len(results)
<1>1. /\ Report(i, b) /\ results' = Append(results, i)
      /\ tally' = [tally EXCEPT ![b] = @ + 1] /\ UNCHANGED <<gate, shown>>
  BY DEF ServiceDone
<1>2. /\ results \in Seq(Items) /\ n \in Nat /\ Typed
  BY LenProperties DEF IInv, Typed
<1>3. /\ results' \in Seq(Items) /\ Len(results') = n + 1 /\ results'[n + 1] = i
      /\ \A j \in 1 .. n : results'[j] = results[j]
  BY <1>1, <1>2, AppendProperties
<1>4. Typed'
  <2>1. outcome' \in [Items -> Buckets \cup {NoOutcome}]
    <3>1. outcome' = [outcome EXCEPT ![i] = b]
      BY <1>1 DEF Report
    <3> QED
      BY <1>2, <3>1 DEF Typed
  <2> QED
    BY <1>1, <1>2, <1>3, <2>1 DEF Typed
<1>5. /\ Reported' = Reported \cup {i} /\ i \notin Reported
      /\ TallyOf(Reported)' = [TallyOf(Reported) EXCEPT ![b] = @ + 1]
  BY <1>1, <1>2, TallyGrows
<1>6. Counted'
  <2>1. First(n) = Reported /\ n = Cardinality(Reported) /\ tally = TallyOf(Reported)
    BY DEF IInv, Counted
  <2>2. {results'[j] : j \in 1 .. n + 1} = {results'[j] : j \in 1 .. n} \cup {i}
    BY <1>2, <1>3
  <2>3. {results'[j] : j \in 1 .. n} = {results[j] : j \in 1 .. n}
    BY <1>3
  <2>4. {results'[j] : j \in 1 .. n + 1} = Reported'
    BY <1>5, <2>1, <2>2, <2>3 DEF First
  <2>5. Cardinality(Reported') = n + 1
    <3>1. IsFiniteSet(Reported)
      BY ItemsFinite DEF Reported
    <3>2. i \notin Reported /\ Reported' = Reported \cup {i}
      BY <1>5
    <3>3. Cardinality(Reported \cup {i}) = Cardinality(Reported) + 1
      BY <3>1, <3>2, FS_AddElement
    <3> QED
      BY <2>1, <3>2, <3>3
  <2>6. tally' = TallyOf(Reported)'
    BY <1>1, <1>5, <2>1
  <2> QED
    BY <1>3, <2>4, <2>5, <2>6 DEF Counted, First
<1>7. ShownTrue'
  <2>1. /\ shown.count \in 0 .. n /\ shown.tally = TallyOf(First(shown.count))
        /\ shown.state = "done" => Reported = Items
    BY DEF IInv, ShownTrue
  <2>2. First(shown.count) \subseteq First(n)
    BY <1>2, <2>1 DEF First
  <2>3. First(shown.count) \in SUBSET Reported
    BY <2>2 DEF IInv, Counted
  <2>4. {results'[j] : j \in 1 .. shown.count} = First(shown.count)
    BY <1>2, <1>3, <2>1 DEF First
  <2>5. Reported # Items
    BY <1>5
  <2>6. shown'.count \in 0 .. Len(results')
    BY <1>1, <1>2, <1>3, <2>1
  <2>7. shown'.tally = TallyOf(First(shown.count))'
    <3>1. TallyOf(First(shown.count)) =
            [c \in Buckets |-> Cardinality({j \in First(shown.count) : outcome'[j] = c})]
      <4>1. \A j \in First(shown.count) : outcome'[j] = outcome[j]
        BY <1>1, <1>2, <2>3 DEF Report, Reported, Typed
      <4>2. \A c \in Buckets : {j \in First(shown.count) : outcome'[j] = c}
                                = {j \in First(shown.count) : outcome[j] = c}
        BY <4>1
      <4> QED
        BY <4>2 DEF TallyOf
    <3> QED
      BY <1>1, <2>1, <2>4, <3>1 DEF TallyOf, First
  <2>8. shown'.state # "done"
    BY <1>1, <2>1, <2>5
  <2> QED
    BY <2>6, <2>7, <2>8 DEF ShownTrue
<1> QED
  BY <1>4, <1>6, <1>7

-----------------------------------------------------------------------------
(* The last edit *)

(* Run ends with the context alive only if every target was reported, so   *)
(* the message that reaches the chat is true of all of them.               *)
LEMMA FinishKeeps ==
  ASSUME IInv, Finish
  PROVE  ShownTrue'
<1>1. /\ UNCHANGED <<outcome, results, tally, cancelled>>
      /\ cancelled \/ \A i \in Items : outcome[i] # NoOutcome
      /\ shown' = shown \/ (~cancelled /\ shown' = FinalCard)
  BY DEF Finish, End, EditSucceeds, EditFails
<1>2. CASE shown' = shown
  BY <1>1, <1>2, ShownKept
<1>3. CASE ~cancelled /\ shown' = FinalCard
  <2>1. Reported = Items
    BY <1>1, <1>3 DEF Reported
  <2>2. Len(results) = N
    BY <2>1, ItemsFinite DEF IInv, Counted
  <2>3. shown'.count = N /\ shown'.tally = TallyOf(Items)
    BY <1>3 DEF FinalCard, Card
  <2>4. First(N) = Items
    BY <2>1, <2>2 DEF IInv, Counted
  <2>5. ShownTrue' <=> /\ shown'.count \in 0 .. Len(results)
                       /\ shown'.tally = TallyOf(First(shown'.count))
                       /\ shown'.state = "done" => Reported = Items
    BY <1>1 DEF ShownTrue, First, Reported, TallyOf
  <2> QED
    BY <2>1, <2>2, <2>3, <2>4, <2>5, NAssumption
<1> QED
  BY <1>1, <1>2, <1>3

-----------------------------------------------------------------------------
(* Every step *)

(* The gate is taken before anything else and given back last. *)
LEMMA GateKept ==
  ASSUME IInv, [ChatNext]_vars
  PROVE  GateCoversRun' /\ gate' \in {"free", "this", "other"}
<1>0. GateCoversRun /\ gate \in {"free", "this", "other"}
  BY DEF IInv, Typed
<1>1. CASE Acquire
  BY <1>1 DEF Acquire, GateCoversRun
<1>2. CASE Release
  BY <1>2 DEF Release, GateCoversRun
<1>3. CASE OtherRun
  <2>1. gate # "this"
    BY <1>3 DEF OtherRun
  <2>2. gate' \in {"free", "this", "other"} /\ at' = at
    BY <1>0, <1>3 DEF OtherRun
  <2> QED
    BY <1>0, <2>1, <2>2 DEF GateCoversRun
<1>4. CASE RefuseClick
  BY <1>0, <1>4 DEF RefuseClick, GateCoversRun
<1>5. CASE Timeout \/ UNCHANGED vars
  BY <1>0, <1>5 DEF Timeout, GateCoversRun, vars, chatVars
<1>6. CASE StartFails \/ StartSent \/ ReplyService \/ EditProgress \/ Finish
           \/ Summarize \/ PostPart
  <2>1. gate' = gate /\ at \notin {"click", "refused", "done"}
    BY <1>6 DEF StartFails, StartSent, ReplyService, EditProgress, Finish, Summarize, PostPart
  <2> QED
    BY <1>0, <2>1 DEF GateCoversRun
<1>7. ASSUME NEW i \in Items, NEW b \in Buckets, ServiceDone(i, b)
      PROVE  GateCoversRun' /\ gate' \in {"free", "this", "other"}
  BY <1>0, <1>7 DEF ServiceDone, GateCoversRun
<1> QED
  BY <1>1, <1>2, <1>3, <1>4, <1>5, <1>6, <1>7 DEF ChatNext, GoroutineStep

(* Every step of the run, of the service or of another run. *)
LEMMA NextKeeps ==
  ASSUME IInv, [ChatNext]_vars
  PROVE  IInv'
<1>0. GateCoversRun' /\ gate' \in {"free", "this", "other"}
  BY GateKept
<1>1. ASSUME NEW i \in Items, NEW b \in Buckets, ServiceDone(i, b)
      PROVE  IInv'
  BY <1>0, <1>1, ResultKeeps DEF IInv
<1>2. ASSUME UNCHANGED <<outcome, results, tally>>
      PROVE  Typed' /\ Counted'
  BY <1>0, <1>2, CountedKept DEF IInv, Typed
<1>3. CASE StartFails \/ StartSent
  <2>1. /\ UNCHANGED <<outcome, results, tally>>
        /\ shown' = shown \/ shown' = Card("running", 0, ZeroTally)
    BY <1>3 DEF StartFails, StartSent, Refuse, Begin, EditFails, EditSucceeds
  <2>2. ASSUME shown' = Card("running", 0, ZeroTally)
        PROVE  ShownTrue'
    <3>1. shown'.count = 0 /\ shown'.tally = ZeroTally /\ shown'.state = "running"
      BY <2>2 DEF Card
    <3>2. TallyOf({})' = ZeroTally
      BY FS_EmptySet DEF TallyOf, ZeroTally
    <3>3. First(0)' = {}
      BY DEF First
    <3>4. Len(results') \in Nat
      BY <1>2, <2>1, LenProperties DEF Typed
    <3> QED
      BY <3>1, <3>2, <3>3, <3>4 DEF ShownTrue
  <2> QED
    BY <1>0, <1>2, <2>1, <2>2, ShownKept DEF IInv
<1>4. CASE Finish
  <2>1. UNCHANGED <<outcome, results, tally>>
    BY <1>4 DEF Finish, End
  <2> QED
    BY <1>0, <1>2, <1>4, <2>1, FinishKeeps DEF IInv
<1>5. CASE EditProgress
  <2>1. /\ UNCHANGED <<outcome, results, tally>>
        /\ shown' = shown \/ shown' = Card("running", Len(results), tally)
    BY <1>5 DEF EditProgress, EditFails, EditSucceeds, absVars
  <2> QED
    BY <1>0, <1>2, <2>1, ShownKept DEF IInv
<1>6. CASE UNCHANGED <<outcome, results, tally, shown>>
  BY <1>0, <1>2, <1>6, ShownKept DEF IInv
<1>7. ASSUME ReplyService \/ Summarize \/ PostPart \/ Release \/ Acquire
             \/ RefuseClick \/ OtherRun \/ Timeout \/ UNCHANGED vars
      PROVE  UNCHANGED <<outcome, results, tally, shown>>
  BY <1>7 DEF ReplyService, Summarize, PostPart, Release, Acquire, RefuseClick,
     OtherRun, Timeout, Cancel, vars, chatVars, absVars
<1> QED
  BY <1>1, <1>3, <1>4, <1>5, <1>6, <1>7 DEF ChatNext, GoroutineStep

-----------------------------------------------------------------------------
(* The theorems *)

(* Results, tallies and the message hang together at all times. *)
THEOREM Inductive == ChatSpec => []IInv
<1>1. ChatInit => IInv
  <2> SUFFICES ASSUME ChatInit
               PROVE  IInv
    OBVIOUS
  <2>1. /\ outcome = [i \in Items |-> NoOutcome] /\ results = <<>> /\ tally = ZeroTally
        /\ shown.count = 0 /\ shown.tally = ZeroTally /\ shown.state = "none"
        /\ gate \in {"free", "other"} /\ at = "click"
    BY DEF ChatInit, AbsInit, NoCard, Card
  <2>2. Reported = {} /\ First(0) = {} /\ Len(results) = 0
    BY <2>1 DEF Reported, First
  <2>3. TallyOf({}) = ZeroTally
    BY FS_EmptySet DEF TallyOf, ZeroTally
  <2>4. Typed
    BY <2>1, EmptySeq DEF Typed
  <2>5. Counted
    BY <2>1, <2>2, <2>3, FS_EmptySet DEF Counted
  <2>6. ShownTrue
    <3>1. shown.count \in 0 .. Len(results) /\ shown.state # "done"
      BY <2>1, <2>2
    <3>2. shown.tally = TallyOf(First(shown.count))
      BY <2>1, <2>2, <2>3
    <3> QED
      BY <3>1, <3>2 DEF ShownTrue
  <2> QED
    BY <2>1, <2>4, <2>5, <2>6 DEF IInv, GateCoversRun
<1>2. IInv /\ [ChatNext]_vars => IInv'
  BY NextKeeps
<1> QED
  BY <1>1, <1>2, PTL DEF ChatSpec

(* Whatever edits are skipped, refused or lost, the counts in the message  *)
(* are the outcomes of the first results.                                  *)
THEOREM ProgressTrue == ChatSpec => []ProgressIsTrue
<1>1. IInv => ProgressIsTrue
  <2> SUFFICES ASSUME IInv
               PROVE  ProgressIsTrue
    OBVIOUS
  <2>1. shown.count \in 0 .. Len(results) /\ Len(results) \in Nat
    BY LenProperties DEF IInv, ShownTrue, Typed
  <2>2. ToSet(SubSeq(results, 1, shown.count)) = First(shown.count)
    BY <2>1, FirstOfResults DEF IInv
  <2> QED
    BY <2>1, <2>2 DEF IInv, ShownTrue, ProgressIsTrue
<1> QED
  BY <1>1, Inductive, PTL

(* "Done" is never shown for a run that was cut short. *)
THEOREM FinalComplete == ChatSpec => []FinalIsComplete
<1>1. IInv => FinalIsComplete
  <2> SUFFICES ASSUME IInv, shown.state = "done"
               PROVE  ToSet(results) = Items
    BY DEF FinalIsComplete
  <2>1. First(Len(results)) = Items
    BY DEF IInv, Counted, ShownTrue
  <2>2. Len(results) \in 0 .. Len(results) /\ SubSeq(results, 1, Len(results)) = results
    BY SubSeqFull, LenProperties DEF IInv, Typed
  <2> QED
    BY <2>1, <2>2, FirstOfResults DEF IInv
<1> QED
  BY <1>1, Inductive, PTL

(* No other run of the group overlaps this one, from the click to the last *)
(* piece of the summary.                                                   *)
THEOREM GateCovers == ChatSpec => []GateCoversRun
<1>1. IInv => GateCoversRun
  BY DEF IInv
<1> QED
  BY <1>1, Inductive, PTL

-----------------------------------------------------------------------------
(* Loops: facts about what they compute, by induction over their turns *)

(* A set that holds 0 and, with n, n + 1, holds every number: otherwise    *)
(* the least number outside it would have its predecessor inside.          *)
LEMMA Induction ==
  ASSUME NEW S, 0 \in S, \A n \in Nat : n \in S => n + 1 \in S
  PROVE  Nat \subseteq S
<1> DEFINE T == Nat \ S
<1> SUFFICES ASSUME T # {}
             PROVE  FALSE
  OBVIOUS
<1>1. PICK x \in T : \A y \in T : ~ (<<y, x>> \in OpToRel(<, Nat))
  BY NatLessThanWellFounded, WFMin
<1>2. x \in Nat \ {0} /\ x - 1 \in Nat
  OBVIOUS
<1>3. <<x - 1, x>> \in OpToRel(<, Nat)
  BY <1>2 DEF OpToRel
<1>4. x - 1 \in S
  BY <1>1, <1>2, <1>3, Zenon
<1> QED
  BY <1>2, <1>4


(* f is what a loop of n turns does: f[k] is its state after turn k. *)
Follows(f, n, first, step) ==
  f[0] = first /\ \A k \in 1 .. n : f[k] = step[<<k, f[k - 1]>>]

(* A loop whose turns keep to a type has such a function, of that type. *)
LEMMA LoopDefined ==
  ASSUME NEW n \in Nat, NEW S, NEW first \in S, NEW step \in [(1 .. n) \X S -> S]
  PROVE  \E f \in [0 .. n -> S] : Follows(f, n, first, step)
<1> DEFINE Upto(m, f) == f[0] = first /\ \A k \in 1 .. m : f[k] = step[<<k, f[k - 1]>>]
           T == {m \in Nat : m <= n => \E f \in [0 .. m -> S] : Upto(m, f)}
<1>1. 0 \in T
  <2>1. [k \in 0 .. 0 |-> first] \in [0 .. 0 -> S] /\ Upto(0, [k \in 0 .. 0 |-> first])
    OBVIOUS
  <2> QED
    BY <2>1
<1>2. ASSUME NEW m \in Nat, m \in T
      PROVE  m + 1 \in T
  <2> SUFFICES ASSUME m + 1 <= n
               PROVE  \E f \in [0 .. m + 1 -> S] : Upto(m + 1, f)
    OBVIOUS
  <2>1. PICK f \in [0 .. m -> S] : Upto(m, f)
    BY <1>2
  <2> DEFINE last == step[<<m + 1, f[m]>>]
             g == [k \in 0 .. m + 1 |-> IF k = m + 1 THEN last ELSE f[k]]
  <2>2. last \in S
    OBVIOUS
  <2>3. g \in [0 .. m + 1 -> S]
    BY <2>2
  <2>4. g[m + 1] = last /\ \A k \in 0 .. m : g[k] = f[k]
    OBVIOUS
  <2> HIDE DEF g
  <2>5. ASSUME NEW k \in 1 .. m + 1
        PROVE  g[k] = step[<<k, g[k - 1]>>]
    <3>1. CASE k = m + 1
      BY <2>4, <3>1
    <3>2. CASE k \in 1 .. m
      BY <2>1, <2>4, <3>2
    <3> QED
      BY <3>1, <3>2
  <2>6. g[0] = first
    BY <2>1, <2>4
  <2> QED
    BY <2>3, <2>5, <2>6
<1>3. n \in T
  <2> HIDE DEF T
  <2>1. Nat \subseteq T
    BY <1>1, <1>2, Induction
  <2> QED
    BY <2>1
<1> QED
  BY <1>3 DEF Follows

-----------------------------------------------------------------------------
(* The evidence *)

(* What the evidence is built from, and what it becomes. *)
Result == [header : Nat, healthy : BOOLEAN, runes : Nat, width : Nat]
Block == [lines : SUBSET Nat, details : SUBSET Nat, size : Nat, truncated : BOOLEAN]

(* A detail has a length, truncated or not. *)
LEMMA DetailNat == \A r \in Result : Detail(r) \in Nat
<1>1. ASSUME NEW n \in Nat, NEW width \in Nat
      PROVE  truncateHeadTail(n, width) \in Nat
  <2>1. perItemSummaryCap - 1 \in Nat
    BY BudgetAssumption
  <2>2. \A a, b \in Nat : a * b \in Nat
    OBVIOUS
  <2> QED
    BY <2>1, <2>2 DEF truncateHeadTail, Ellipsis
<1>2. ASSUME NEW r \in Result
      PROVE  Detail(r) \in Nat
  <2>1. truncateHeadTail(r.runes, r.width) \in Nat
    BY <1>1 DEF Result
  <2> QED
    BY <2>1 DEF Detail, Frame
<1> QED
  BY <1>2

(* A turn of BuildEvidence's loop makes a block of a block. *)
LEMMA TurnTyped ==
  ASSUME NEW rs \in Seq(Result), NEW k \in 1 .. Len(rs), NEW e \in Block
  PROVE  Turn(rs, e, k) \in Block
<1>1. rs[k] \in Result /\ Detail(rs[k]) \in Nat /\ k \in Nat
  BY DetailNat, ElementOfSeq
<1>2. ASSUME NEW d \in Block
      PROVE  WriteDetail(d, k, rs[k]) \in Block
  <2>1. d.details \cup {k} \in SUBSET Nat /\ d.size + Detail(rs[k]) \in Nat
    BY <1>1 DEF Block
  <2> QED
    BY <2>1 DEF WriteDetail, Block
<1>3. WriteLine(e, k, rs[k]) \in Block
  <2>1. e.lines \in SUBSET Nat /\ e.size \in Nat
    BY DEF Block
  <2>2. rs[k].header \in Nat
    BY <1>1 DEF Result
  <2>3. e.lines \cup {k} \in SUBSET Nat /\ e.size + rs[k].header \in Nat
    BY <1>1, <2>1, <2>2
  <2> QED
    BY <2>3 DEF WriteLine, Block
<1>4. [e EXCEPT !.truncated = TRUE] \in Block
  BY DEF Block
<1> QED
  BY <1>2, <1>3, <1>4 DEF Turn

(* BuildEvidence is the last state of its loop. *)
LEMMA BuildDefined ==
  ASSUME NEW rs \in Seq(Result)
  PROVE  \E b \in [0 .. Len(rs) -> Block] :
           /\ b[0] = NoEvidence /\ \A k \in 1 .. Len(rs) : b[k] = Turn(rs, b[k - 1], k)
           /\ BuildEvidence(rs) = b[Len(rs)]
<1> DEFINE n == Len(rs)
           P(f) == f = [k \in 0 .. Len(rs) |-> IF k = 0 THEN NoEvidence ELSE Turn(rs, f[k - 1], k)]
           step == [p \in (1 .. n) \X Block |-> Turn(rs, p[2], p[1])]
           b == CHOOSE f : P(f)
<1>1. n \in Nat /\ NoEvidence \in Block
  BY LenProperties DEF NoEvidence, Block
<1>2. step \in [(1 .. n) \X Block -> Block]
  BY TurnTyped
<1>3. PICK f \in [0 .. n -> Block] : Follows(f, n, NoEvidence, step)
  <2> HIDE DEF step, n
  <2> QED
    BY <1>1, <1>2, LoopDefined
<1>4. ASSUME NEW k \in 1 .. n
      PROVE  f[k] = Turn(rs, f[k - 1], k)
  <2>1. f[k - 1] \in Block
    BY <1>1
  <2>2. <<k, f[k - 1]>> \in (1 .. n) \X Block
    BY <2>1
  <2>3. step[<<k, f[k - 1]>>] = Turn(rs, f[k - 1], k)
    BY <2>2
  <2> QED
    BY <1>3, <2>3 DEF Follows
<1>5. P(f)
  BY <1>1, <1>3, <1>4 DEF Follows
<1>6. P(b)
  <2> HIDE DEF P
  <2> QED
    BY <1>5, Zenon
<1>7. BuildEvidence(rs) = b[n]
  BY DEF BuildEvidence
<1>8. b[0] = NoEvidence /\ \A k \in 1 .. n : b[k] = Turn(rs, b[k - 1], k)
  <2> HIDE DEF b
  <2> QED
    BY <1>1, <1>6
<1>9. \A k \in 0 .. n : b[k] \in Block
  <2> DEFINE T == {k \in Nat : k <= n => b[k] \in Block}
  <2> HIDE DEF b, n
  <2>1. 0 \in T
    BY <1>1, <1>8
  <2>2. ASSUME NEW k \in Nat, k \in T
        PROVE  k + 1 \in T
    <3> SUFFICES ASSUME k + 1 <= n
                 PROVE  b[k + 1] \in Block
      OBVIOUS
    <3>1. b[k] \in Block /\ k + 1 \in 1 .. Len(rs) /\ b[k + 1] = Turn(rs, b[k], k + 1)
      BY <1>1, <1>8, <2>2 DEF n
    <3> QED
      BY <3>1, TurnTyped
  <2>3. Nat \subseteq T
    <3> HIDE DEF T
    <3> QED
      BY <2>1, <2>2, Induction
  <2> QED
    BY <1>1, <2>3
<1>10. b \in [0 .. n -> Block]
  <2> HIDE DEF b
  <2> QED
    BY <1>6, <1>9
<1> HIDE DEF b, n
<1> QED
  BY <1>7, <1>8, <1>10 DEF n

(* What a result contributes has a length. *)
LEMMA WrittenOfNat ==
  ASSUME NEW rs \in Seq(Result), NEW e \in Block, NEW k \in 1 .. Len(rs)
  PROVE  WrittenOf(rs, e, k) \in Nat
<1>1. rs[k] \in Result /\ Detail(rs[k]) \in Nat
  BY DetailNat, ElementOfSeq
<1> QED
  BY <1>1 DEF WrittenOf, Result

(* Written is the sum it is meant to be: nothing before the first result,  *)
(* and then one contribution more at a time.                               *)
LEMMA WrittenDefined ==
  ASSUME NEW rs \in Seq(Result), NEW e \in Block
  PROVE  /\ Written(rs, e, 1) = 0
         /\ \A k \in 1 .. Len(rs) + 1 : Written(rs, e, k) \in Nat
         /\ \A k \in 1 .. Len(rs) :
              Written(rs, e, k + 1) = Written(rs, e, k) + WrittenOf(rs, e, k)
<1> DEFINE n == Len(rs)
           P(f) == f = [j \in 0 .. Len(rs) |-> IF j = 0 THEN 0 ELSE f[j - 1] + WrittenOf(rs, e, j)]
           step == [p \in (1 .. n) \X Nat |-> p[2] + WrittenOf(rs, e, p[1])]
           sum == CHOOSE f : P(f)
<1>1. n \in Nat
  BY LenProperties
<1>2. step \in [(1 .. n) \X Nat -> Nat]
  BY WrittenOfNat
<1>3. PICK f \in [0 .. n -> Nat] : Follows(f, n, 0, step)
  <2> HIDE DEF step, n
  <2> QED
    BY <1>1, <1>2, LoopDefined
<1>4. ASSUME NEW k \in 1 .. n
      PROVE  f[k] = f[k - 1] + WrittenOf(rs, e, k)
  <2>1. f[k - 1] \in Nat
    BY <1>1
  <2>2. <<k, f[k - 1]>> \in (1 .. n) \X Nat
    BY <2>1
  <2>3. step[<<k, f[k - 1]>>] = f[k - 1] + WrittenOf(rs, e, k)
    BY <2>2
  <2> QED
    BY <1>3, <2>3 DEF Follows
<1>5. P(f)
  BY <1>1, <1>3, <1>4 DEF Follows
<1>6. P(sum)
  <2> HIDE DEF P
  <2> QED
    BY <1>5, Zenon
<1>7. \A k \in 1 .. n + 1 : Written(rs, e, k) = sum[k - 1]
  BY DEF Written
<1>8. sum[0] = 0 /\ \A k \in 1 .. n : sum[k] = sum[k - 1] + WrittenOf(rs, e, k)
  <2> HIDE DEF sum
  <2> QED
    BY <1>1, <1>6
<1>9. \A k \in 0 .. n : sum[k] \in Nat
  <2> DEFINE T == {k \in Nat : k <= n => sum[k] \in Nat}
  <2> HIDE DEF sum
  <2>1. 0 \in T
    BY <1>1, <1>8
  <2>2. ASSUME NEW k \in Nat, k \in T
        PROVE  k + 1 \in T
    <3> SUFFICES ASSUME k + 1 <= n
                 PROVE  sum[k + 1] \in Nat
      OBVIOUS
    <3>1. sum[k] \in Nat /\ k + 1 \in 1 .. Len(rs)
      BY <1>1, <2>2
    <3>2. sum[k + 1] = sum[k] + WrittenOf(rs, e, k + 1)
      BY <1>8, <3>1
    <3> QED
      BY <3>1, <3>2, WrittenOfNat
  <2>3. Nat \subseteq T
    <3> HIDE DEF T
    <3> QED
      BY <2>1, <2>2, Induction
  <2> QED
    BY <1>1, <2>3
<1> HIDE DEF sum
<1>10. Written(rs, e, 1) = 0
  BY <1>1, <1>7, <1>8
<1>11. ASSUME NEW k \in 1 .. n + 1
       PROVE  Written(rs, e, k) \in Nat
  BY <1>1, <1>7, <1>9
<1>12. ASSUME NEW k \in 1 .. n
       PROVE  Written(rs, e, k + 1) = Written(rs, e, k) + WrittenOf(rs, e, k)
  <2>1. Written(rs, e, k + 1) = sum[k] /\ Written(rs, e, k) = sum[k - 1]
    BY <1>1, <1>7
  <2> QED
    BY <1>8, <2>1
<1> QED
  BY <1>10, <1>11, <1>12

(* Blocks with the same lines and details so far have written as much. *)
LEMMA WrittenSame ==
  ASSUME NEW rs \in Seq(Result), NEW e \in Block, NEW d \in Block, NEW n \in 0 .. Len(rs),
         \A j \in 1 .. n : WrittenOf(rs, e, j) = WrittenOf(rs, d, j)
  PROVE  \A k \in 1 .. n + 1 : Written(rs, e, k) = Written(rs, d, k)
<1> DEFINE T == {k \in Nat : k <= n => Written(rs, e, k + 1) = Written(rs, d, k + 1)}
<1>0. Len(rs) \in Nat
  BY LenProperties
<1>1. 0 \in T
  BY WrittenDefined
<1>2. ASSUME NEW k \in Nat, k \in T
      PROVE  k + 1 \in T
  <2> SUFFICES ASSUME k + 1 <= n
               PROVE  Written(rs, e, (k + 1) + 1) = Written(rs, d, (k + 1) + 1)
    OBVIOUS
  <2>1. k + 1 \in 1 .. n /\ k + 1 \in 1 .. Len(rs)
    BY <1>0
  <2> QED
    BY <1>2, <2>1, WrittenDefined
<1>3. Nat \subseteq T
  <2> HIDE DEF T
  <2> QED
    BY <1>1, <1>2, Induction
<1>4. ASSUME NEW k \in 1 .. n + 1
      PROVE  Written(rs, e, k) = Written(rs, d, k)
  <2>1. k - 1 \in Nat /\ k - 1 <= n /\ (k - 1) + 1 = k
    BY <1>0
  <2> QED
    BY <1>3, <2>1
<1> QED
  BY <1>4

(* The results up to k with a line or a detail left out. *)
Left(rs, e, k) ==
  {j \in 1 .. k : j \notin e.lines \/ (Detail(rs[j]) # 0 /\ j \notin e.details)}

(* The invariant of BuildEvidence's loop after k turns: the size is what   *)
(* was written, it keeps to the budget, and whatever is left out did not   *)
(* fit when its turn came.                                                 *)
SoFar(rs, e, k) ==
  /\ e.lines \subseteq 1 .. k /\ e.details \subseteq e.lines
  /\ e.size = Written(rs, e, k + 1) /\ e.size <= maxBytes
  /\ e.truncated <=> Left(rs, e, k) # {}
  /\ \A j \in Left(rs, e, k) :
       Written(rs, e, j) + rs[j].header + (IF j \in e.lines THEN Detail(rs[j]) ELSE 0) > maxBytes

(* A turn writes what fits and notes what does not; the bytes before its   *)
(* result are not touched.                                                 *)
LEMMA TurnKeeps ==
  ASSUME NEW rs \in Seq(Result), NEW e \in Block, NEW k \in 1 .. Len(rs), SoFar(rs, e, k - 1)
  PROVE  SoFar(rs, Turn(rs, e, k), k)
<1> DEFINE r == rs[k]
           d == Turn(rs, e, k)
           skip == e.size + r.header > maxBytes
           fits == e.size + r.header + Detail(r) <= maxBytes
<1>1. /\ Len(rs) \in Nat /\ r.header \in Nat /\ Detail(r) \in Nat /\ e.size \in Nat
      /\ k \in Nat /\ k - 1 \in Nat
  <2>1. r \in Result
    BY ElementOfSeq
  <2>2. Len(rs) \in Nat
    BY LenProperties
  <2>3. r.header \in Nat
    BY <2>1 DEF Result
  <2>4. e.size \in Nat
    BY DEF Block
  <2>5. Detail(r) \in Nat
    BY <2>1, DetailNat
  <2> HIDE DEF r
  <2> QED
    BY <2>2, <2>3, <2>4, <2>5
<1>2. d \in Block
  BY TurnTyped
<1>3. k \notin e.lines /\ k \notin e.details /\ e.lines \subseteq 1 .. k - 1
      /\ e.details \subseteq e.lines
  BY <1>1 DEF SoFar
<1>4. /\ d.lines = IF skip THEN e.lines ELSE e.lines \cup {k}
      /\ d.details = IF ~skip /\ Detail(r) # 0 /\ fits THEN e.details \cup {k} ELSE e.details
      /\ d.size = e.size + (IF skip THEN 0 ELSE r.header + (IF fits THEN Detail(r) ELSE 0))
      /\ d.truncated <=> e.truncated \/ skip \/ (Detail(r) # 0 /\ ~fits)
  <2>1. CASE skip
    <3>1. d = [e EXCEPT !.truncated = TRUE]
      BY <2>1 DEF Turn
    <3> QED
      BY <1>1, <2>1, <3>1 DEF Block
  <2>2. CASE ~skip
    <3> DEFINE l == WriteLine(e, k, r)
    <3>1. d = WriteDetail(l, k, r)
      BY <2>2 DEF Turn
    <3>2. /\ l.lines = e.lines \cup {k} /\ l.details = e.details
          /\ l.size = e.size + r.header /\ l.truncated = e.truncated /\ l \in Block
      <4>1. e.lines \cup {k} \in SUBSET Nat /\ e.size + r.header \in Nat
        BY <1>1 DEF Block
      <4> HIDE DEF r
      <4> QED
        BY <4>1 DEF WriteLine, Block
    <3> HIDE DEF l, d, skip, r
    <3>3. CASE Detail(r) = 0
      <4>1. d = l
        BY <3>1, <3>3 DEF WriteDetail
      <4>2. e.size + r.header + Detail(r) = l.size
        BY <1>1, <3>2, <3>3
      <4> QED
        BY <1>1, <2>2, <3>2, <3>3, <4>1, <4>2
    <3>4. CASE Detail(r) # 0 /\ fits
      <4>1. d = [l EXCEPT !.details = @ \cup {k}, !.size = @ + Detail(r)]
        BY <1>1, <3>1, <3>2, <3>4 DEF WriteDetail
      <4> QED
        BY <1>1, <2>2, <3>2, <3>4, <4>1 DEF Block
    <3>5. CASE Detail(r) # 0 /\ ~fits
      <4>1. d = [l EXCEPT !.truncated = TRUE]
        BY <1>1, <3>1, <3>2, <3>5 DEF WriteDetail
      <4> QED
        BY <1>1, <2>2, <3>2, <3>5, <4>1 DEF Block
    <3> QED
      BY <3>3, <3>4, <3>5
  <2> QED
    BY <2>1, <2>2
<1> HIDE DEF d
<1>5. \A j \in 1 .. k - 1 : (j \in d.lines <=> j \in e.lines) /\ (j \in d.details <=> j \in e.details)
  BY <1>1, <1>4
<1>6. \A j \in 1 .. k : Written(rs, d, j) = Written(rs, e, j)
  <2>1. \A j \in 1 .. k - 1 : WrittenOf(rs, e, j) = WrittenOf(rs, d, j)
    BY <1>5 DEF WrittenOf
  <2>2. k - 1 \in 0 .. Len(rs) /\ (k - 1) + 1 = k
    BY <1>1
  <2> QED
    BY <1>2, <2>1, <2>2, WrittenSame
<1>7. e.size = Written(rs, e, k) /\ Written(rs, d, k) = e.size
  BY <1>1, <1>6 DEF SoFar
<1>8. d.size = Written(rs, d, k + 1)
  <2>1. Written(rs, d, k + 1) = e.size + WrittenOf(rs, d, k)
    BY <1>2, <1>7, WrittenDefined
  <2>2. WrittenOf(rs, d, k) = IF skip THEN 0 ELSE r.header + (IF fits THEN Detail(r) ELSE 0)
    BY <1>1, <1>3, <1>4 DEF WrittenOf
  <2> QED
    BY <1>1, <1>4, <2>1, <2>2
<1>9. d.size <= maxBytes
  BY <1>1, <1>4, BudgetAssumption DEF SoFar
<1> DEFINE late == skip \/ (Detail(r) # 0 /\ ~fits)
<1>10. Left(rs, d, k) = Left(rs, e, k - 1) \cup (IF late THEN {k} ELSE {})
  <2>1. \A j \in 1 .. k - 1 : j \in Left(rs, d, k) <=> j \in Left(rs, e, k - 1)
    BY <1>1, <1>5 DEF Left
  <2>2. k \in Left(rs, d, k) <=> late
    BY <1>1, <1>3, <1>4 DEF Left
  <2>3. Left(rs, d, k) \subseteq 1 .. k /\ Left(rs, e, k - 1) \subseteq 1 .. k - 1
    BY DEF Left
  <2>4. 1 .. k = (1 .. k - 1) \cup {k}
    BY <1>1
  <2> HIDE DEF late
  <2> QED
    BY <1>1, <2>1, <2>2, <2>3, <2>4
<1>11. d.truncated <=> Left(rs, d, k) # {}
  BY <1>4, <1>10 DEF SoFar
<1>12. ASSUME NEW j \in Left(rs, d, k)
       PROVE  Written(rs, d, j) + rs[j].header + (IF j \in d.lines THEN Detail(rs[j]) ELSE 0)
                > maxBytes
  <2>1. CASE j \in Left(rs, e, k - 1)
    <3>1. j \in 1 .. k - 1 /\ j \in 1 .. k
      BY <1>1, <2>1 DEF Left
    <3> QED
      BY <1>5, <1>6, <2>1, <3>1 DEF SoFar
  <2>2. CASE j = k /\ late
    BY <1>1, <1>3, <1>4, <1>7, <2>2, BudgetAssumption
  <2> QED
    BY <1>10, <2>1, <2>2
<1>13. d.lines \subseteq 1 .. k /\ d.details \subseteq d.lines
  <2>1. e.lines \subseteq 1 .. k /\ {k} \subseteq 1 .. k
    BY <1>1, <1>3
  <2> QED
    BY <1>3, <1>4, <2>1
<1> QED
  BY <1>8, <1>9, <1>11, <1>12, <1>13 DEF SoFar, d

(* After the last turn the invariant is what FillsBudget promises. *)
LEMMA EvidenceBuilt ==
  ASSUME NEW rs \in Seq(Result)
  PROVE  /\ BuildEvidence(rs) \in Block /\ BuildEvidence(rs).lines \subseteq DOMAIN rs
         /\ FillsBudget(rs, BuildEvidence(rs))
         /\ BuildEvidence(rs).truncated <=> Missing(rs, BuildEvidence(rs)) # {}
<1> DEFINE n == Len(rs)
           e == BuildEvidence(rs)
<1>1. n \in Nat /\ DOMAIN rs = 1 .. n
  BY LenProperties
<1>2. PICK b \in [0 .. n -> Block] :
        /\ b[0] = NoEvidence /\ \A k \in 1 .. n : b[k] = Turn(rs, b[k - 1], k)
        /\ e = b[n]
  BY BuildDefined
<1> DEFINE T == {k \in Nat : k <= n => SoFar(rs, b[k], k)}
<1>3. 0 \in T
  <2>1. NoEvidence \in Block
    BY DEF NoEvidence, Block
  <2>2. Written(rs, NoEvidence, 1) = 0
    BY <2>1, WrittenDefined
  <2>3. Left(rs, NoEvidence, 0) = {}
    BY DEF Left
  <2>4. SoFar(rs, NoEvidence, 0)
    BY <2>2, <2>3, BudgetAssumption DEF SoFar, NoEvidence
  <2> QED
    BY <1>2, <2>4
<1>4. ASSUME NEW k \in Nat, k \in T
      PROVE  k + 1 \in T
  <2> SUFFICES ASSUME k + 1 <= n
               PROVE  SoFar(rs, b[k + 1], k + 1)
    OBVIOUS
  <2>1. k + 1 \in 1 .. Len(rs) /\ (k + 1) - 1 = k /\ b[k] \in Block /\ SoFar(rs, b[k], k)
    BY <1>1, <1>4
  <2>2. b[k + 1] = Turn(rs, b[k], k + 1)
    BY <1>2, <2>1
  <2> QED
    BY <2>1, <2>2, TurnKeeps
<1>5. Nat \subseteq T
  <2> HIDE DEF T
  <2> QED
    BY <1>3, <1>4, Induction
<1>6. SoFar(rs, e, n) /\ e \in Block
  BY <1>1, <1>2, <1>5
<1> HIDE DEF e
<1>7. Left(rs, e, n) = Missing(rs, e)
  BY <1>1 DEF Left, Missing
<1>8. FillsBudget(rs, e)
  BY <1>6, <1>7 DEF FillsBudget, SoFar
<1> QED
  BY <1>1, <1>6, <1>7, <1>8 DEF SoFar, e

-----------------------------------------------------------------------------
(* The rest of the state *)

(* What is shown and posted, and where the goroutine is. *)
EvidenceShape ==
  [lines : SUBSET DOMAIN results, details : SUBSET DOMAIN results, size : Nat,
   truncated : BOOLEAN]

Shaped ==
  /\ phase \in {"idle", "running", "refused", "ended"} /\ cancelled \in BOOLEAN
  /\ platform \in {"lark", "telegram"} /\ want \in BOOLEAN
  /\ at \in {"click", "refused", "start", "collect", "reply", "edit",
             "summarize", "post", "leaving", "done"}
  /\ shown.state \in {"none", "running", "done"}
  /\ shown = [state |-> shown.state, count |-> shown.count, tally |-> shown.tally]
  /\ evidence \in EvidenceShape
  /\ part \in 0 .. parts /\ posted \subseteq 0 .. part - 1

(* Replies under the card are of results, and Lark's. *)
Threaded ==
  /\ thread \subseteq First(Len(results))
  /\ at = "reply" => Len(results) > 0
  /\ at = "reply" \/ thread # {} => platform = "lark"

(* From the last edit on: what comes after it finds it there. *)
Summarized ==
  /\ at = "post" => part < parts
  /\ part > 0 => at \in {"post", "leaving", "done"}
  /\ at \in {"summarize", "post"} \/ part > 0 => shown.state = "done"
  /\ at = "post" \/ part > 0 => evidence = BuildEvidence(evidenceResults)

SummaryInv == Shaped /\ Threaded /\ Summarized

(* The evidence's input is the results so far. *)
LEMMA EvidenceTyped ==
  ASSUME IInv
  PROVE  evidenceResults \in Seq(Result) /\ DOMAIN evidenceResults = DOMAIN results
<1>1. /\ DOMAIN results = 1 .. Len(results) /\ Len(results) \in Nat
      /\ \A k \in 1 .. Len(results) : results[k] \in Items
  BY LenProperties, ElementOfSeq DEF IInv, Typed
<1>2. ASSUME NEW i \in Items
      PROVE  EvidenceOf(i) \in Result
  <2>1. Line[i] \in Nat /\ Runes[i] \in Nat /\ Width[i] \in Nat
    BY TextAssumption
  <2> QED
    BY <2>1 DEF EvidenceOf, Result
<1>3. \A k \in 1 .. Len(results) : EvidenceOf(results[k]) \in Result
  BY <1>1, <1>2
<1>4. evidenceResults = [k \in 1 .. Len(results) |-> EvidenceOf(results[k])]
  BY <1>1 DEF evidenceResults
<1> QED
  BY <1>1, <1>3, <1>4, SeqDef

(* The evidence is built once the message is final. *)
LEMMA SummarizeKeeps ==
  ASSUME IInv, SummaryInv, Summarize
  PROVE  SummaryInv'
<1>1. /\ evidence' = BuildEvidence(evidenceResults) /\ at = "summarize" /\ at' = "post"
      /\ UNCHANGED <<absVars, platform, want, gate, results, tally, shown, thread, part, posted>>
  BY DEF Summarize
<1>2. evidence' \in EvidenceShape
  <2>1. /\ evidence' \in Block /\ evidence'.lines \subseteq DOMAIN results
        /\ evidence'.details \subseteq evidence'.lines
    BY <1>1, EvidenceTyped, EvidenceBuilt DEF FillsBudget
  <2> QED
    BY <2>1 DEF Block, EvidenceShape
<1>3. part = 0 /\ 0 < parts /\ parts \in Nat
  BY <1>1, PartsAssumption DEF SummaryInv, Shaped, Summarized, parts
<1>4. Shaped'
  BY <1>1, <1>2 DEF SummaryInv, Shaped, absVars, EvidenceShape, parts
<1>5. Threaded'
  BY <1>1 DEF SummaryInv, Threaded, First
<1>6. Summarized'
  BY <1>1, <1>3 DEF SummaryInv, Summarized, absVars, parts, evidenceResults, EvidenceOf
<1> QED
  BY <1>4, <1>5, <1>6 DEF SummaryInv

(* One more piece of the summary is posted. *)
LEMMA PostKeeps ==
  ASSUME SummaryInv, PostPart
  PROVE  SummaryInv'
<1>1. /\ at = "post" /\ part' = part + 1 /\ part < parts
      /\ posted' = posted \/ posted' = posted \cup {part}
      /\ at' = IF part' = parts THEN "leaving" ELSE "post"
      /\ UNCHANGED <<absVars, platform, want, gate, results, tally, shown, thread, evidence>>
  BY DEF PostPart, SummaryInv, Summarized
<1>2. parts \in Nat /\ part \in Nat /\ parts' = parts
  BY <1>1, PartsAssumption DEF SummaryInv, Shaped, parts
<1>3. part' \in 0 .. parts /\ posted' \subseteq 0 .. part' - 1
  BY <1>1, <1>2 DEF SummaryInv, Shaped
<1>4. Shaped'
  BY <1>1, <1>2, <1>3 DEF SummaryInv, Shaped, absVars, EvidenceShape
<1>5. Threaded'
  BY <1>1 DEF SummaryInv, Threaded, First
<1>6. Summarized'
  BY <1>1, <1>2 DEF SummaryInv, Summarized, absVars, evidenceResults, EvidenceOf
<1> QED
  BY <1>4, <1>5, <1>6 DEF SummaryInv

(* A result leaves the replies before it alone. *)
LEMMA DoneKeeps ==
  ASSUME IInv, SummaryInv, NEW i \in Items, NEW b \in Buckets, ServiceDone(i, b)
  PROVE  SummaryInv'
<1> DEFINE n == Len(results)
<1>1. /\ at = "collect" /\ results' = Append(results, i) /\ at' = AfterCount
      /\ UNCHANGED <<phase, cancelled, platform, want, gate, shown, thread, evidence, part, posted>>
  BY DEF ServiceDone, Report
<1>2. /\ n \in Nat /\ results \in Seq(Items) /\ Len(results') = n + 1
      /\ \A j \in 1 .. n : results'[j] = results[j]
      /\ DOMAIN results = 1 .. n /\ DOMAIN results' = 1 .. n + 1
  BY <1>1, AppendProperties, LenProperties DEF IInv, Typed
<1>3. EvidenceShape \subseteq EvidenceShape'
  BY <1>2 DEF EvidenceShape
<1>4. Shaped'
  BY <1>1, <1>3 DEF SummaryInv, Shaped, AfterCount, parts
<1>5. Threaded'
  <2>1. First(n) \subseteq {results'[j] : j \in 1 .. n + 1}
    BY <1>2 DEF First
  <2>2. thread' \subseteq First(Len(results))'
    BY <1>1, <1>2, <2>1 DEF SummaryInv, Threaded, First
  <2> QED
    BY <1>1, <1>2, <2>2 DEF SummaryInv, Threaded, AfterCount
<1>6. Summarized'
  BY <1>1 DEF SummaryInv, Shaped, Summarized, AfterCount
<1> QED
  BY <1>4, <1>5, <1>6 DEF SummaryInv

(* A reply is of the result that was just reported. *)
LEMMA ReplyKeeps ==
  ASSUME IInv, SummaryInv, ReplyService
  PROVE  SummaryInv'
<1>1. /\ at = "reply" /\ at' \in {"edit", "collect"}
      /\ thread' \in {thread, thread \cup {Last(results)}}
      /\ UNCHANGED <<absVars, platform, want, gate, results, tally, shown, evidence, part, posted>>
  BY DEF ReplyService
<1>2. Last(results) \in First(Len(results)) /\ platform = "lark"
  <2>1. Len(results) \in Nat /\ Len(results) > 0
    BY <1>1, LenProperties DEF SummaryInv, Threaded, IInv, Typed
  <2> QED
    BY <1>1, <2>1 DEF Last, First, SummaryInv, Threaded
<1>3. Shaped'
  BY <1>1 DEF SummaryInv, Shaped, absVars, EvidenceShape, parts
<1>4. Threaded'
  BY <1>1, <1>2 DEF SummaryInv, Threaded, First
<1>5. Summarized'
  BY <1>1 DEF SummaryInv, Shaped, Summarized
<1> QED
  BY <1>3, <1>4, <1>5 DEF SummaryInv

(* The steps that edit the message: before the last edit, and the last one. *)
LEMMA EditKeeps ==
  ASSUME SummaryInv, StartFails \/ StartSent \/ EditProgress \/ Finish
  PROVE  SummaryInv'
<1>1. /\ at \in {"start", "collect", "edit"} /\ at' \in {"collect", "leaving", "summarize"}
      /\ \E state \in {"running", "done"} :
           \E n, t : shown' = shown \/ shown' = Card(state, n, t)
      /\ at' = "summarize" => shown' = FinalCard
      /\ phase' \in {"idle", "running", "refused", "ended"} /\ cancelled' = cancelled
      /\ UNCHANGED <<platform, want, gate, results, tally, thread, evidence, part, posted>>
  BY DEF StartFails, StartSent, EditProgress, Finish, EditSucceeds, EditFails, Refuse, Begin,
         End, FinalCard, absVars, SummaryInv, Shaped
<1>2. /\ shown'.state \in {"none", "running", "done"}
      /\ shown' = [state |-> shown'.state, count |-> shown'.count, tally |-> shown'.tally]
  BY <1>1 DEF Card, SummaryInv, Shaped
<1>3. at' = "summarize" => shown'.state = "done"
  BY <1>1 DEF FinalCard, Card
<1>4. Shaped'
  BY <1>1, <1>2 DEF SummaryInv, Shaped, EvidenceShape, parts
<1>5. Threaded'
  BY <1>1 DEF SummaryInv, Threaded, First
<1>6. Summarized'
  BY <1>1, <1>3 DEF SummaryInv, Shaped, Summarized
<1> QED
  BY <1>4, <1>5, <1>6 DEF SummaryInv

(* The steps that show nothing. *)
LEMMA QuietKeeps ==
  ASSUME SummaryInv, RefuseClick \/ Acquire \/ Release \/ Timeout \/ OtherRun \/ UNCHANGED vars
  PROVE  SummaryInv'
<1>1. /\ UNCHANGED <<phase, outcome, platform, want, results, shown, thread, evidence, part, posted>>
      /\ cancelled' \in BOOLEAN
      /\ \/ at' = at
         \/ at = "click" /\ at' \in {"refused", "start"}
         \/ at = "leaving" /\ at' = "done"
  BY DEF RefuseClick, Acquire, Release, Timeout, Cancel, OtherRun, vars, chatVars, absVars,
         SummaryInv, Shaped
<1>2. Shaped'
  BY <1>1 DEF SummaryInv, Shaped, EvidenceShape, parts
<1>3. Threaded'
  BY <1>1 DEF SummaryInv, Threaded, First
<1>4. Summarized'
  BY <1>1 DEF SummaryInv, Summarized, parts, evidenceResults, EvidenceOf
<1> QED
  BY <1>2, <1>3, <1>4 DEF SummaryInv

(* Together with IInv, what the summary relies on. *)
THEOREM SummaryInductive == ChatSpec => []SummaryInv
<1>1. ChatInit => SummaryInv
  <2> SUFFICES ASSUME ChatInit
               PROVE  SummaryInv
    OBVIOUS
  <2>1. Shaped
    <3>1. evidence \in EvidenceShape
      BY DEF ChatInit, NoEvidence, EvidenceShape
    <3>2. /\ shown.state \in {"none", "running", "done"}
          /\ shown = [state |-> shown.state, count |-> shown.count, tally |-> shown.tally]
      BY DEF ChatInit, NoCard, Card
    <3>3. part \in 0 .. parts /\ posted \subseteq 0 .. part - 1
      BY PartsAssumption DEF ChatInit, parts
    <3> QED
      BY <3>1, <3>2, <3>3 DEF ChatInit, AbsInit, Shaped
  <2>2. Threaded /\ Summarized
    BY DEF ChatInit, Threaded, Summarized, NoCard, Card
  <2> QED
    BY <2>1, <2>2 DEF SummaryInv
<1>2. IInv /\ SummaryInv /\ [ChatNext]_vars => SummaryInv'
  <2> SUFFICES ASSUME IInv, SummaryInv, [ChatNext]_vars
               PROVE  SummaryInv'
    OBVIOUS
  <2> QED
    BY SummarizeKeeps, PostKeeps, DoneKeeps, ReplyKeeps, EditKeeps, QuietKeeps
    DEF ChatNext, GoroutineStep
<1> QED
  BY <1>1, <1>2, Inductive, PTL DEF ChatSpec

(* The targets of all results. *)
LEMMA ResultsSet ==
  ASSUME Typed
  PROVE  ToSet(results) = First(Len(results))
<1>1. Len(results) \in Nat /\ DOMAIN results = 1 .. Len(results)
  BY LenProperties DEF Typed
<1> QED
  BY <1>1 DEF ToSet, First

(* No bucket holds more targets than there are. *)
LEMMA TallyTyped ==
  ASSUME NEW S \in SUBSET Items
  PROVE  TallyOf(S) \in [Buckets -> 0 .. N]
<1>1. ASSUME NEW b \in Buckets
      PROVE  Cardinality({i \in S : outcome[i] = b}) \in 0 .. N
  <2> DEFINE C == {i \in S : outcome[i] = b}
  <2>1. C \subseteq Items
    OBVIOUS
  <2>2. Cardinality(C) <= N /\ Cardinality(C) \in Nat
    BY <2>1, ItemsFinite, FS_Subset
  <2> QED
    BY <2>2, NAssumption
<1> QED
  BY <1>1 DEF TallyOf

(* Every variable keeps its type. *)
THEOREM TypeCorrect == ChatSpec => []TypeOK
<1>1. IInv /\ SummaryInv => TypeOK
  <2> SUFFICES ASSUME IInv, SummaryInv
               PROVE  TypeOK
    OBVIOUS
  <2>1. /\ ToSet(results) = Reported /\ Reported \subseteq Items /\ Len(results) <= N
        /\ Len(results) \in Nat
    <3>1. ToSet(results) = Reported /\ Len(results) = Cardinality(Reported)
      BY ResultsSet DEF IInv, Counted
    <3>2. Reported \subseteq Items
      BY DEF Reported
    <3>3. Cardinality(Reported) <= N /\ Cardinality(Reported) \in Nat
      BY <3>2, ItemsFinite, FS_Subset
    <3> QED
      BY <3>1, <3>2, <3>3
  <2>2. tally \in [Buckets -> 0 .. N]
    BY <2>1, TallyTyped DEF IInv, Counted
  <2>3. shown \in [state : {"none", "running", "done"}, count : 0 .. N,
                   tally : [Buckets -> 0 .. N]]
    <3>1. shown.count \in 0 .. Len(results) /\ shown.count \in 0 .. N
      BY <2>1, NAssumption DEF IInv, ShownTrue
    <3>2. First(shown.count) \subseteq First(Len(results))
      BY <2>1, <3>1 DEF First
    <3>3. shown.tally \in [Buckets -> 0 .. N]
      BY <2>1, <3>2, TallyTyped DEF IInv, Counted, ShownTrue
    <3>4. /\ shown = [state |-> shown.state, count |-> shown.count, tally |-> shown.tally]
          /\ shown.state \in {"none", "running", "done"}
      BY DEF SummaryInv, Shaped
    <3> QED
      BY <3>1, <3>3, <3>4
  <2>4. thread \subseteq ToSet(results) /\ (platform = "telegram" => thread = {})
    BY <2>1 DEF IInv, Counted, SummaryInv, Threaded
  <2> QED
    BY <2>1, <2>2, <2>3, <2>4 DEF TypeOK, IInv, Typed, SummaryInv, Shaped, EvidenceShape
<1> QED
  BY <1>1, Inductive, SummaryInductive, PTL

(* The LLM is asked about every target, after the final message, and told  *)
(* that something is missing exactly when it is.                           *)
THEOREM SummaryComplete == ChatSpec => []SummaryIsComplete
<1>1. IInv /\ SummaryInv => SummaryIsComplete
  <2> SUFFICES ASSUME IInv, SummaryInv, at = "post" \/ posted # {}
               PROVE  /\ ToSet(results) = Items /\ shown.state = "done"
                      /\ evidence.truncated <=> Missing(evidenceResults, evidence) # {}
    BY DEF SummaryIsComplete
  <2>1. at = "post" \/ part > 0
    <3>1. part \in Nat /\ posted \subseteq 0 .. part - 1
      BY PartsAssumption DEF SummaryInv, Shaped, parts
    <3>2. part = 0 => posted = {}
      BY <3>1
    <3>3. part = 0 \/ part > 0
      BY <3>1
    <3> QED
      BY <3>2, <3>3
  <2>2. shown.state = "done" /\ evidence = BuildEvidence(evidenceResults)
    BY <2>1 DEF SummaryInv, Summarized
  <2>3. ToSet(results) = Items
    BY <2>2, ResultsSet DEF IInv, Counted, ShownTrue
  <2> QED
    BY <2>2, <2>3, EvidenceTyped, EvidenceBuilt
<1> QED
  BY <1>1, Inductive, SummaryInductive, PTL

(* In whatever order the targets end, the evidence keeps within its budget *)
(* and leaves out only what did not fit when its turn came.                *)
THEOREM EvidenceFull == ChatSpec => []EvidenceFillsBudget
<1>1. IInv /\ SummaryInv => EvidenceFillsBudget
  BY EvidenceTyped, EvidenceBuilt DEF SummaryInv, Summarized, EvidenceFillsBudget
<1> QED
  BY <1>1, Inductive, SummaryInductive, PTL
=============================================================================
