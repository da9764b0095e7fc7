-------------------------- MODULE LarkAdapterProofs --------------------------
(***************************************************************************)
(* LarkAdapter for every memory of the dedup FIFO, any number of messages, *)
(* cards, clicks and handlers: pickers of one message are far apart, and   *)
(* the run slots are counted.                                              *)
(*                                                                         *)
(* PickersApart speaks of the whole history, of which the adapter only     *)
(* remembers the FIFO.  Window relates the two: the FIFO is the end of the *)
(* history, as long as its capacity allows.                                *)
(***************************************************************************)
EXTENDS LarkAdapter, FiniteSetTheorems, SequenceTheorems, TLAPS

-----------------------------------------------------------------------------
(* The inductive invariant *)

Window ==
  /\ Len(order) = IF Len(accepted) <= dedupCap THEN Len(accepted) ELSE dedupCap
  /\ \A k \in 1 .. Len(order) : order[k] = accepted[Len(accepted) - Len(order) + k]

(* A handler at work, or its response, is about a click that was made. *)
ClickKnown ==
  \A h \in Goroutine : at[h] # "idle" \/ answer[h] # "none" =>
    job[h].click \in 1 .. Len(clicks)

InSlot == {"run", "patch", "release"}
Running == {h \in Goroutine : at[h] \in InSlot}

IInv == TypeOK /\ ClickKnown /\ Window /\ PickersApart /\ SlotsAreCounted

-----------------------------------------------------------------------------
(* Messages *)

(* remember keeps the map and the queue together and the queue in step     *)
(* with the history; what it forgets is older than dedupCap messages.      *)
LEMMA Remembering ==
  ASSUME DedupOK, accepted \in Seq(Id), Window, PickersApart, NEW id \in Id,
         Accept(id), accepted' = Append(accepted, id)
  PROVE  DedupOK' /\ Window' /\ PickersApart'
<1> DEFINE n == Len(order)
           len == Len(accepted)
           longer == Append(order, id)
<1>1. id \notin ids /\ remember(id)
  BY IdAssumption DEF Accept, Duplicate
<1>2. /\ order \in Seq(Id) /\ n \in Nat /\ n <= dedupCap /\ len \in Nat
      /\ ids = {order[i] : i \in 1 .. n} /\ dedupCap \in Nat /\ dedupCap >= 1
      /\ \A i, j \in 1 .. n : order[i] = order[j] => i = j
  <2>1. /\ order \in Seq(Id) /\ n <= dedupCap /\ ids = {order[i] : i \in 1 .. n}
        /\ \A i, j \in 1 .. n : order[i] = order[j] => i = j
    BY DEF DedupOK
  <2>2. n \in Nat /\ len \in Nat
    BY <2>1, LenProperties
  <2>3. dedupCap \in Nat /\ dedupCap >= 1
    BY CapAssumption
  <2> QED
    BY <2>1, <2>2, <2>3
<1>3. /\ longer \in Seq(Id) /\ Len(longer) = n + 1
      /\ \A k \in 1 .. n : longer[k] = order[k]
      /\ longer[n + 1] = id
  BY <1>2, AppendProperties
<1>4. /\ accepted' \in Seq(Id) /\ Len(accepted') = len + 1
      /\ \A k \in 1 .. len : accepted'[k] = accepted[k]
      /\ accepted'[len + 1] = id
  BY <1>2, AppendProperties
<1>5. \A k \in 1 .. n : order[k] # id
  BY <1>1, <1>2
<1>6. \A i, j \in 1 .. n + 1 : longer[i] = longer[j] => i = j
  <2> SUFFICES ASSUME NEW i \in 1 .. n + 1, NEW j \in 1 .. n + 1, longer[i] = longer[j]
               PROVE  i = j
    OBVIOUS
  <2>1. CASE i = n + 1 /\ j # n + 1
    BY <1>2, <1>3, <1>5, <2>1
  <2>2. CASE i # n + 1 /\ j = n + 1
    BY <1>2, <1>3, <1>5, <2>2
  <2>3. CASE i # n + 1 /\ j # n + 1
    BY <1>2, <1>3, <2>3
  <2> QED
    BY <2>1, <2>2, <2>3
<1>7. /\ n = IF len <= dedupCap THEN len ELSE dedupCap
      /\ \A k \in 1 .. n : order[k] = accepted[len - n + k]
  BY DEF Window
<1>8. \A k \in 1 .. n + 1 : longer[k] = accepted'[len - n + k]
  <2> SUFFICES ASSUME NEW k \in 1 .. n + 1
               PROVE  longer[k] = accepted'[len - n + k]
    OBVIOUS
  <2>1. CASE k = n + 1
    BY <1>2, <1>3, <1>4, <2>1
  <2>2. CASE k # n + 1
    <3>1. k \in 1 .. n /\ len - n + k \in 1 .. len
      BY <1>2, <1>7, <2>2
    <3> QED
      BY <1>3, <1>4, <1>7, <3>1
  <2> QED
    BY <2>1, <2>2
<1> HIDE DEF longer
<1>9. PickersApart'
  <2> SUFFICES ASSUME NEW i \in 1 .. len + 1, NEW j \in 1 .. len + 1,
                      i < j, accepted'[i] = accepted'[j]
               PROVE  j - i > dedupCap
    BY <1>4 DEF PickersApart
  <2>1. CASE j # len + 1
    <3>1. i \in 1 .. len /\ j \in 1 .. len
      <4>1. len \in Nat /\ i \in Nat /\ j \in Nat /\ i >= 1 /\ j <= len + 1 /\ i < j
        BY <1>2
      <4> HIDE DEF len
      <4> QED
        BY <2>1, <4>1
    <3> QED
      BY <1>4, <3>1 DEF PickersApart
  <2>2. CASE j = len + 1
    <3>1. i \in 1 .. len /\ accepted[i] = id
      BY <1>2, <1>4, <2>2
    <3>2. i <= len - n
      <4> SUFFICES ASSUME i > len - n
                   PROVE  FALSE
        BY <1>2, <3>1
      <4>1. i - (len - n) \in 1 .. n /\ len - n + (i - (len - n)) = i
        BY <1>2, <3>1
      <4> QED
        BY <1>5, <1>7, <3>1, <4>1
    <3>3. n = dedupCap
      BY <1>2, <1>7, <3>1, <3>2
    <3> QED
      BY <1>2, <2>2, <3>1, <3>2, <3>3
  <2> QED
    BY <2>1, <2>2
<1>10. CASE n + 1 > dedupCap
  <2>1. order' = Tail(longer) /\ ids' = (ids \cup {id}) \ {Head(longer)}
    BY <1>1, <1>3, <1>10 DEF remember, longer
  <2>2. n = dedupCap /\ n >= 1
    BY <1>2, <1>10
  <2>3. longer # <<>>
    BY <1>2, <1>3
  <2>4. /\ order' \in Seq(Id) /\ Len(order') = n
        /\ \A k \in 1 .. n : order'[k] = longer[k + 1]
    BY <1>2, <1>3, <2>1, <2>3, HeadTailProperties
  <2>5. Head(longer) = longer[1]
    BY <1>3, <2>3, HeadTailProperties
  <2>6. ids' = {order'[i] : i \in 1 .. n}
    <3>1. ASSUME NEW x \in ids'
          PROVE  \E i \in 1 .. n : order'[i] = x
      <4>1. \E k \in 1 .. n + 1 : x = longer[k]
        BY <1>2, <1>3, <2>1, <3>1
      <4>2. PICK k \in 1 .. n + 1 : x = longer[k]
        BY <4>1
      <4>3. k # 1
        BY <2>1, <2>5, <3>1, <4>2
      <4>4. k - 1 \in 1 .. n /\ order'[k - 1] = longer[k]
        BY <1>2, <2>4, <4>2, <4>3
      <4> QED
        BY <4>2, <4>4
    <3>2. ASSUME NEW i \in 1 .. n
          PROVE  order'[i] \in ids'
      <4>1. order'[i] = longer[i + 1] /\ i + 1 \in 1 .. n + 1 /\ 1 \in 1 .. n + 1 /\ i + 1 # 1
        BY <1>2, <2>4
      <4>2. longer[i + 1] # longer[1]
        BY <1>6, <4>1
      <4>3. longer[i + 1] \in ids \cup {id}
        <5>1. CASE i = n
          BY <1>3, <5>1
        <5>2. CASE i # n
          <6>1. i + 1 \in 1 .. n
            BY <1>2, <5>2
          <6> QED
            BY <1>2, <1>3, <6>1
        <5> QED
          BY <5>1, <5>2
      <4> QED
        BY <2>1, <2>5, <4>1, <4>2, <4>3
    <3> QED
      BY <3>1, <3>2
  <2>7. \A i, j \in 1 .. n : order'[i] = order'[j] => i = j
    <3> SUFFICES ASSUME NEW i \in 1 .. n, NEW j \in 1 .. n, order'[i] = order'[j]
                 PROVE  i = j
      OBVIOUS
    <3>1. i + 1 \in 1 .. n + 1 /\ j + 1 \in 1 .. n + 1 /\ longer[i + 1] = longer[j + 1]
      BY <1>2, <2>4
    <3>2. i + 1 = j + 1
      BY <1>6, <3>1
    <3> QED
      BY <1>2, <3>2
  <2>8. DedupOK'
    BY <1>2, <2>4, <2>6, <2>7 DEF DedupOK
  <2>9. Window'
    <3>1. Len(order') = IF Len(accepted') <= dedupCap THEN Len(accepted') ELSE dedupCap
      BY <1>2, <1>4, <1>7, <2>2, <2>4
    <3>2. ASSUME NEW k \in 1 .. n
          PROVE  order'[k] = accepted'[Len(accepted') - n + k]
      <4>1. k + 1 \in 1 .. n + 1 /\ order'[k] = longer[k + 1]
        BY <1>2, <2>4
      <4>2. longer[k + 1] = accepted'[len - n + (k + 1)]
        BY <1>8, <4>1
      <4>3. len - n + (k + 1) = Len(accepted') - n + k
        BY <1>2, <1>4
      <4> QED
        BY <4>1, <4>2, <4>3
    <3> QED
      BY <2>4, <3>1, <3>2 DEF Window
  <2> QED
    BY <1>9, <2>8, <2>9
<1>11. CASE ~(n + 1 > dedupCap)
  <2>1. order' = longer /\ ids' = ids \cup {id}
    BY <1>1, <1>3, <1>11 DEF remember, longer
  <2>2. ids' = {order'[i] : i \in 1 .. n + 1}
    <3>1. ASSUME NEW x \in ids'
          PROVE  \E i \in 1 .. n + 1 : order'[i] = x
      <4>1. CASE x = id
        BY <1>2, <1>3, <2>1, <4>1
      <4>2. CASE x # id
        <5>1. PICK i \in 1 .. n : order[i] = x
          BY <1>2, <2>1, <3>1, <4>2
        <5>2. i \in 1 .. n + 1 /\ order'[i] = x
          BY <1>2, <1>3, <2>1, <5>1
        <5> QED
          BY <5>2
      <4> QED
        BY <4>1, <4>2
    <3>2. ASSUME NEW i \in 1 .. n + 1
          PROVE  order'[i] \in ids'
      <4>1. CASE i = n + 1
        BY <1>3, <2>1, <4>1
      <4>2. CASE i # n + 1
        <5>1. i \in 1 .. n
          BY <1>2, <4>2
        <5> QED
          BY <1>2, <1>3, <2>1, <5>1
      <4> QED
        BY <4>1, <4>2
    <3> QED
      BY <3>1, <3>2
  <2>3. DedupOK'
    BY <1>2, <1>3, <1>6, <1>11, <2>1, <2>2 DEF DedupOK
  <2>4. Window'
    <3>1. Len(order') = n + 1 /\ n = len
      BY <1>2, <1>3, <1>7, <1>11, <2>1
    <3>2. \A k \in 1 .. n + 1 : order'[k] = accepted'[Len(accepted') - Len(order') + k]
      BY <1>2, <1>4, <1>8, <2>1, <3>1
    <3>3. Len(order') = IF Len(accepted') <= dedupCap THEN Len(accepted') ELSE dedupCap
      BY <1>2, <1>4, <1>11, <3>1
    <3> QED
      BY <3>1, <3>2, <3>3 DEF Window
  <2> QED
    BY <1>9, <2>3, <2>4
<1> QED
  BY <1>10, <1>11

(* An event delivered again changes nothing. *)
LEMMA NotRemembering ==
  ASSUME DedupOK, Window, PickersApart, UNCHANGED <<dedupVars, accepted>>
  PROVE  DedupOK' /\ Window' /\ PickersApart'
<1>1. ids' = ids /\ order' = order /\ accepted' = accepted
  BY DEF dedupVars
<1>2. DedupOK'
  BY <1>1 DEF DedupOK
<1>3. Window'
  BY <1>1 DEF Window
<1>4. PickersApart'
  BY <1>1 DEF PickersApart
<1> QED
  BY <1>2, <1>3, <1>4

-----------------------------------------------------------------------------
(* Every other step *)

(* The card a handler works on is one of the cards.                        *)
LEMMA CardKnown ==
  ASSUME IInv, NEW h \in Goroutine, at[h] # "idle" \/ answer[h] # "none"
  PROVE  CardOf(h) \in Card
<1>1. job[h].click \in 1 .. Len(clicks)
  BY DEF IInv, ClickKnown
<1>2. clicks \in Seq([card : Card, action : Actions, filled : BOOLEAN])
  BY DEF IInv, TypeOK
<1>3. clicks[job[h].click] \in [card : Card, action : Actions, filled : BOOLEAN]
  BY <1>1, <1>2, ElementOfSeq
<1> QED
  BY <1>3 DEF CardOf

(* What of the state a step of a handler leaves alone or changes. *)
LEMMA HandlerTypes ==
  ASSUME IInv, NEW h \in Goroutine, GoroutineStep(h)
  PROVE  /\ UNCHANGED <<messageVars, clicks, deliveries>>
         /\ at' \in [Goroutine -> Places] /\ answer' \in [Goroutine -> Displays]
         /\ job' \in [Goroutine -> [click : ClickIndex \cup {NoClick}, card : Displays]]
         /\ shown' \in [Card -> Displays] /\ runs' \in [ClickIndex -> Nat]
         /\ spoiled' \subseteq Card
         /\ at[h] # "idle" /\ \A g \in Goroutine : job'[g].click = job[g].click
         /\ \A g \in Goroutine : g # h => at'[g] = at[g] /\ answer'[g] = answer[g]
<1>0. /\ at \in [Goroutine -> Places] /\ answer \in [Goroutine -> Displays]
      /\ job \in [Goroutine -> [click : ClickIndex \cup {NoClick}, card : Displays]]
      /\ shown \in [Card -> Displays] /\ runs \in [ClickIndex -> Nat] /\ spoiled \subseteq Card
  BY DEF IInv, TypeOK
<1>1. CASE PickCluster(h)
  BY <1>0, <1>1 DEF PickCluster, Decoded, cardResponse, Places, Displays
<1>2. CASE PickGroup(h)
  BY <1>0, <1>2 DEF PickGroup, Decoded, cardResponse, Places, Displays
<1>3. CASE RunGroup(h)
  BY <1>0, <1>3 DEF RunGroup, Decoded, cardResponse, Places, Displays
<1>4. CASE PickUseCase(h)
  BY <1>0, <1>4 DEF PickUseCase, Decoded, cardResponse, Places, Displays
<1>5. CASE SubmitForm(h)
  BY <1>0, <1>5 DEF SubmitForm, Decoded, cardResponse, Places, Displays
<1>6. CASE StartRun(h)
  <2>1. runs' = [runs EXCEPT ![job[h].click] = runs[job[h].click] + 1]
    BY <1>6 DEF StartRun
  <2>2. runs' \in [ClickIndex -> Nat]
    <3> DEFINE k == job[h].click
    <3>1. ASSUME k \in ClickIndex
          PROVE  runs[k] + 1 \in Nat
      BY <1>0, <3>1
    <3> HIDE DEF k
    <3>2. runs' = [runs EXCEPT ![k] = runs[k] + 1]
      BY <2>1 DEF k
    <3> QED
      BY <1>0, <3>1, <3>2
  <2>3. /\ at[h] = "gate" /\ at' = [at EXCEPT ![h] = "run"]
        /\ answer' = [answer EXCEPT ![h] = "running"]
        /\ UNCHANGED <<messageVars, shown, clicks, deliveries, job, spoiled>>
    BY <1>6 DEF StartRun, cardResponse
  <2> QED
    BY <1>0, <2>2, <2>3 DEF Places, Displays
<1>7. CASE Busy(h)
  BY <1>0, <1>7 DEF Busy, cardResponse, Places, Displays
<1>8. CASE KatoReturns(h)
  BY <1>0, <1>8 DEF KatoReturns, Places, Displays
<1>9. CASE PatchCard(h)
  <2>1. CardOf(h) \in Card
    BY <1>9, CardKnown DEF PatchCard
  <2> QED
    BY <1>0, <1>9, <2>1 DEF PatchCard, Places
<1>10. CASE Release(h)
  BY <1>0, <1>10 DEF Release, Places
<1> QED
  BY <1>1, <1>2, <1>3, <1>4, <1>5, <1>6, <1>7, <1>8, <1>9, <1>10 DEF GoroutineStep

(* The handlers in a slot can be counted.                                  *)
LEMMA RunningFinite == IsFiniteSet(Running) /\ Cardinality(Running) \in Nat
BY SemAssumption, FS_Subset, FS_CardinalityType DEF Running

(* A step of a handler and the slots it takes or gives back. *)
LEMMA SlotsKept ==
  ASSUME IInv, NEW h \in Goroutine, GoroutineStep(h)
  PROVE  SlotsAreCounted' /\ sem' \in 0 .. MaxConcurrent
<1>0. /\ sem = Cardinality(Running) /\ sem \in 0 .. MaxConcurrent /\ MaxConcurrent \in Nat
      /\ at \in [Goroutine -> Places]
  BY SemAssumption DEF IInv, SlotsAreCounted, Running, InSlot, TypeOK
<1>1. SUFFICES sem' = Cardinality(Running') /\ sem' \in 0 .. MaxConcurrent
  BY DEF SlotsAreCounted, Running, InSlot
<1>2. \A g \in Goroutine : g # h => at'[g] = at[g]
  BY HandlerTypes
<1>3. CASE StartRun(h)
  <2>1. at[h] \notin InSlot /\ at'[h] \in InSlot /\ sem' = sem + 1 /\ sem < MaxConcurrent
    BY <1>0, <1>3 DEF StartRun, cardResponse, InSlot
  <2>2. Running' = Running \cup {h} /\ h \notin Running
    BY <1>2, <2>1 DEF Running
  <2>3. Cardinality(Running \cup {h}) = Cardinality(Running) + 1
    BY <2>2, RunningFinite, FS_AddElement
  <2> QED
    BY <1>0, <2>1, <2>2, <2>3
<1>4. CASE Release(h)
  <2>1. at[h] \in InSlot /\ at'[h] \notin InSlot /\ sem' = sem - 1
    BY <1>0, <1>4 DEF Release, InSlot
  <2>2. Running' = Running \ {h} /\ h \in Running
    BY <1>2, <2>1 DEF Running
  <2>3. Cardinality(Running \ {h}) = Cardinality(Running) - 1
    BY <2>2, RunningFinite, FS_RemoveElement
  <2>4. Cardinality(Running \ {h}) \in Nat
    BY RunningFinite, FS_Subset, FS_CardinalityType
  <2> QED
    BY <1>0, <2>1, <2>2, <2>3, <2>4
<1>5. CASE ~StartRun(h) /\ ~Release(h)
  <2>1. sem' = sem /\ (at'[h] \in InSlot <=> at[h] \in InSlot)
    BY <1>0, <1>5
    DEF GoroutineStep, PickCluster, PickGroup, RunGroup, PickUseCase, SubmitForm, Busy,
        KatoReturns, PatchCard, Decoded, cardResponse, InSlot
  <2>2. Running' = Running
    BY <1>2, <2>1 DEF Running
  <2> QED
    BY <1>0, <2>1, <2>2
<1> QED
  BY <1>3, <1>4, <1>5

(* The slots do not move when no handler does. *)
LEMMA SlotsUntouched ==
  ASSUME IInv, sem' = sem,
         \A g \in Goroutine : at'[g] \in InSlot <=> at[g] \in InSlot
  PROVE  SlotsAreCounted'
<1>1. Running' = Running
  BY DEF Running
<1> QED
  BY <1>1 DEF IInv, SlotsAreCounted, Running, InSlot

(* The FIFO and the history together, and the rest of the types. *)
History == DedupOK /\ Window /\ PickersApart /\ accepted \in Seq(Id)
Rest ==
  /\ pickers \in 0 .. deliveries
  /\ shown \in [Card -> Displays]
  /\ clicks \in Seq([card : Card, action : Actions, filled : BOOLEAN])
  /\ Len(clicks) <= MaxClicks /\ deliveries \in 0 .. MaxDeliveries
  /\ at \in [Goroutine -> Places]
  /\ job \in [Goroutine -> [click : ClickIndex \cup {NoClick}, card : Displays]]
  /\ answer \in [Goroutine -> Displays]
  /\ sem \in 0 .. MaxConcurrent
  /\ runs \in [ClickIndex -> Nat]
  /\ spoiled \subseteq Card

(* The invariant in the parts its steps disturb.                           *)
LEMMA Parted == IInv <=> History /\ Rest /\ ClickKnown /\ SlotsAreCounted
BY DEF IInv, TypeOK, History, Rest

(* A step that accepts no message keeps what is known of the history.      *)
LEMMA HistoryKept ==
  ASSUME History, UNCHANGED <<dedupVars, accepted>>
  PROVE  History'
BY NotRemembering DEF History

(* Every step keeps the invariant.                                         *)
LEMMA NextKeeps ==
  ASSUME IInv, Next
  PROVE  IInv'
<1>0. History /\ Rest /\ ClickKnown /\ SlotsAreCounted /\ MaxDeliveries \in Nat /\ MaxClicks \in Nat
  BY Parted, BoundAssumption
<1> SUFFICES History' /\ Rest' /\ ClickKnown' /\ SlotsAreCounted'
  BY DEF IInv, TypeOK, History, Rest
<1>1. ASSUME NEW id \in Id \cup {EmptyId}, MessageEvent(id)
      PROVE  History' /\ Rest' /\ ClickKnown' /\ SlotsAreCounted'
  <2>1. UNCHANGED <<shown, clicks, at, job, answer, sem, runs, spoiled>>
    BY <1>1 DEF MessageEvent
  <2>2. deliveries' \in 0 .. MaxDeliveries /\ pickers' \in 0 .. deliveries'
    BY <1>0, <1>1 DEF MessageEvent, messageVars, Rest
  <2>3. History'
    <3>1. CASE UNCHANGED <<dedupVars, accepted>>
      BY <1>0, <3>1, HistoryKept
    <3>2. CASE id \in Id /\ Accept(id) /\ accepted' = Append(accepted, id)
      <4>1. DedupOK' /\ Window' /\ PickersApart'
        BY <1>0, <3>2, Remembering DEF History
      <4>2. accepted' \in Seq(Id)
        BY <1>0, <3>2, AppendProperties DEF History
      <4> QED
        BY <4>1, <4>2 DEF History
    <3>3. CASE UNCHANGED messageVars
      BY <3>1, <3>3 DEF messageVars
    <3>4. CASE id = EmptyId /\ Accept(id) /\ accepted' = accepted
      BY <3>1, <3>4 DEF Accept
    <3> QED
      BY <1>1, <3>2, <3>3, <3>4 DEF MessageEvent
  <2>4. Rest'
    BY <1>0, <2>1, <2>2, <2>3 DEF Rest
  <2>5. ClickKnown' /\ SlotsAreCounted'
    BY <1>0, <2>1 DEF ClickKnown, SlotsAreCounted
  <2> QED
    BY <2>3, <2>4, <2>5
<1>2. CASE PostPicker
  <2>1. History'
    BY <1>0, <1>2, HistoryKept DEF PostPicker
  <2>2. pickers' \in 0 .. deliveries /\ shown' \in [Card -> Displays]
    BY <1>0, <1>2 DEF PostPicker, Rest, Displays
  <2>3. UNCHANGED <<accepted, clicks, deliveries, at, job, answer, sem, runs, spoiled>>
    BY <1>2 DEF PostPicker
  <2>4. Rest'
    BY <1>0, <2>2, <2>3 DEF Rest
  <2>5. ClickKnown' /\ SlotsAreCounted'
    BY <1>0, <2>3 DEF ClickKnown, SlotsAreCounted
  <2> QED
    BY <2>1, <2>4, <2>5
<1>3. ASSUME NEW c \in Card, NEW action \in Actions, NEW filled \in BOOLEAN, Click(c, action, filled)
      PROVE  History' /\ Rest' /\ ClickKnown' /\ SlotsAreCounted'
  <2>1. UNCHANGED <<messageVars, shown, deliveries, at, job, answer, sem, runs, spoiled>>
    BY <1>3 DEF Click
  <2>2. /\ clicks' \in Seq([card : Card, action : Actions, filled : BOOLEAN])
        /\ Len(clicks') = Len(clicks) + 1 /\ Len(clicks) < MaxClicks /\ Len(clicks) \in Nat
    BY <1>0, <1>3, AppendProperties, LenProperties DEF Click, Rest
  <2>3. History' /\ SlotsAreCounted'
    BY <1>0, <2>1, HistoryKept DEF messageVars, SlotsAreCounted
  <2>4. Rest'
    BY <1>0, <2>1, <2>2 DEF Rest, messageVars
  <2>5. ClickKnown'
    BY <1>0, <2>1, <2>2 DEF ClickKnown
  <2> QED
    BY <2>3, <2>4, <2>5
<1>4. ASSUME NEW h \in Goroutine, NEW k \in 1 .. Len(clicks), CardAction(h, k)
      PROVE  History' /\ Rest' /\ ClickKnown' /\ SlotsAreCounted'
  <2>1. UNCHANGED <<messageVars, shown, clicks, answer, sem, runs, spoiled>>
    BY <1>4 DEF CardAction
  <2>2. /\ at' = [at EXCEPT ![h] = "decoded"] /\ at[h] = "idle"
        /\ job' = [job EXCEPT ![h] = [click |-> k, card |-> "none"]]
        /\ deliveries' \in 0 .. MaxDeliveries /\ pickers \in 0 .. deliveries'
    BY <1>0, <1>4 DEF CardAction, Rest
  <2>3. k \in ClickIndex
    BY <1>0, LenProperties DEF Rest, ClickIndex
  <2>4. Rest'
    BY <1>0, <2>1, <2>2, <2>3 DEF Rest, messageVars, Places, Displays
  <2>5. ClickKnown'
    BY <1>0, <2>1, <2>2 DEF ClickKnown, Rest
  <2>6. SlotsAreCounted'
    BY <1>0, <2>1, <2>2, SlotsUntouched DEF Rest, InSlot
  <2> QED
    BY <1>0, <2>1, <2>4, <2>5, <2>6, HistoryKept DEF messageVars
<1>5. ASSUME NEW h \in Goroutine, GoroutineStep(h)
      PROVE  History' /\ Rest' /\ ClickKnown' /\ SlotsAreCounted'
  <2>1. History'
    BY <1>0, <1>5, HandlerTypes, HistoryKept DEF messageVars
  <2>2. SlotsAreCounted' /\ sem' \in 0 .. MaxConcurrent
    BY <1>5, SlotsKept
  <2>3. Rest'
    BY <1>0, <1>5, <2>2, HandlerTypes DEF Rest, messageVars
  <2>4. ClickKnown'
    BY <1>0, <1>5, HandlerTypes DEF ClickKnown
  <2> QED
    BY <2>1, <2>2, <2>3, <2>4
<1>6. ASSUME NEW h \in Goroutine, Paint(h)
      PROVE  History' /\ Rest' /\ ClickKnown' /\ SlotsAreCounted'
  <2>1. UNCHANGED <<messageVars, clicks, deliveries, at, job, sem, runs>> /\ answer[h] # "none"
        /\ answer' = [answer EXCEPT ![h] = "none"]
    BY <1>6 DEF Paint
  <2>2. CardOf(h) \in Card
    BY <2>1, CardKnown
  <2>3. shown' \in [Card -> Displays] /\ spoiled' \subseteq Card
    BY <1>0, <1>6, <2>2 DEF Paint, Rest
  <2>4. Rest'
    BY <1>0, <2>1, <2>3 DEF Rest, messageVars, Displays
  <2>5. ClickKnown' /\ SlotsAreCounted'
    BY <1>0, <2>1 DEF ClickKnown, SlotsAreCounted, Rest
  <2> QED
    BY <1>0, <2>1, <2>4, <2>5, HistoryKept DEF messageVars
<1> QED
  BY <1>1, <1>2, <1>3, <1>4, <1>5, <1>6 DEF Next

-----------------------------------------------------------------------------
(* The theorems *)

(* The FIFO is the end of the history, and handlers know their clicks. *)
THEOREM Inductive == Spec => []IInv
<1>1. Init => IInv
  <2> SUFFICES ASSUME Init
               PROVE  IInv
    OBVIOUS
  <2>1. order = <<>> /\ accepted = <<>> /\ clicks = <<>> /\ ids = {}
    BY DEF Init, DedupInit
  <2>2. History
    BY <2>1, CapAssumption, EmptySeq DEF History, DedupOK, Window, PickersApart
  <2>3. Rest
    <3>1. shown \in [Card -> Displays]
      BY OldCardsAssumption DEF Init
    <3>2. clicks \in Seq([card : Card, action : Actions, filled : BOOLEAN])
          /\ Len(clicks) <= MaxClicks /\ pickers \in 0 .. deliveries
      BY <2>1, EmptySeq, BoundAssumption DEF Init
    <3>3. deliveries \in 0 .. MaxDeliveries /\ sem \in 0 .. MaxConcurrent
      BY SemAssumption, BoundAssumption DEF Init
    <3>4. at \in [Goroutine -> Places] /\ answer \in [Goroutine -> Displays]
      BY DEF Init, Places, Displays
    <3>5. job \in [Goroutine -> [click : ClickIndex \cup {NoClick}, card : Displays]]
      BY DEF Init, Displays
    <3>6. runs \in [ClickIndex -> Nat] /\ spoiled \subseteq Card
      BY DEF Init
    <3> QED
      BY <3>1, <3>2, <3>3, <3>4, <3>5, <3>6 DEF Rest
  <2>4. ClickKnown
    BY DEF Init, ClickKnown
  <2>5. Running = {} /\ sem = 0
    BY DEF Init, Running, InSlot
  <2>6. SlotsAreCounted
    BY <2>5, FS_EmptySet DEF SlotsAreCounted, Running, InSlot
  <2> QED
    BY <2>2, <2>3, <2>4, <2>6, Parted
<1>2. IInv /\ [Next]_vars => IInv'
  <2> SUFFICES ASSUME IInv, [Next]_vars
               PROVE  IInv'
    OBVIOUS
  <2>1. CASE Next
    BY <2>1, NextKeeps
  <2>2. CASE UNCHANGED vars
    <3>1. History' /\ Rest' /\ ClickKnown' /\ SlotsAreCounted'
      BY <2>2, Parted, HistoryKept
      DEF vars, messageVars, Rest, ClickKnown, SlotsAreCounted
    <3> QED
      BY <3>1 DEF IInv, TypeOK, History, Rest
  <2> QED
    BY <2>1, <2>2
<1> QED
  BY <1>1, <1>2, PTL DEF Spec

(* Every variable keeps its type; the map and the queue of the FIFO hold   *)
(* the same ids.                                                           *)
THEOREM TypeCorrect == Spec => []TypeOK
<1>1. IInv => TypeOK
  BY DEF IInv
<1> QED
  BY <1>1, Inductive, PTL

(* A redelivered message gets a second picker only after dedupCap others,  *)
(* whatever the capacity and the order of deliveries.                      *)
THEOREM PickersAreApart == Spec => []PickersApart
<1>1. IInv => PickersApart
  BY DEF IInv
<1> QED
  BY <1>1, Inductive, PTL

(* The semaphore counts the runs in progress. *)
THEOREM SlotsCounted == Spec => []SlotsAreCounted
<1>1. IInv => SlotsAreCounted
  BY DEF IInv
<1> QED
  BY <1>1, Inductive, PTL
=============================================================================
