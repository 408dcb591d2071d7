---------------------- MODULE SubstrateListener_proofs ----------------------
(* Proofs about SubstrateListener, for any blocks, limits and failures. *)
EXTENDS SubstrateListener, Fees_proofs, SequenceTheorems

LEMMA Limits ==
    /\ StartBlock \in Nat /\ RetryLimit \in Nat /\ RetryLimit > 0
    /\ MaxErrors \in Nat /\ MaxReorgs \in Nat /\ MaxCrashes \in Nat
  BY ListenerAssumption DEF ListenerAssumption

(* The places of a kind that the listener is done with. *)
Passed(kind) == {q \in Finalized(kind, first) : Behind(q.block, q.index)}

LEMMA FinalizedElement ==
    ASSUME NEW kind, NEW b, NEW p
    PROVE  p \in Finalized(kind, b)
             <=> /\ p.block \in 1..final /\ p.index \in DOMAIN chain[p.block]
                 /\ p = [block |-> p.block, index |-> p.index]
                 /\ p.block >= b /\ KindOf[chain[p.block][p.index]] = kind
  BY DEF Finalized

LEMMA PassedElement ==
    ASSUME NEW kind, NEW p
    PROVE  p \in Passed(kind)
             <=> /\ p.block \in 1..final /\ p.index \in DOMAIN chain[p.block]
                 /\ p = [block |-> p.block, index |-> p.index]
                 /\ p.block >= first /\ KindOf[chain[p.block][p.index]] = kind
                 /\ Behind(p.block, p.index)
  BY FinalizedElement DEF Passed

LEMMA PassedNext ==
    ASSUME NEW kind, NEW p
    PROVE  p \in Passed(kind)'
             <=> /\ p.block \in 1..final' /\ p.index \in DOMAIN chain'[p.block]
                 /\ p = [block |-> p.block, index |-> p.index]
                 /\ p.block >= first' /\ KindOf[chain'[p.block][p.index]] = kind
                 /\ Behind(p.block, p.index)'
  BY DEF Passed, Finalized

LEMMA PlaceTypes ==
    ASSUME TypeOK, NEW b \in 1..final
    PROVE  b \in Nat /\ b > 0 /\ b \in DOMAIN chain /\ chain[b] \in Seq(Extrinsics)
<1>1. Blocks \subseteq Seq(Extrinsics)
  BY ListenerAssumption DEF ListenerAssumption
<1> QED
  BY <1>1 DEF TypeOK

(***************************************************************************)
(* The chain: what is final stays.                                         *)
(***************************************************************************)
LEMMA ChainKeeps ==
    ASSUME TypeOK, Mine \/ Reorg \/ Finalize
    PROVE  /\ chain' \in Seq(Blocks) /\ final' \in 0..Len(chain') /\ final <= final'
           /\ \A b \in 1..final : b \in DOMAIN chain /\ b \in DOMAIN chain'
                                  /\ chain'[b] = chain[b]
<1>0. final \in Nat /\ Len(chain) \in Nat /\ final <= Len(chain) /\ DOMAIN chain = 1..Len(chain)
  BY DEF TypeOK
<1>1. CASE Mine
  <2>1. PICK content \in Blocks : chain' = Append(chain, content)
    BY <1>1 DEF Mine
  <2>2. /\ chain' \in Seq(Blocks) /\ Len(chain') = Len(chain) + 1
        /\ \A i \in 1..Len(chain) : chain'[i] = chain[i]
    BY <2>1, AppendProperties DEF TypeOK
  <2> QED
    BY <1>0, <1>1, <2>2 DEF Mine
<1>2. CASE Reorg
  <2>1. PICK n \in 1..(Len(chain) - final) : \E branch \in [1..n -> Blocks] :
          chain' = SubSeq(chain, 1, Len(chain) - n) \o branch
    BY <1>2 DEF Reorg
  <2>2. PICK branch \in [1..n -> Blocks] :
          chain' = SubSeq(chain, 1, Len(chain) - n) \o branch
    BY <2>1
  <2> DEFINE kept == SubSeq(chain, 1, Len(chain) - n)
  <2>3. n \in Nat /\ Len(chain) \in Nat /\ Len(chain) - n \in Nat /\ final <= Len(chain) - n
    BY <1>0, <2>1
  <2>4. branch \in Seq(Blocks) /\ Len(branch) = n
    BY <2>2, <2>3, SeqDef
  <2>5. \A i \in 1..(Len(chain) - n) : chain[i] \in Blocks
    BY <1>0, <2>3 DEF TypeOK
  <2>6. /\ kept \in Seq(Blocks) /\ Len(kept) = Len(chain) - n
        /\ \A i \in 1..(Len(chain) - n) : kept[i] = chain[i]
    BY <2>3, <2>5, SubSeqProperties
  <2>7. chain' = kept \o branch
    BY <2>2
  <2> HIDE DEF kept
  <2>8. /\ chain' \in Seq(Blocks) /\ Len(chain') = Len(kept) + n
        /\ \A i \in 1..Len(kept) : chain'[i] = kept[i]
    <3>1. kept \in Seq(Blocks) /\ branch \in Seq(Blocks)
      BY <2>4, <2>6
    <3>2. /\ chain' \in Seq(Blocks) /\ Len(chain') = Len(kept) + Len(branch)
          /\ \A i \in 1..(Len(kept) + Len(branch)) :
                chain'[i] = IF i <= Len(kept) THEN kept[i] ELSE branch[i - Len(kept)]
      BY <2>7, <3>1, ConcatProperties
    <3>3. \A i \in 1..Len(kept) : i \in 1..(Len(kept) + Len(branch)) /\ i <= Len(kept)
      BY <2>3, <2>4, <2>6
    <3> QED
      BY <2>4, <3>2, <3>3
  <2>9. final' = final
    BY <1>2 DEF Reorg
  <2>10. chain' \in Seq(Blocks) /\ final' \in 0..Len(chain') /\ final <= final'
    <3>1. Len(chain') = Len(chain)
      BY <2>3, <2>6, <2>8
    <3>2. final' \in 0..Len(chain')
      BY <1>0, <2>9, <3>1
    <3>3. final <= final'
      BY <1>0, <2>9
    <3> QED
      BY <2>8, <3>2, <3>3
  <2>11. DOMAIN chain' = 1..Len(chain')
    BY <2>10
  <2>12. ASSUME NEW b \in 1..final
         PROVE  b \in DOMAIN chain /\ b \in DOMAIN chain' /\ chain'[b] = chain[b]
    <3>1. b \in 1..Len(kept) /\ b \in 1..(Len(chain) - n)
      BY <1>0, <2>3, <2>6
    <3>2. chain'[b] = chain[b]
      BY <2>6, <2>8, <3>1
    <3>3. b \in 1..Len(chain) /\ b \in 1..Len(chain')
      BY <1>0, <2>3, <2>6, <2>8, <3>1
    <3> QED
      BY <1>0, <2>11, <3>2, <3>3
  <2> QED
    BY <2>10, <2>12
<1>3. CASE Finalize
  BY <1>0, <1>3 DEF Finalize, TypeOK
<1> QED
  BY <1>1, <1>2, <1>3

(***************************************************************************)
(* What is said of the places passed, as it is kept by the steps.          *)
(***************************************************************************)
Account ==
    /\ RoutedStaysOnChain /\ LifeWithoutGap /\ fresh \subseteq routed
    /\ RoutesOnce /\ MarksFollowChain

LEMMA PassedSame ==
    ASSUME TypeOK, UNCHANGED <<chain, final, first>>, NEW kind,
           \A b \in 1..final : \A i \in DOMAIN chain[b] :
              b >= first => (Behind(b, i)' <=> Behind(b, i))
    PROVE  Passed(kind)' = Passed(kind)
<1>1. ASSUME NEW p PROVE p \in Passed(kind)' <=> p \in Passed(kind)
  BY PassedElement, PassedNext
<1> QED
  BY <1>1

(* Steps that leave the listener behind the same places. *)
LEMMA AccountKept ==
    ASSUME IInv, UNCHANGED <<chain, final, first, current, marks, routed, fresh, again>>,
           \/ UNCHANGED <<pc, index>>
           \/ pc # "extrinsic" /\ (pc' = "extrinsic" => index' = 1)
    PROVE  Account'
<1> USE DEF IInv
<1>1. ASSUME NEW b \in 1..final, NEW i \in DOMAIN chain[b]
      PROVE  Behind(b, i)' <=> Behind(b, i)
  <2>1. i \in Nat /\ i > 0
    BY PlaceTypes
  <2> QED
    BY <2>1 DEF Behind
<1>2. Passed("deposit")' = Passed("deposit") /\ Passed("multisig")' = Passed("multisig")
  BY <1>1, PassedSame
<1>3. LifeWithoutGap'
  BY <1>2 DEF LifeWithoutGap, Passed, DepositAt, Message
<1>4. MarksFollowChain'
  BY <1>2 DEF MarksFollowChain, Passed
<1> QED
  BY <1>3, <1>4 DEF Account, RoutedStaysOnChain, RoutesOnce

LEMMA InitInv == Init => IInv
<1> SUFFICES ASSUME Init PROVE IInv
  OBVIOUS
<1>0. << >> \in Seq(Blocks) /\ << >> \in Seq(Extrinsics) /\ << >> \in Seq(Place)
  BY EmptySeq
<1>1. TypeOK
  <2>1. chain \in Seq(Blocks) /\ block \in Seq(Extrinsics) /\ marks \in Seq(Place)
    BY <1>0 DEF Init
  <2>2. final \in 0..Len(chain) /\ retry \in 0..RetryLimit
    BY Limits DEF Init
  <2>3. errors \in 0..MaxErrors /\ reorgs \in 0..MaxReorgs /\ crashes \in 0..MaxCrashes
    BY Limits DEF Init
  <2>4. latest \in BOOLEAN /\ pc \in Control /\ up \in BOOLEAN /\ again \in BOOLEAN
    BY DEF Init, Control
  <2>5. first \in Nat /\ known \in Nat /\ current \in Nat /\ index \in Nat \ {0} /\ row \in Nat
    BY DEF Init
  <2>6. routed \subseteq Messages /\ fresh \subseteq Messages
    BY DEF Init
  <2> QED
    BY <2>1, <2>2, <2>3, <2>4, <2>5, <2>6 DEF TypeOK
<1>2. Finalized("deposit", first) = {} /\ Finalized("multisig", first) = {}
  BY FinalizedElement DEF Init
<1> QED
  BY <1>1, <1>2, Limits
     DEF Init, IInv, RoutedStaysOnChain, LooksAtFinal, ExtrinsicsOfBlock,
         StartsWhereItShould, LifeWithoutGap, RoutesOnce, MarksFollowChain, RetriesCounted

LEMMA ChainInv ==
    ASSUME IInv, Mine \/ Reorg \/ Finalize
    PROVE  IInv'
<1> USE DEF IInv
<1>1. /\ UNCHANGED <<latest, pc, first, known, current, retry, block, index, up>>
      /\ UNCHANGED <<marks, routed, fresh, again, row, errors, crashes>>
      /\ reorgs' \in 0..MaxReorgs
  <2>1. /\ UNCHANGED <<latest, pc, task, up, marks, history, errors, crashes>>
        /\ reorgs' = reorgs \/ (reorgs < MaxReorgs /\ reorgs' = reorgs + 1)
    BY DEF Mine, Reorg, Finalize, counters
  <2>2. reorgs \in 0..MaxReorgs
    BY DEF TypeOK
  <2> QED
    BY <2>1, <2>2, Limits DEF task, history
<1>2. /\ chain' \in Seq(Blocks) /\ final' \in 0..Len(chain') /\ final <= final'
      /\ \A b \in 1..final : b \in DOMAIN chain /\ b \in DOMAIN chain' /\ chain'[b] = chain[b]
  BY ChainKeeps
<1>3. TypeOK'
  BY <1>1, <1>2 DEF TypeOK
<1>4. final \in Nat /\ final' \in Nat /\ current \in Nat /\ first \in Nat
  BY <1>1, <1>2, <1>3 DEF TypeOK
<1>5. RoutedStaysOnChain'
  <2>1. ASSUME NEW m \in routed
        PROVE  /\ m.block \in 1..final' /\ m.index \in DOMAIN chain'[m.block]
               /\ chain'[m.block][m.index] = m.payload
    BY <1>2, <1>4 DEF RoutedStaysOnChain
  <2> QED
    BY <1>1, <2>1 DEF RoutedStaysOnChain
<1>6. LooksAtFinal'
  BY <1>1, <1>2, <1>4 DEF LooksAtFinal, TypeOK
<1>7. ExtrinsicsOfBlock'
  <2>1. CASE current = 0
    BY <1>1, <1>2, <2>1, SMTT(30) DEF ExtrinsicsOfBlock, Content, TypeOK
  <2>2. CASE current > 0 /\ pc = "extrinsic"
    <3>1. current \in 1..final
      BY <1>4, <2>2 DEF LooksAtFinal
    <3>2. Content(current)' = Content(current)
      BY <1>1, <1>2, <3>1 DEF Content
    <3> QED
      BY <1>1, <3>2 DEF ExtrinsicsOfBlock
  <2> QED
    BY <1>1, <1>4, <2>1, <2>2 DEF ExtrinsicsOfBlock
<1>8. ASSUME NEW kind PROVE Passed(kind)' = Passed(kind)
  <2>1. ASSUME NEW p \in Passed(kind)' PROVE p.block \in 1..final
    <3>1. p.block \in 1..final' /\ p.block >= first /\ Behind(p.block, p.index)
      BY <1>1, PassedNext DEF Behind
    <3> QED
      BY <1>4, <3>1 DEF Behind, LooksAtFinal
  <2>2. ASSUME NEW p, p.block \in 1..final PROVE p \in Passed(kind)' <=> p \in Passed(kind)
    <3>1. p.block \in 1..final' /\ chain'[p.block] = chain[p.block]
          /\ (Behind(p.block, p.index)' <=> Behind(p.block, p.index))
      BY <1>1, <1>2, <1>4, <2>2 DEF Behind
    <3> QED
      BY <1>1, <2>2, <3>1, PassedElement, PassedNext
  <2>3. ASSUME NEW p \in Passed(kind) PROVE p.block \in 1..final
    BY PassedElement
  <2> QED
    BY <2>1, <2>2, <2>3
<1>9. LifeWithoutGap'
  <2>1. ASSUME NEW p \in Passed("deposit") PROVE DepositAt(p)' = DepositAt(p)
    BY <1>2, PassedElement DEF DepositAt, Message
  <2> QED
    BY <1>1, <1>8, <2>1 DEF LifeWithoutGap, Passed
<1>10. MarksFollowChain'
  BY <1>1, <1>8 DEF MarksFollowChain, Passed
<1>11. StartsWhereItShould' /\ RoutesOnce' /\ RetriesCounted' /\ (fresh \subseteq routed)'
  BY <1>1 DEF StartsWhereItShould, RoutesOnce, RetriesCounted
<1> QED
  BY <1>3, <1>5, <1>6, <1>7, <1>9, <1>10, <1>11

(***************************************************************************)
(* The calls, which leave the chain and what was sent and marked alone.    *)
(***************************************************************************)
LEMMA CallsTypes ==
    ASSUME TypeOK, Works \/ Fails
    PROVE  errors' \in 0..MaxErrors
  BY Limits DEF TypeOK, Works, Fails

Calls ==
    \/ StartFails \/ FinalizedHead \/ Header \/ BlockHash \/ NotReady \/ CallFails \/ GiveUp
    \/ GetBlock \/ GetBlockByNumber \/ FetchPanics

LEMMA CallsFrame ==
    ASSUME TypeOK, Calls
    PROVE  /\ UNCHANGED <<chain, final, latest, first, current, marks, routed, fresh, again>>
           /\ UNCHANGED <<reorgs, crashes>> /\ up' \in BOOLEAN /\ errors' \in 0..MaxErrors
<1>1. CASE StartFails
  BY <1>1, CallsTypes, Limits DEF StartFails, node, task, history
<1>2. CASE FinalizedHead
  BY <1>2, CallsTypes DEF FinalizedHead, node, history, TypeOK
<1>3. CASE Header
  BY <1>3, CallsTypes DEF Header, node, history, TypeOK
<1>4. CASE BlockHash
  BY <1>4, CallsTypes DEF BlockHash, node, task, history, TypeOK
<1>5. CASE NotReady
  BY <1>5, CallsTypes DEF NotReady, node, task, history, TypeOK
<1>6. CASE CallFails
  BY <1>6, CallsTypes DEF CallFails, node, TypeOK
<1>7. CASE GiveUp
  BY <1>7 DEF GiveUp, node, task, history, counters, TypeOK
<1>8. CASE GetBlock
  BY <1>8, CallsTypes DEF GetBlock, node, task, history, TypeOK
<1>9. CASE GetBlockByNumber
  BY <1>9, CallsTypes DEF GetBlockByNumber, node, history, TypeOK
<1>10. CASE FetchPanics
  BY <1>10, CallsTypes DEF FetchPanics, node, task, history, TypeOK
<1> QED
  BY <1>1, <1>2, <1>3, <1>4, <1>5, <1>6, <1>7, <1>8, <1>9, <1>10 DEF Calls

(* What a call does to the position of the listener. *)
CallsPosition ==
    /\ pc' \in Control /\ known' \in Nat /\ retry' \in 0..RetryLimit /\ row' \in Nat
    /\ block' \in Seq(Extrinsics) /\ index' \in Nat \ {0}
    /\ UNCHANGED <<pc, index>> \/ (pc # "extrinsic" /\ (pc' = "extrinsic" => index' = 1))
    /\ known' <= final
    /\ pc' \in {"hash", "block", "number", "extrinsic"} => current <= final
    /\ pc' = "extrinsic" => block' = Content(current) /\ index' <= Len(block') + 1
    /\ pc' = "start" <=> pc = "start"
    /\ row' + retry' = RetryLimit
    /\ pc' \in {"header", "hash", "block", "number", "extrinsic"} => retry' > 0

LEMMA CallsStep ==
    ASSUME IInv, Calls
    PROVE  CallsPosition
<1> USE DEF IInv, Control
<1>0. /\ final \in Nat /\ known \in Nat /\ current \in Nat /\ retry \in Nat
      /\ row \in Nat /\ RetryLimit \in Nat /\ row + retry = RetryLimit
      /\ pc \in Control /\ retry \in 0..RetryLimit /\ known <= final
      /\ block \in Seq(Extrinsics) /\ index \in Nat \ {0}
  BY Limits DEF TypeOK, RetriesCounted, LooksAtFinal
<1>1. CASE StartFails
  BY <1>0, <1>1 DEF StartFails, task, history, CallsPosition
<1>2. CASE FinalizedHead
  BY <1>0, <1>2 DEF FinalizedHead, history, CallsPosition
<1>3. CASE Header
  BY <1>0, <1>3 DEF Header, history, CallsPosition, RetriesCounted
<1>4. CASE BlockHash
  BY <1>0, <1>4 DEF BlockHash, task, history, CallsPosition, LooksAtFinal, RetriesCounted
<1>5. CASE NotReady
  BY <1>0, <1>5 DEF NotReady, task, history, CallsPosition
<1>6. CASE CallFails
  BY <1>0, <1>6 DEF CallFails, CallsPosition, RetriesCounted
<1>7. CASE GiveUp
  BY <1>0, <1>7 DEF GiveUp, task, history, CallsPosition
<1>8. CASE GetBlock
  BY <1>0, <1>8 DEF GetBlock, task, history, CallsPosition, LooksAtFinal, RetriesCounted
<1>9. CASE GetBlockByNumber
  <2>1. Content(current) \in Seq(Extrinsics)
    <3>1. Blocks \subseteq Seq(Extrinsics) /\ << >> \in Seq(Extrinsics)
      BY ListenerAssumption, EmptySeq DEF ListenerAssumption
    <3>2. current \in DOMAIN chain => chain[current] \in Blocks
      BY DEF TypeOK
    <3> QED
      BY <3>1, <3>2 DEF Content
  <2>2. /\ block' = Content(current) /\ index' = 1 /\ pc' = "extrinsic" /\ pc = "number"
        /\ UNCHANGED <<known, current, retry, row>>
    BY <1>9 DEF GetBlockByNumber, history
  <2>3. current <= final /\ retry > 0
    BY <2>2 DEF LooksAtFinal, RetriesCounted
  <2>4. Len(block') \in Nat
    BY <2>1, <2>2
  <2> QED
    BY <1>0, <2>1, <2>2, <2>3, <2>4 DEF CallsPosition
<1>10. CASE FetchPanics
  BY <1>0, <1>10 DEF FetchPanics, task, history, CallsPosition, LooksAtFinal, RetriesCounted
<1> QED
  BY <1>1, <1>2, <1>3, <1>4, <1>5, <1>6, <1>7, <1>8, <1>9, <1>10 DEF Calls

LEMMA CallsInv ==
    ASSUME IInv, Calls
    PROVE  IInv'
<1> USE DEF IInv
<1>1. /\ UNCHANGED <<chain, final, latest, first, current, marks, routed, fresh, again>>
      /\ UNCHANGED <<reorgs, crashes>> /\ up' \in BOOLEAN /\ errors' \in 0..MaxErrors
  BY CallsFrame
<1>2. CallsPosition
  BY CallsStep
<1>3. TypeOK'
  BY <1>1, <1>2 DEF TypeOK, CallsPosition
<1>4. Account'
  BY <1>1, <1>2, AccountKept DEF CallsPosition
<1>5. LooksAtFinal'
  BY <1>1, <1>2 DEF CallsPosition, LooksAtFinal
<1>6. ExtrinsicsOfBlock'
  BY <1>1, <1>2 DEF CallsPosition, ExtrinsicsOfBlock, Content
<1>7. StartsWhereItShould'
  BY <1>1, <1>2 DEF CallsPosition, StartsWhereItShould
<1>8. RetriesCounted'
  BY <1>2 DEF CallsPosition, RetriesCounted
<1> QED
  BY <1>3, <1>4, <1>5, <1>6, <1>7, <1>8 DEF Account

LEMMA SameInv ==
    ASSUME IInv, Unparsed \/ UNCHANGED vars
    PROVE  IInv'
<1> USE DEF IInv
<1>1. /\ UNCHANGED <<chain, final, latest, pc, first, known, current, retry, block, index>>
      /\ UNCHANGED <<marks, routed, fresh, again, row, errors, reorgs, crashes>>
      /\ up' \in BOOLEAN
  BY DEF Unparsed, vars, node, task, history, counters, TypeOK
<1>2. TypeOK'
  BY <1>1 DEF TypeOK
<1>3. Account'
  BY <1>1, AccountKept
<1>4. LooksAtFinal' /\ ExtrinsicsOfBlock' /\ StartsWhereItShould' /\ RetriesCounted'
  BY <1>1 DEF LooksAtFinal, ExtrinsicsOfBlock, Content, StartsWhereItShould, RetriesCounted
<1> QED
  BY <1>2, <1>3, <1>4 DEF Account

(* Nothing lies behind a listener that starts. *)
LEMMA NothingPassed ==
    ASSUME TypeOK, NEW kind, first = current, pc # "extrinsic"
    PROVE  Passed(kind) = {}
<1>1. ASSUME NEW p \in Passed(kind) PROVE FALSE
  <2>1. p.block \in 1..final /\ p.block >= first /\ Behind(p.block, p.index)
    BY PassedElement
  <2>2. final \in Nat /\ first \in Nat
    BY DEF TypeOK
  <2>3. ~(p.block < current)
    BY <2>1, <2>2
  <2> QED
    BY <2>1, <2>3 DEF Behind
<1> QED
  BY <1>1

LEMMA NothingPassedNext ==
    ASSUME TypeOK', NEW kind, first' = current', pc' # "extrinsic"
    PROVE  Passed(kind)' = {}
<1>1. ASSUME NEW p \in Passed(kind)' PROVE FALSE
  <2>1. p.block \in 1..final' /\ p.block >= first' /\ Behind(p.block, p.index)'
    BY PassedNext
  <2>2. final' \in Nat /\ first' \in Nat
    BY DEF TypeOK
  <2>3. ~(p.block < current')
    BY <2>1, <2>2
  <2> QED
    BY <2>1, <2>3 DEF Behind
<1> QED
  BY <1>1

LEMMA StartInv ==
    ASSUME IInv, Start
    PROVE  IInv'
<1> USE DEF IInv
<1>1. /\ UNCHANGED <<chain, final, latest, known, retry, block, index, up>>
      /\ UNCHANGED <<marks, routed, fresh, again, row, errors, reorgs, crashes>>
      /\ pc = "start" /\ pc' = "head"
      /\ first' = FirstBlock /\ current' = FirstBlock /\ first = 0 /\ current = 0
  BY DEF Start, Works, node, history, StartsWhereItShould
<1>2. FirstBlock \in Nat /\ (~latest => FirstBlock = StartBlock)
  BY Limits DEF FirstBlock, TypeOK
<1>3. TypeOK'
  BY <1>1, <1>2 DEF TypeOK, Control
<1>4. ASSUME NEW kind PROVE Passed(kind) = {} /\ Passed(kind)' = {}
  BY <1>1, <1>3, NothingPassed, NothingPassedNext
<1>5. LifeWithoutGap'
  <2>1. fresh = {}
    BY <1>4 DEF LifeWithoutGap, Passed
  <2> QED
    BY <1>1, <1>4, <2>1 DEF LifeWithoutGap, Passed
<1>6. MarksFollowChain'
  BY <1>1, <1>4 DEF MarksFollowChain, Passed
<1>7. LooksAtFinal' /\ ExtrinsicsOfBlock' /\ StartsWhereItShould' /\ RetriesCounted'
  BY <1>1, <1>2 DEF LooksAtFinal, ExtrinsicsOfBlock, StartsWhereItShould, RetriesCounted, TypeOK
<1>8. RoutedStaysOnChain' /\ RoutesOnce' /\ (fresh \subseteq routed)'
  BY <1>1 DEF RoutedStaysOnChain, RoutesOnce
<1> QED
  BY <1>3, <1>5, <1>6, <1>7, <1>8

LEMMA RestartInv ==
    ASSUME IInv, Restart
    PROVE  IInv'
<1> USE DEF IInv
<1>1. /\ UNCHANGED <<chain, final, latest, routed, errors, reorgs>>
      /\ pc' = "start" /\ first' = 0 /\ known' = 0 /\ current' = 0
      /\ retry' = RetryLimit /\ block' = << >> /\ index' = 1 /\ up' = TRUE
      /\ marks' = << >> /\ fresh' = {} /\ again' = FALSE /\ row' = 0
  BY DEF Restart, node
<1>2. TypeOK'
  <2>1. crashes' \in 0..MaxCrashes
    BY Limits DEF Restart, TypeOK
  <2>2. << >> \in Seq(Extrinsics) /\ << >> \in Seq(Place)
    BY EmptySeq
  <2>3. retry' \in 0..RetryLimit
    BY <1>1, Limits
  <2>4. pc' \in Control /\ up' \in BOOLEAN /\ again' \in BOOLEAN
    BY <1>1 DEF Control
  <2> QED
    BY <1>1, <2>1, <2>2, <2>3, <2>4 DEF TypeOK
<1>3. ASSUME NEW kind PROVE Passed(kind)' = {}
  BY <1>1, <1>2, NothingPassedNext
<1>4. LifeWithoutGap' /\ MarksFollowChain'
  BY <1>1, <1>3 DEF LifeWithoutGap, MarksFollowChain, Passed
<1>5. LooksAtFinal' /\ ExtrinsicsOfBlock' /\ StartsWhereItShould' /\ RetriesCounted'
  BY <1>1, Limits DEF LooksAtFinal, ExtrinsicsOfBlock, StartsWhereItShould, RetriesCounted, TypeOK
<1>6. RoutedStaysOnChain' /\ RoutesOnce' /\ (fresh \subseteq routed)'
  BY <1>1 DEF RoutedStaysOnChain, RoutesOnce
<1> QED
  BY <1>2, <1>4, <1>5, <1>6

(***************************************************************************)
(* The extrinsics.                                                         *)
(***************************************************************************)
Here == [block |-> current, index |-> index]

LEMMA HereIsFinal ==
    ASSUME IInv, pc = "extrinsic", index <= Len(block)
    PROVE  /\ current \in 1..final /\ block = chain[current] /\ first <= current
           /\ index \in DOMAIN chain[current] /\ block[index] \in Extrinsics
           /\ current \in Nat /\ index \in Nat /\ index > 0 /\ Here \in Place
<1> USE DEF IInv
<1>1. /\ current \in Nat /\ index \in Nat /\ index > 0 /\ final \in Nat
      /\ block \in Seq(Extrinsics) /\ current <= final /\ first <= current
  BY DEF TypeOK, LooksAtFinal
<1>2. block # << >>
  BY <1>1
<1>3. current \in DOMAIN chain /\ block = chain[current]
  BY <1>2 DEF ExtrinsicsOfBlock, Content
<1>4. current > 0
  BY <1>3 DEF TypeOK
<1> QED
  BY <1>1, <1>3, <1>4 DEF Here, Place

LEMMA PassedGrows ==
    ASSUME IInv, pc = "extrinsic", index <= Len(block), NextExtrinsic, NEW kind
    PROVE  /\ KindOf[block[index]] = kind => Passed(kind)' = Passed(kind) \cup {Here}
           /\ KindOf[block[index]] # kind => Passed(kind)' = Passed(kind)
<1> USE DEF IInv
<1>1. /\ current \in 1..final /\ block = chain[current] /\ first <= current
      /\ index \in DOMAIN chain[current] /\ current \in Nat /\ index \in Nat
  BY HereIsFinal
<1>2. UNCHANGED <<chain, final, first, current, pc>> /\ index' = index + 1
  BY DEF NextExtrinsic, node
<1>3. ASSUME NEW p, p.block \in 1..final, p.index \in DOMAIN chain[p.block]
      PROVE  Behind(p.block, p.index)'
               <=> Behind(p.block, p.index) \/ (p.block = current /\ p.index = index)
  <2>1. p.block \in Nat /\ p.index \in Nat
    BY <1>3, PlaceTypes
  <2> QED
    BY <1>1, <1>2, <2>1 DEF Behind
<1>4. Here.block = current /\ Here.index = index /\ Here = [block |-> Here.block, index |-> Here.index]
  BY DEF Here
<1>5. ASSUME NEW p
      PROVE  p \in Passed(kind)'
               <=> p \in Passed(kind) \/ (p = Here /\ KindOf[block[index]] = kind)
  <2>1. CASE p = Here
    BY <1>1, <1>2, <1>3, <1>4, <2>1, PassedElement, PassedNext
  <2>2. CASE p # Here
    <3>1. p = [block |-> p.block, index |-> p.index] => ~(p.block = current /\ p.index = index)
      BY <2>2 DEF Here
    <3> QED
      BY <1>2, <1>3, <2>2, <3>1, PassedElement, PassedNext
  <2> QED
    BY <2>1, <2>2
<1> QED
  BY <1>5

(* What the steps through a block have in common. *)
LEMMA NextExtrinsicInv ==
    ASSUME IInv, pc = "extrinsic", index <= Len(block), NextExtrinsic,
           marks' \in Seq(Place), routed' \subseteq Messages, fresh' \subseteq Messages,
           again' \in BOOLEAN
    PROVE  TypeOK' /\ LooksAtFinal' /\ ExtrinsicsOfBlock' /\ StartsWhereItShould' /\ RetriesCounted'
<1> USE DEF IInv
<1>1. /\ UNCHANGED <<chain, final, latest, pc, first, known, current, retry, block, up, row>>
      /\ UNCHANGED <<errors, reorgs, crashes>> /\ index' = index + 1
  BY DEF NextExtrinsic, node, counters
<1>2. TypeOK'
  BY <1>1 DEF TypeOK
<1>3. ExtrinsicsOfBlock'
  <2>1. index \in Nat /\ Len(block) \in Nat /\ block = Content(current)
    BY DEF TypeOK, ExtrinsicsOfBlock
  <2> QED
    BY <1>1, <2>1 DEF ExtrinsicsOfBlock, Content
<1> QED
  BY <1>1, <1>2, <1>3 DEF LooksAtFinal, StartsWhereItShould, RetriesCounted

LEMMA DepositInv ==
    ASSUME IInv, Deposit
    PROVE  IInv'
<1> USE DEF IInv
<1> DEFINE m == Message(current, index, block[index])
<1>1. /\ pc = "extrinsic" /\ index <= Len(block) /\ KindOf[block[index]] = "deposit"
      /\ routed' = routed \cup {m} /\ fresh' = fresh \cup {m}
      /\ again' = (again \/ m \in fresh)
      /\ UNCHANGED marks /\ NextExtrinsic /\ UNCHANGED <<chain, final>>
  BY DEF Deposit, Handles, NextExtrinsic, node
<1>2. /\ current \in 1..final /\ block = chain[current]
      /\ index \in DOMAIN chain[current] /\ block[index] \in Extrinsics
      /\ current \in Nat /\ index \in Nat
  BY <1>1, HereIsFinal
<1>3. m \in Messages /\ m.block = current /\ m.index = index /\ m.payload = block[index]
  BY <1>2 DEF Message, Messages
<1>4. m = DepositAt(Here)
  BY <1>2 DEF DepositAt, Message, Here
<1> HIDE DEF m
<1>5. TypeOK' /\ LooksAtFinal' /\ ExtrinsicsOfBlock' /\ StartsWhereItShould' /\ RetriesCounted'
  <2>1. marks' \in Seq(Place) /\ routed' \subseteq Messages /\ fresh' \subseteq Messages
    BY <1>1, <1>3 DEF TypeOK
  <2>2. again' \in BOOLEAN
    BY <1>1 DEF TypeOK
  <2> QED
    BY <1>1, <2>1, <2>2, NextExtrinsicInv
<1>6. /\ Passed("deposit")' = Passed("deposit") \cup {Here}
      /\ Passed("multisig")' = Passed("multisig")
  BY <1>1, PassedGrows
<1>7. RoutedStaysOnChain'
  BY <1>1, <1>2, <1>3 DEF RoutedStaysOnChain
<1>8. fresh = {DepositAt(p) : p \in Passed("deposit")}
  BY DEF LifeWithoutGap, Passed
<1>9. LifeWithoutGap'
  <2>1. \A p : DepositAt(p)' = DepositAt(p)
    BY <1>1 DEF DepositAt, Message
  <2>2. fresh' = {DepositAt(p)' : p \in Passed("deposit")'}
    BY <1>1, <1>4, <1>6, <1>8, <2>1
  <2> QED
    BY <2>2 DEF LifeWithoutGap, Passed
<1>10. m \notin fresh
  <2>1. ASSUME NEW p \in Passed("deposit") PROVE DepositAt(p) # m
    <3>1. DepositAt(p).block = p.block /\ DepositAt(p).index = p.index
      BY DEF DepositAt, Message
    <3>2. Behind(p.block, p.index)
      BY PassedElement
    <3> QED
      BY <1>2, <1>3, <3>1, <3>2 DEF Behind
  <2> QED
    BY <1>8, <2>1
<1>11. RoutesOnce'
  BY <1>1, <1>10 DEF RoutesOnce
<1>12. MarksFollowChain'
  BY <1>1, <1>6 DEF MarksFollowChain, Passed
<1>13. (fresh \subseteq routed)'
  BY <1>1
<1> QED
  BY <1>5, <1>7, <1>9, <1>11, <1>12, <1>13

LEMMA PassOverInv ==
    ASSUME IInv, PassOver
    PROVE  IInv'
<1> USE DEF IInv
<1>1. /\ pc = "extrinsic" /\ index <= Len(block)
      /\ KindOf[block[index]] # "deposit" /\ KindOf[block[index]] # "multisig"
      /\ UNCHANGED <<marks, routed, fresh, again>> /\ NextExtrinsic
      /\ UNCHANGED <<chain, final>>
  BY DEF PassOver, Handles, NextExtrinsic, node
<1>2. TypeOK' /\ LooksAtFinal' /\ ExtrinsicsOfBlock' /\ StartsWhereItShould' /\ RetriesCounted'
  BY <1>1, NextExtrinsicInv DEF TypeOK
<1>3. Passed("deposit")' = Passed("deposit") /\ Passed("multisig")' = Passed("multisig")
  BY <1>1, PassedGrows
<1>4. LifeWithoutGap'
  BY <1>1, <1>3 DEF LifeWithoutGap, Passed, DepositAt, Message
<1>5. MarksFollowChain'
  BY <1>1, <1>3 DEF MarksFollowChain, Passed
<1>6. RoutedStaysOnChain' /\ RoutesOnce' /\ (fresh \subseteq routed)'
  BY <1>1 DEF RoutedStaysOnChain, RoutesOnce
<1> QED
  BY <1>2, <1>4, <1>5, <1>6

LEMMA MarkInv ==
    ASSUME IInv, Mark
    PROVE  IInv'
<1> USE DEF IInv
<1>1. /\ pc = "extrinsic" /\ index <= Len(block) /\ KindOf[block[index]] = "multisig"
      /\ marks' = Append(marks, Here)
      /\ UNCHANGED <<routed, fresh, again>> /\ NextExtrinsic /\ UNCHANGED <<chain, final>>
  BY DEF Mark, Handles, NextExtrinsic, node, Here
<1>2. /\ Here \in Place /\ current \in Nat /\ index \in Nat
      /\ Here.block = current /\ Here.index = index
  BY <1>1, HereIsFinal DEF Here
<1>3. /\ marks \in Seq(Place) /\ marks' \in Seq(Place) /\ Len(marks') = Len(marks) + 1
      /\ Len(marks) \in Nat
      /\ \A i \in 1..Len(marks) : marks'[i] = marks[i]
      /\ marks'[Len(marks) + 1] = Here
  BY <1>1, <1>2, AppendProperties DEF TypeOK
<1>4. TypeOK' /\ LooksAtFinal' /\ ExtrinsicsOfBlock' /\ StartsWhereItShould' /\ RetriesCounted'
  BY <1>1, <1>3, NextExtrinsicInv DEF TypeOK
<1>5. /\ Passed("deposit")' = Passed("deposit")
      /\ Passed("multisig")' = Passed("multisig") \cup {Here}
  BY <1>1, PassedGrows
<1>6. DOMAIN marks = 1..Len(marks) /\ DOMAIN marks' = 1..(Len(marks) + 1)
  BY <1>3
<1>7. {marks[j] : j \in DOMAIN marks} = Passed("multisig")
  BY DEF MarksFollowChain, Passed
<1>8. ASSUME NEW j \in DOMAIN marks'
      PROVE  \/ j \in DOMAIN marks /\ marks'[j] = marks[j]
             \/ j = Len(marks) + 1 /\ j \notin DOMAIN marks /\ marks'[j] = Here
  BY <1>3, <1>6
<1>9. {marks'[j] : j \in DOMAIN marks'} = Passed("multisig")'
  <2>1. Len(marks) + 1 \in DOMAIN marks' /\ DOMAIN marks \subseteq DOMAIN marks'
    BY <1>3, <1>6
  <2> QED
    BY <1>3, <1>5, <1>6, <1>7, <1>8, <2>1
<1>10. ASSUME NEW j \in DOMAIN marks', NEW k \in DOMAIN marks', j < k
       PROVE  \/ marks'[j].block < marks'[k].block
              \/ marks'[j].block = marks'[k].block /\ marks'[j].index < marks'[k].index
  <2>1. j \in DOMAIN marks /\ marks'[j] = marks[j]
    BY <1>3, <1>6, <1>10
  <2>2. CASE k \in DOMAIN marks
    BY <1>3, <1>6, <1>10, <2>1, <2>2 DEF MarksFollowChain
  <2>3. CASE k \notin DOMAIN marks
    <3>1. marks'[k] = Here
      BY <1>8, <2>3
    <3>2. Behind(marks[j].block, marks[j].index)
      BY <1>7, <2>1, PassedElement
    <3> QED
      BY <1>2, <2>1, <3>1, <3>2 DEF Behind
  <2> QED
    BY <2>2, <2>3
<1>11. MarksFollowChain'
  BY <1>9, <1>10 DEF MarksFollowChain, Passed
<1>12. LifeWithoutGap'
  BY <1>1, <1>5 DEF LifeWithoutGap, Passed, DepositAt, Message
<1>13. RoutedStaysOnChain' /\ RoutesOnce' /\ (fresh \subseteq routed)'
  BY <1>1 DEF RoutedStaysOnChain, RoutesOnce
<1> QED
  BY <1>4, <1>11, <1>12, <1>13

LEMMA HandledInv ==
    ASSUME IInv, Handled
    PROVE  IInv'
<1> USE DEF IInv
<1>1. /\ UNCHANGED <<chain, final, latest, first, known, up>>
      /\ UNCHANGED <<marks, routed, fresh, again, errors, reorgs, crashes>>
      /\ pc = "extrinsic" /\ index > Len(block) /\ pc' = "head"
      /\ block' = << >> /\ index' = 1
      /\ current' = current + 1 /\ retry' = RetryLimit /\ row' = 0
  BY DEF Handled, NextBlock, node, counters
<1>2. /\ current \in Nat /\ first \in Nat /\ first <= current /\ current <= final
      /\ final \in Nat /\ index \in Nat /\ Len(block) \in Nat /\ block = Content(current)
  BY <1>1 DEF TypeOK, LooksAtFinal, ExtrinsicsOfBlock
<1>3. TypeOK'
  <2>1. << >> \in Seq(Extrinsics) /\ retry' \in 0..RetryLimit
    BY <1>1, Limits, EmptySeq
  <2> QED
    BY <1>1, <1>2, <2>1 DEF TypeOK, Control
<1>4. ASSUME NEW b \in 1..final, NEW i \in DOMAIN chain[b]
      PROVE  Behind(b, i)' <=> Behind(b, i)
  <2>1. b \in Nat /\ i \in Nat /\ i <= Len(chain[b]) /\ b \in DOMAIN chain
    BY PlaceTypes
  <2>2. b = current => i < index
    BY <1>1, <1>2, <2>1 DEF Content
  <2> QED
    BY <1>1, <1>2, <2>1, <2>2 DEF Behind
<1>5. Passed("deposit")' = Passed("deposit") /\ Passed("multisig")' = Passed("multisig")
  BY <1>1, <1>4, PassedSame
<1>6. LifeWithoutGap'
  BY <1>1, <1>5 DEF LifeWithoutGap, Passed, DepositAt, Message
<1>7. MarksFollowChain'
  BY <1>1, <1>5 DEF MarksFollowChain, Passed
<1>8. LooksAtFinal' /\ ExtrinsicsOfBlock' /\ StartsWhereItShould' /\ RetriesCounted'
  BY <1>1, <1>2, Limits
     DEF LooksAtFinal, ExtrinsicsOfBlock, StartsWhereItShould, RetriesCounted
<1>9. RoutedStaysOnChain' /\ RoutesOnce' /\ (fresh \subseteq routed)'
  BY <1>1 DEF RoutedStaysOnChain, RoutesOnce
<1> QED
  BY <1>3, <1>6, <1>7, <1>8, <1>9

LEMMA StepInv == IInv /\ [Next]_vars => IInv'
  BY ChainInv, CallsInv, SameInv, StartInv, RestartInv, DepositInv, MarkInv, PassOverInv,
     HandledInv DEF Next, Listening, Calls

(***************************************************************************)
(* The inductive invariant holds, whatever the blocks contain, whichever   *)
(* calls fail, and with the latestBlock flag and without it.               *)
(***************************************************************************)
THEOREM Invariance == Spec => []IInv
  BY InitInv, StepInv, PTL DEF Spec

(***************************************************************************)
(* Every variable of the listener and of the chain it polls keeps its type.*)
(***************************************************************************)
THEOREM TypeCorrect == Spec => []TypeOK
<1>1. IInv => TypeOK
  BY DEF IInv
<1> QED
  BY <1>1, Invariance, PTL

(***************************************************************************)
(* No deposit that pollBlocks and processBlock routed leaves the chain.    *)
(***************************************************************************)
THEOREM RoutedForGood == Spec => []RoutedStaysOnChain
<1>1. IInv => RoutedStaysOnChain
  BY DEF IInv
<1> QED
  BY <1>1, Invariance, PTL

(***************************************************************************)
(* No deposit is routed twice in one life of the relayer.                  *)
(***************************************************************************)
THEOREM NoRepeats == Spec => []RoutesOnce
<1>1. IInv => RoutesOnce
  BY DEF IInv
<1> QED
  BY <1>1, Invariance, PTL

(***************************************************************************)
(* In one life the relayer routes what it passes, and nothing else.        *)
(***************************************************************************)
THEOREM NoGap == Spec => []LifeWithoutGap
<1>1. IInv => LifeWithoutGap
  BY DEF IInv
<1> QED
  BY <1>1, Invariance, PTL

(***************************************************************************)
(* The as_multi extrinsics are marked once each, in the chain's order.     *)
(***************************************************************************)
THEOREM MarksInOrder == Spec => []MarksFollowChain
<1>1. IInv => MarksFollowChain
  BY DEF IInv
<1> QED
  BY <1>1, Invariance, PTL

(***************************************************************************)
(* The listener gives up only after BlockRetryLimit failures in a row.     *)
(***************************************************************************)
THEOREM RetriesUsedUp == Spec => []GivesUpInTime
<1>1. IInv => GivesUpInTime
  BY Limits DEF IInv, TypeOK, RetriesCounted, GivesUpInTime
<1> QED
  BY <1>1, Invariance, PTL

(***************************************************************************)
(* A deposit asks for more than was paid just if it does not cover half of *)
(* its fee, and never comes back as more, for any fee, rate and unit.      *)
(* About the fee arithmetic of processBlock and redeemTx.                  *)
(***************************************************************************)
THEOREM CreditIsBounded == Spec => []CreditsMoreBelowHalfFee
<1>1. IInv => CreditsMoreBelowHalfFee
  <2> SUFFICES ASSUME IInv, NEW m \in routed
               PROVE  LET a == AmountOf[m.payload] IN
                        /\ Credit(a) > a * OneToken <=> Fee(a) > 2 * a
                        /\ Payable(Credit(a)) <= a
    BY DEF CreditsMoreBelowHalfFee
  <2>1. AmountOf[m.payload] \in Nat
    BY ListenerAssumption DEF ListenerAssumption, IInv, TypeOK, Messages
  <2> QED
    BY <2>1, CreditAgainstFee, RoundTripWithinDeposit
<1> QED
  BY <1>1, Invariance, PTL

(***************************************************************************)
(* Refinement: only finality settles deposits, only Deposit routes one.    *)
(***************************************************************************)
OwedNow == IF latest THEN {} ELSE Settled
RoutedNow == IF latest THEN {} ELSE routed

LEMMA SettledElement ==
    ASSUME NEW m \in Settled
    PROVE  \E p \in Finalized("deposit", StartBlock) :
             m = DepositAt(p) /\ m.block = p.block /\ m.index = p.index
  BY DEF Settled, DepositAt, Message

LEMMA FeedInit == Init => Feed!Init
<1> SUFFICES ASSUME Init PROVE Feed!Init
  OBVIOUS
<1>1. Settled = {}
  BY SettledElement, FinalizedElement DEF Init
<1> QED
  BY <1>1 DEF Init, Feed!Init

LEMMA SettledSame ==
    ASSUME UNCHANGED <<chain, final>>
    PROVE  Settled' = Settled
  BY DEF Settled, Finalized, DepositAt, Message

LEMMA FinalityMakesSettled ==
    ASSUME TypeOK, Mine \/ Reorg \/ Finalize
    PROVE  /\ Settled \subseteq Settled'
           /\ \A d \in Settled, e \in Settled' \ Settled : Feed!Before(d, e)
<1>1. /\ final \in Nat /\ final' \in Nat /\ final <= final'
      /\ \A b \in 1..final : chain'[b] = chain[b]
  BY ChainKeeps DEF TypeOK
<1>2. ASSUME NEW p
      PROVE  p \in Finalized("deposit", StartBlock)'
               <=> /\ p.block \in 1..final' /\ p.index \in DOMAIN chain'[p.block]
                   /\ p = [block |-> p.block, index |-> p.index]
                   /\ p.block >= StartBlock /\ KindOf[chain'[p.block][p.index]] = "deposit"
  BY DEF Finalized
<1>3. ASSUME NEW p, p.block \in 1..final
      PROVE  /\ p \in Finalized("deposit", StartBlock)' <=> p \in Finalized("deposit", StartBlock)
             /\ DepositAt(p)' = DepositAt(p)
  BY <1>1, <1>2, <1>3, FinalizedElement DEF DepositAt, Message
<1>4. Settled' = {DepositAt(p)' : p \in Finalized("deposit", StartBlock)'}
  BY DEF Settled, Finalized, DepositAt, Message
<1>5. ASSUME NEW d \in Settled PROVE d \in Settled' /\ d.block \in 1..final
  <2>1. PICK p \in Finalized("deposit", StartBlock) : d = DepositAt(p) /\ d.block = p.block
    BY SettledElement
  <2>2. p.block \in 1..final
    BY <2>1, FinalizedElement
  <2> QED
    BY <1>3, <1>4, <2>1, <2>2
<1>6. ASSUME NEW e \in Settled', e \notin Settled PROVE e.block \in 1..final' /\ e.block > final
  <2>1. PICK p \in Finalized("deposit", StartBlock)' : e = DepositAt(p)'
    BY <1>4, <1>6
  <2>2. e.block = p.block /\ p.block \in 1..final'
    BY <1>2, <2>1 DEF DepositAt, Message
  <2>3. p.block \notin 1..final
    BY <1>3, <1>6, <2>1 DEF Settled
  <2> QED
    BY <1>1, <2>2, <2>3
<1> QED
  BY <1>1, <1>5, <1>6 DEF Feed!Before

LEMMA DepositRoutes ==
    ASSUME IInv, Deposit, ~latest
    PROVE  /\ Settled' = Settled
           /\ \E d \in Settled :
                /\ \A e \in Settled : Feed!Before(e, d) => e \in routed
                /\ routed' = routed \cup {d}
<1> USE DEF IInv
<1> DEFINE m == Message(current, index, block[index])
<1>1. /\ pc = "extrinsic" /\ index <= Len(block) /\ KindOf[block[index]] = "deposit"
      /\ routed' = routed \cup {m} /\ UNCHANGED <<chain, final>>
  BY DEF Deposit, Handles, NextExtrinsic, node
<1>2. /\ current \in 1..final /\ block = chain[current] /\ first <= current
      /\ index \in DOMAIN chain[current] /\ current \in Nat /\ index \in Nat
  BY <1>1, HereIsFinal
<1>3. first = StartBlock
  BY <1>1 DEF StartsWhereItShould
<1>4. m = DepositAt(Here) /\ m.block = current /\ m.index = index
  BY <1>2 DEF DepositAt, Message, Here
<1>5. Here \in Finalized("deposit", StartBlock)
  <2>1. Here.block = current /\ Here.index = index /\ Here = [block |-> Here.block, index |-> Here.index]
    BY DEF Here
  <2> QED
    BY <1>1, <1>2, <1>3, <2>1, FinalizedElement
<1>6. m \in Settled
  BY <1>4, <1>5 DEF Settled
<1> HIDE DEF m
<1>7. ASSUME NEW e \in Settled, Feed!Before(e, m) PROVE e \in routed
  <2>1. PICK p \in Finalized("deposit", StartBlock) :
          e = DepositAt(p) /\ e.block = p.block /\ e.index = p.index
    BY SettledElement
  <2>2. Behind(p.block, p.index)
    BY <1>1, <1>4, <1>7, <2>1 DEF Feed!Before, Behind
  <2>3. e \in fresh
    BY <1>3, <2>1, <2>2 DEF LifeWithoutGap
  <2> QED
    BY <2>3
<1> QED
  BY <1>1, <1>6, <1>7, SettledSame

LEMMA FeedStep ==
    ASSUME IInv, [Next]_vars
    PROVE  [Feed!Next]_<<OwedNow, RoutedNow>>
<1>0. UNCHANGED latest
  BY DEF Next, Listening, Mine, Reorg, Finalize, Start, StartFails, FinalizedHead, Header,
         BlockHash, NotReady, CallFails, GiveUp, GetBlock, GetBlockByNumber, FetchPanics,
         Deposit, Mark, PassOver, Unparsed, Handled, NextExtrinsic, Restart, vars
<1>1. CASE latest
  BY <1>0, <1>1 DEF OwedNow, RoutedNow
<1>2. CASE ~latest /\ (Mine \/ Reorg \/ Finalize)
  <2>1. UNCHANGED routed
    BY <1>2 DEF Mine, Reorg, Finalize, history
  <2> QED
    BY <1>0, <1>2, <2>1, FinalityMakesSettled
       DEF IInv, OwedNow, RoutedNow, Feed!Next, Feed!Settle
<1>3. CASE ~latest /\ Deposit
  BY <1>0, <1>3, DepositRoutes DEF OwedNow, RoutedNow, Feed!Next, Feed!Route
<1>4. CASE UNCHANGED <<chain, final, routed>>
  BY <1>0, <1>4, SettledSame DEF OwedNow, RoutedNow
<1>5. Start \/ Mark \/ PassOver \/ Unparsed \/ Handled \/ Restart \/ UNCHANGED vars
        => UNCHANGED <<chain, final, routed>>
  BY DEF Start, Mark, PassOver, Unparsed, Handled, Restart, NextExtrinsic, vars, node, history
<1>6. Calls => UNCHANGED <<chain, final, routed>>
  BY CallsFrame DEF IInv
<1> QED
  BY <1>1, <1>2, <1>3, <1>4, <1>5, <1>6 DEF Next, Listening, Calls

(***************************************************************************)
(* The listener implements DepositFeed: without latestBlock no restart and *)
(* no failure makes it skip a deposit.  About pollBlocks and processBlock. *)
(***************************************************************************)
THEOREM Refinement == Spec => ImplementsFeed
<1>1. IInv /\ [Next]_vars => [Feed!Next]_<<OwedNow, RoutedNow>>
  BY FeedStep
<1> QED
  BY <1>1, FeedInit, Invariance, PTL DEF Spec, ImplementsFeed, Feed!Spec, OwedNow, RoutedNow

(***************************************************************************)
(* What the feed means for the router, at every moment and for any         *)
(* failures and restarts: what was routed is final, and before it nothing  *)
(* that is owed was left out.                                              *)
(***************************************************************************)
NoneLeftOut ==
    \A d \in RoutedNow :
        d \in OwedNow /\ \A e \in OwedNow : Feed!Before(e, d) => e \in RoutedNow

OwedPlaces == \A d \in OwedNow : d.block \in Nat /\ d.index \in Nat

LEMMA OwedTypes ==
    ASSUME IInv
    PROVE  OwedPlaces
<1> SUFFICES ASSUME NEW d \in Settled PROVE d.block \in Nat /\ d.index \in Nat
  BY DEF OwedPlaces, OwedNow
<1>1. PICK p \in Finalized("deposit", StartBlock) : d.block = p.block /\ d.index = p.index
  BY SettledElement
<1>2. p.block \in 1..final /\ p.index \in DOMAIN chain[p.block]
  BY FinalizedElement
<1> QED
  BY <1>1, <1>2, PlaceTypes DEF IInv

LEMMA FeedMoves ==
    ASSUME [Feed!Next]_<<OwedNow, RoutedNow>>
    PROVE  \/ /\ OwedNow \subseteq OwedNow' /\ RoutedNow' = RoutedNow
              /\ \A d \in OwedNow, e \in OwedNow' \ OwedNow : Feed!Before(d, e)
           \/ /\ OwedNow' = OwedNow
              /\ \E d \in OwedNow : /\ \A e \in OwedNow : Feed!Before(e, d) => e \in RoutedNow
                                   /\ RoutedNow' = RoutedNow \cup {d}
           \/ OwedNow' = OwedNow /\ RoutedNow' = RoutedNow
  BY DEF Feed!Next, Feed!Settle, Feed!Route, OwedNow, RoutedNow

LEMMA NoneLeftOutStep ==
    ASSUME NoneLeftOut, OwedPlaces, OwedPlaces', [Feed!Next]_<<OwedNow, RoutedNow>>
    PROVE  NoneLeftOut'
<1>1. CASE /\ OwedNow \subseteq OwedNow' /\ RoutedNow' = RoutedNow
           /\ \A d \in OwedNow, e \in OwedNow' \ OwedNow : Feed!Before(d, e)
  <2> SUFFICES ASSUME NEW d \in RoutedNow
               PROVE  /\ d \in OwedNow'
                      /\ \A e \in OwedNow' : Feed!Before(e, d) => e \in RoutedNow
    BY <1>1 DEF NoneLeftOut, Feed!Before
  <2>1. d \in OwedNow /\ \A e \in OwedNow : Feed!Before(e, d) => e \in RoutedNow
    BY DEF NoneLeftOut
  <2>2. ASSUME NEW e \in OwedNow' \ OwedNow PROVE ~Feed!Before(e, d)
    <3>1. Feed!Before(d, e)
      BY <1>1, <2>1
    <3>2. d.block \in Nat /\ d.index \in Nat /\ e.block \in Nat /\ e.index \in Nat
      BY <2>1, <2>2 DEF OwedPlaces
    <3> QED
      BY <3>1, <3>2 DEF Feed!Before
  <2> QED
    BY <1>1, <2>1, <2>2
<1>2. ASSUME OwedNow' = OwedNow, NEW d \in OwedNow, RoutedNow' = RoutedNow \cup {d},
             \A e \in OwedNow : Feed!Before(e, d) => e \in RoutedNow
      PROVE  NoneLeftOut'
  BY <1>2 DEF NoneLeftOut, Feed!Before
<1>3. CASE OwedNow' = OwedNow /\ RoutedNow' = RoutedNow
  BY <1>3 DEF NoneLeftOut, Feed!Before
<1> QED
  BY <1>1, <1>2, <1>3, FeedMoves

(***************************************************************************)
(* The deposits owed to the other chain reach the router in order and      *)
(* without a gap.  About pollBlocks of chains/substrate.                   *)
(***************************************************************************)
THEOREM FeedWithoutGap == Spec => []NoneLeftOut
<1>1. Spec => []OwedPlaces
  <2>1. IInv => OwedPlaces
    BY OwedTypes
  <2> QED
    BY <2>1, Invariance, PTL
<1>2. Init => NoneLeftOut
  BY DEF Init, NoneLeftOut, RoutedNow
<1>3. IInv /\ [Next]_vars /\ OwedPlaces /\ OwedPlaces' /\ NoneLeftOut => NoneLeftOut'
  BY FeedStep, NoneLeftOutStep
<1> QED
  BY <1>1, <1>2, <1>3, Invariance, PTL DEF Spec
=============================================================================
