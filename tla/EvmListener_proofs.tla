------------------------- MODULE EvmListener_proofs -------------------------
(* Proofs about EvmListener, for any blocks, limits, failures and depth. *)
EXTENDS EvmListener, TLAPS, SequenceTheorems

LEMMA Limits ==
    /\ Confirmations \in Nat /\ StartBlock \in Nat /\ StartBlock > 0
    /\ RetryLimit \in Nat /\ RetryLimit > 0
    /\ MaxErrors \in Nat /\ MaxReorgs \in Nat /\ MaxCrashes \in Nat
  BY ListenerAssumption DEF ListenerAssumption

(* What is owed in this life. *)
Settled == SettledFrom(first)

(* What is owed, as a fact about one message. *)
LEMMA SettledElement ==
    ASSUME NEW a, NEW m \in SettledFrom(a)
    PROVE  /\ m.block \in DOMAIN chain /\ m.block >= a /\ Final(m.block)
           /\ m.index \in Seen(m.block)
           /\ m.payload = chain[m.block][m.index] /\ KindOf[m.payload] = "routable"
           /\ m = Message(m.block, m.index, m.payload)
  BY DEF SettledFrom, Owed, Message

LEMMA SettledIntro ==
    ASSUME NEW a, NEW b \in DOMAIN chain, b >= a, Final(b), NEW i \in Seen(b),
           KindOf[chain[b][i]] = "routable"
    PROVE  Message(b, i, chain[b][i]) \in SettledFrom(a)
  BY DEF SettledFrom, Owed

LEMMA SettledTypes ==
    ASSUME TypeOK, NEW a, NEW m \in SettledFrom(a)
    PROVE  m.block \in Nat /\ m.block > 0 /\ m.index \in 1..Len(chain[m.block])
  BY SettledElement DEF TypeOK, Seen

LEMMA InSettled ==
    ASSUME TypeOK, NEW m \in Settled
    PROVE  /\ m.block \in DOMAIN chain /\ m.block >= first /\ Final(m.block)
           /\ m.index \in Seen(m.block)
           /\ m.payload = chain[m.block][m.index] /\ KindOf[m.payload] = "routable"
           /\ m = Message(m.block, m.index, m.payload)
           /\ m.block \in Nat /\ m.block > 0 /\ m.index \in 1..Len(chain[m.block])
<1>1. PICK a : a = first
  OBVIOUS
<1>2. m \in SettledFrom(a)
  BY <1>1 DEF Settled, SettledFrom
<1> QED
  BY <1>1, <1>2, SettledElement, SettledTypes

LEMMA SameChain ==
    ASSUME UNCHANGED chain
    PROVE  /\ \A a : SettledFrom(a)' = SettledFrom(a)
           /\ first' = first => Settled' = Settled
           /\ \A b : Final(b)' <=> Final(b)
<1>1. \A a : SettledFrom(a)' = SettledFrom(a)
  BY DEF SettledFrom, Owed, Seen, Final, Message
<1>2. first' = first => Settled' = Settled
  BY DEF Settled, SettledFrom, Owed, Seen, Final, Message
<1> QED
  BY <1>1, <1>2 DEF Final

(***************************************************************************)
(* The chain.                                                              *)
(***************************************************************************)
LEMMA ChainKeeps ==
    ASSUME TypeOK, Mine \/ Reorg
    PROVE  /\ chain' \in Seq(Blocks) /\ Len(chain) <= Len(chain')
           /\ \A b : Final(b) => b \in DOMAIN chain /\ b \in DOMAIN chain'
                                 /\ chain'[b] = chain[b]
<1>1. CASE Mine
  <2>1. PICK content \in Blocks : chain' = Append(chain, content)
    BY <1>1 DEF Mine
  <2>2. /\ chain' \in Seq(Blocks) /\ Len(chain') = Len(chain) + 1
        /\ \A i \in 1..Len(chain) : chain'[i] = chain[i]
    BY <2>1, AppendProperties DEF TypeOK
  <2> QED
    BY <2>1, <2>2, Limits DEF TypeOK, Final
<1>2. CASE Reorg
  <2>1. PICK n \in 1..Confirmations :
          /\ n <= Len(chain)
          /\ \E branch \in [1..n -> Blocks] :
                chain' = SubSeq(chain, 1, Len(chain) - n) \o branch
    BY <1>2 DEF Reorg
  <2>2. PICK branch \in [1..n -> Blocks] :
          chain' = SubSeq(chain, 1, Len(chain) - n) \o branch
    BY <2>1
  <2> DEFINE kept == SubSeq(chain, 1, Len(chain) - n)
  <2>3. n \in Nat /\ Len(chain) \in Nat /\ Len(chain) - n \in Nat
    BY <2>1, Limits DEF TypeOK
  <2>4. branch \in Seq(Blocks) /\ Len(branch) = n
    BY <2>2, <2>3, SeqDef
  <2>5. \A i \in 1..(Len(chain) - n) : chain[i] \in Blocks
    BY <2>3 DEF TypeOK
  <2>6. /\ kept \in Seq(Blocks) /\ Len(kept) = Len(chain) - n
        /\ \A i \in 1..(Len(chain) - n) : kept[i] = chain[i]
    BY <2>3, <2>5, SubSeqProperties
  <2>7. chain' = kept \o branch
    BY <2>2
  <2> HIDE DEF kept
  <2>8. /\ chain' \in Seq(Blocks) /\ Len(chain') = Len(kept) + n
        /\ \A i \in 1..Len(kept) : chain'[i] = kept[i]
    <3>1. \A i \in 1..Len(kept) : i \in 1..(Len(kept) + Len(branch)) /\ i <= Len(kept)
      BY <2>3, <2>4, <2>6
    <3>2. /\ chain' \in Seq(Blocks) /\ Len(chain') = Len(kept) + Len(branch)
          /\ \A i \in 1..(Len(kept) + Len(branch)) :
                chain'[i] = IF i <= Len(kept) THEN kept[i] ELSE branch[i - Len(kept)]
      <4>1. kept \in Seq(Blocks) /\ branch \in Seq(Blocks)
        BY <2>4, <2>6
      <4> QED
        BY <2>7, <4>1, ConcatProperties
    <3> QED
      BY <2>4, <3>1, <3>2
  <2>9. \A b : Final(b) => b \in 1..(Len(chain) - n)
    BY <2>1, <2>3, Limits DEF Final
  <2>10. Len(chain') = Len(chain) /\ DOMAIN chain' = 1..Len(chain) /\ DOMAIN chain = 1..Len(chain)
    BY <2>3, <2>6, <2>8 DEF TypeOK
  <2>11. \A b \in 1..(Len(chain) - n) : chain'[b] = chain[b] /\ b \in 1..Len(chain)
    BY <2>1, <2>3, <2>6, <2>8
  <2> QED
    BY <2>3, <2>8, <2>9, <2>10, <2>11
<1> QED
  BY <1>1, <1>2

LEMMA FinalStays ==
    ASSUME TypeOK, Mine \/ Reorg, NEW b, Final(b)
    PROVE  Final(b)' /\ chain'[b] = chain[b]
<1>1. Len(chain) <= Len(chain') /\ Len(chain) \in Nat /\ Len(chain') \in Nat
  BY ChainKeeps DEF TypeOK
<1> QED
  BY <1>1, ChainKeeps, Limits DEF Final

(* What is owed stays so; what is owed from now on was not final before. *)
LEMMA SettledGrows ==
    ASSUME TypeOK, Mine \/ Reorg
    PROVE  \A a : /\ SettledFrom(a) \subseteq SettledFrom(a)'
                  /\ \A m \in SettledFrom(a)' : Final(m.block) => m \in SettledFrom(a)
<1> TAKE a
<1>1. \A b : Final(b) => Seen(b)' = Seen(b) /\ Owed(b)' = Owed(b)
  BY FinalStays DEF Seen, Owed, Message
<1>2. ASSUME NEW b \in DOMAIN chain, b >= a, Final(b), NEW m \in Owed(b)
      PROVE  m \in SettledFrom(a)'
  <2>1. b \in DOMAIN chain' /\ Final(b)' /\ m \in Owed(b)'
    BY <1>1, <1>2, ChainKeeps, FinalStays
  <2> QED
    BY <1>2, <2>1 DEF SettledFrom
<1>3. ASSUME NEW m \in SettledFrom(a)', Final(m.block) PROVE m \in SettledFrom(a)
  <2>1. PICK b \in DOMAIN chain' : b >= a /\ Final(b)' /\ m \in Owed(b)'
    BY <1>3 DEF SettledFrom
  <2>2. m.block = b
    BY <2>1 DEF Owed, Message
  <2>3. b \in DOMAIN chain /\ Final(b) /\ m \in Owed(b)
    BY <1>1, <1>3, <2>1, <2>2, ChainKeeps
  <2> QED
    BY <2>1, <2>3 DEF SettledFrom
<1> QED
  BY <1>2, <1>3 DEF SettledFrom

LEMMA InitInv == Init => IInv
<1> SUFFICES ASSUME Init PROVE IInv
  OBVIOUS
<1>0. << >> \in Seq(Blocks) /\ << >> \in Seq(Payloads)
  BY EmptySeq
<1>1. TypeOK
  <2>1. chain \in Seq(Blocks) /\ logs \in Seq(Payloads)
    BY <1>0 DEF Init
  <2>2. /\ current \in Nat /\ first \in Nat /\ retry \in 0..RetryLimit
        /\ index \in Nat \ {0} /\ row \in Nat
    BY Limits DEF Init
  <2>3. errors \in 0..MaxErrors /\ reorgs \in 0..MaxReorgs /\ crashes \in 0..MaxCrashes
    BY Limits DEF Init
  <2> QED
    BY <2>1, <2>2, <2>3 DEF Init, TypeOK
<1>2. \A b : ~Final(b)
  BY Limits DEF Init, Final
<1>3. Settled = {}
  BY <1>1, <1>2, InSettled
<1> QED
  BY <1>1, <1>3, ListenerAssumption
     DEF Init, IInv, RoutedStaysOnChain, LooksAtFinal, StartsWhereItShould, LogsOfBlock,
         BehindIsRouted, Settled, FreshIsBehind, RepeatsAfterFailure, RetriesCounted

LEMMA ChainInv ==
    ASSUME IInv, Mine \/ Reorg
    PROVE  IInv'
<1>0. TypeOK
  BY DEF IInv
<1>1. /\ UNCHANGED <<latest, pc, first, current, retry, logs, index, up>>
      /\ UNCHANGED <<routed, fresh, again, row>>
      /\ errors' = errors
  BY DEF Mine, Reorg, tasks, history, counters
<1>2. TypeOK'
  <2>1. chain' \in Seq(Blocks)
    BY <1>0, ChainKeeps
  <2>2. crashes' = crashes /\ reorgs' \in 0..MaxReorgs
    BY <1>0, Limits DEF TypeOK, Mine, Reorg, counters
  <2> QED
    BY <1>0, <1>1, <2>1, <2>2 DEF TypeOK
<1>3. RoutedStaysOnChain'
  BY <1>0, <1>1, FinalStays DEF IInv, RoutedStaysOnChain
<1>4. LooksAtFinal' /\ StartsWhereItShould'
  BY <1>0, <1>1, FinalStays DEF IInv, LooksAtFinal, StartsWhereItShould
<1>5. LogsOfBlock'
  BY <1>0, <1>1, FinalStays DEF IInv, LooksAtFinal, LogsOfBlock, Kind
<1>6. BehindIsRouted'
  <2>0. PICK a : a = first
    OBVIOUS
  <2>1. Settled = SettledFrom(a) /\ Settled' = SettledFrom(a)'
    BY <1>1, <2>0 DEF Settled, SettledFrom
  <2>2. ASSUME NEW m \in Settled', Behind(m.block, m.index)' PROVE Final(m.block)
    <3>1. m.block \in DOMAIN chain' /\ m.block >= first
      BY <2>0, <2>1 DEF SettledFrom, Owed, Message
    <3>2. m.block \in Nat /\ current \in Nat /\ first \in Nat /\ m.block > 0
      BY <1>0, <3>1, ChainKeeps DEF TypeOK
    <3>3. Behind(m.block, m.index)
      BY <1>1, <2>2 DEF Behind
    <3>4. CASE m.block = current /\ pc \in {"handler", "record"}
      BY <3>4 DEF IInv, LooksAtFinal
    <3>5. CASE m.block < current
      <4>1. Final(current - 1)
        BY <3>1, <3>2, <3>5 DEF IInv, LooksAtFinal
      <4> QED
        BY <1>0, <3>2, <3>5, <4>1, Limits DEF Final, TypeOK
    <3> QED
      BY <3>3, <3>4, <3>5 DEF Behind
  <2>3. ASSUME NEW m \in Settled', Behind(m.block, m.index)' PROVE m \in fresh'
    <3>1. m \in Settled
      BY <1>0, <2>1, <2>2, <2>3, SettledGrows
    <3> QED
      BY <1>1, <2>3, <3>1 DEF IInv, BehindIsRouted, Behind, Settled
  <2> QED
    BY <2>3 DEF BehindIsRouted, Settled
<1>7. FreshIsBehind' /\ RepeatsAfterFailure' /\ RetriesCounted' /\ (fresh \subseteq routed)'
  BY <1>1 DEF IInv, FreshIsBehind, RepeatsAfterFailure, RetriesCounted, Behind
<1> QED
  BY <1>2, <1>3, <1>4, <1>5, <1>6, <1>7 DEF IInv

(***************************************************************************)
(* The listener's steps.  They leave the chain and what is owed alone.     *)
(***************************************************************************)
LEMMA SameUnderChain ==
    ASSUME IInv, UNCHANGED <<chain, routed>>
    PROVE  RoutedStaysOnChain'
  BY SameChain DEF IInv, RoutedStaysOnChain

(* A call is made, and nothing but the place changes. *)
LEMMA PlaceInv ==
    ASSUME IInv, UNCHANGED <<chain, latest, tasks, history, reorgs, crashes>>,
           errors' \in 0..MaxErrors, errors <= errors', up' \in BOOLEAN,
           \/ pc' = pc
           \/ pc = "poll" /\ pc' = "filter" /\ retry > 0 /\ Final(current)
           \/ pc = "handler" /\ pc' = "record" /\ index <= Len(logs)
                 /\ Kind \in {"routable", "unroutable"}
    PROVE  IInv'
<1> USE DEF IInv
<1>1. /\ TypeOK /\ UNCHANGED <<chain, latest, first, current, retry, logs, index>>
      /\ UNCHANGED <<routed, fresh, again, row, reorgs, crashes>>
      /\ (errors' = 0 => errors = 0) /\ (errors > 0 => errors' > 0)
  BY DEF tasks, history, TypeOK
<1>2. Settled' = Settled /\ \A b : Final(b)' <=> Final(b)
  BY <1>1, SameChain
<1>3. pc' \in {"start", "poll", "filter", "handler", "record"}
  BY <1>1 DEF TypeOK
<1>4. TypeOK'
  BY <1>1, <1>3 DEF TypeOK
<1>5. \A b, i : Behind(b, i)' <=> Behind(b, i)
  BY <1>1 DEF Behind
<1>6. LooksAtFinal' /\ StartsWhereItShould' /\ LogsOfBlock'
  BY <1>1, <1>2 DEF LooksAtFinal, StartsWhereItShould, LogsOfBlock, Kind
<1>7. /\ BehindIsRouted' /\ FreshIsBehind' /\ RepeatsAfterFailure' /\ RetriesCounted'
      /\ (fresh \subseteq routed)'
  BY <1>1, <1>2, <1>5
     DEF BehindIsRouted, Settled, FreshIsBehind, RepeatsAfterFailure, RetriesCounted
<1> QED
  BY <1>1, <1>4, <1>6, <1>7, SameUnderChain

LEMMA CallsInv ==
    ASSUME IInv, Poll \/ GiveUp \/ Handler \/ HandlerUnset \/ StartFails
    PROVE  IInv'
<1>0. errors \in 0..MaxErrors /\ errors \in Nat /\ errors <= errors
  BY DEF IInv, TypeOK
<1>1. CASE Poll
  <2>1. Len(chain) \in Nat /\ current \in Nat /\ current > 0
    BY <1>1 DEF IInv, TypeOK, StartsWhereItShould, Poll
  <2>2. Final(current)
    BY <1>1, <2>1, Limits DEF Poll, DeepEnough, Final
  <2> QED
    BY <1>1, <2>2, PlaceInv DEF Poll, Works, IInv, TypeOK
<1>2. CASE GiveUp
  <2>1. UNCHANGED <<chain, latest, tasks, history, reorgs, crashes, errors, pc>> /\ up' \in BOOLEAN
    BY <1>2 DEF GiveUp, counters
  <2> QED
    BY <1>0, <2>1, PlaceInv
<1>3. CASE Handler
  BY <1>3, PlaceInv DEF Handler, Works, IInv, TypeOK
<1>4. CASE HandlerUnset
  <2>1. UNCHANGED <<chain, latest, tasks, history, reorgs, crashes, errors, pc>> /\ up' \in BOOLEAN
    BY <1>4 DEF HandlerUnset, Works
  <2> QED
    BY <1>0, <2>1, PlaceInv
<1>5. CASE StartFails
  <2>1. /\ UNCHANGED <<chain, latest, tasks, history, reorgs, crashes, pc>> /\ up' \in BOOLEAN
        /\ errors' = errors + 1 /\ errors < MaxErrors
    BY <1>5 DEF StartFails, Fails
  <2>2. errors' \in 0..MaxErrors /\ errors <= errors'
    BY <1>0, <2>1, Limits
  <2> QED
    BY <2>1, <2>2, PlaceInv
<1> QED
  BY <1>1, <1>2, <1>3, <1>4, <1>5

LEMMA CallFailsInv ==
    ASSUME IInv, CallFails
    PROVE  IInv'
<1> USE DEF IInv
<1>1. /\ TypeOK /\ pc # "start"
      /\ UNCHANGED <<chain, latest, first, current, logs, index, up, routed, fresh, again>>
      /\ UNCHANGED <<reorgs, crashes>>
  BY DEF CallFails
<1>2. Settled' = Settled /\ \A b : Final(b)' <=> Final(b)
  BY <1>1, SameChain
<1>3. /\ pc' = "poll" /\ retry' = retry - 1 /\ row' = row + 1
      /\ errors' \in 1..MaxErrors
  BY <1>1, Limits DEF CallFails, Fails, TypeOK
<1>4. retry > 0
  BY <1>1, Limits DEF CallFails, TypeOK, RetriesCounted
<1>5. TypeOK'
  BY <1>1, <1>3, <1>4, Limits DEF TypeOK
<1>6. LooksAtFinal' /\ StartsWhereItShould' /\ LogsOfBlock'
  BY <1>1, <1>2, <1>3 DEF LooksAtFinal, StartsWhereItShould, LogsOfBlock
<1>7. BehindIsRouted'
  BY <1>1, <1>2, <1>3 DEF BehindIsRouted, Settled, Behind
<1>8. FreshIsBehind' /\ RepeatsAfterFailure'
  BY <1>3 DEF FreshIsBehind, RepeatsAfterFailure
<1>9. RetriesCounted'
  BY <1>1, <1>3, Limits DEF RetriesCounted, TypeOK
<1> QED
  BY <1>1, <1>5, <1>6, <1>7, <1>8, <1>9, SameUnderChain

LEMMA FilterLogsInv ==
    ASSUME IInv, FilterLogs
    PROVE  IInv'
<1> USE DEF IInv
<1>1. /\ TypeOK /\ pc = "filter" /\ pc' = "handler"
      /\ logs' = chain[current] /\ index' = 1
      /\ UNCHANGED <<chain, latest, first, current, retry, up, routed, fresh, again, row>>
      /\ UNCHANGED <<errors, reorgs, crashes>>
  BY DEF FilterLogs, Works, history
<1>2. Settled' = Settled /\ \A b : Final(b)' <=> Final(b)
  BY <1>1, SameChain
<1>3. Final(current) /\ current \in DOMAIN chain
  BY <1>1, Limits DEF LooksAtFinal, Final, TypeOK
<1>4. chain[current] \in Seq(Payloads)
  BY <1>1, <1>3, ListenerAssumption DEF TypeOK, ListenerAssumption
<1>5. TypeOK'
  BY <1>1, <1>4 DEF TypeOK
<1>6. LooksAtFinal' /\ StartsWhereItShould'
  BY <1>1, <1>2 DEF LooksAtFinal, StartsWhereItShould
<1>7. LogsOfBlock'
  BY <1>1, <1>4 DEF LogsOfBlock
<1>8. BehindIsRouted'
  <2>1. ASSUME NEW m \in Settled, Behind(m.block, m.index)' PROVE Behind(m.block, m.index)
    BY <1>1, <2>1, InSettled DEF Behind
  <2> QED
    BY <1>1, <1>2, <2>1 DEF BehindIsRouted, Settled
<1>9. FreshIsBehind'
  BY <1>1 DEF FreshIsBehind, Behind
<1>10. RepeatsAfterFailure' /\ RetriesCounted'
  BY <1>1 DEF RepeatsAfterFailure, RetriesCounted
<1> QED
  BY <1>1, <1>5, <1>6, <1>7, <1>8, <1>9, <1>10, SameUnderChain

(* After the last log, or at an unrecognised handler, nothing more is owed. *)
LEMMA NextBlockInv ==
    ASSUME IInv, pc = "handler", NextBlock,
           index > Len(logs) \/ Kind = "unknown",
           UNCHANGED <<chain, latest, first, logs, index, up, routed, fresh, again>>,
           UNCHANGED <<errors, reorgs, crashes>>
    PROVE  IInv'
<1> USE DEF IInv
<1>1. /\ TypeOK /\ Final(current) /\ logs = chain[current]
      /\ pc' = "poll" /\ current' = current + 1 /\ retry' = RetryLimit /\ row' = 0
  BY DEF NextBlock, LooksAtFinal, LogsOfBlock
<1>2. Settled' = Settled /\ \A b : Final(b)' <=> Final(b)
  BY SameChain
<1>3. current \in Nat /\ first \in Nat /\ index \in Nat /\ index > 0
  BY <1>1 DEF TypeOK
<1>4. TypeOK'
  BY <1>1, <1>3, Limits DEF TypeOK
<1>5. LooksAtFinal' /\ StartsWhereItShould' /\ LogsOfBlock' /\ RetriesCounted'
  BY <1>1, <1>2, <1>3, Limits
     DEF LooksAtFinal, StartsWhereItShould, LogsOfBlock, RetriesCounted
<1>6. ASSUME NEW m \in Settled, m.block = current PROVE m.index < index
  <2>1. /\ m.index \in Seen(current)
        /\ m.index \in 1..Len(logs) /\ Len(logs) \in Nat
    BY <1>1, <1>6, InSettled DEF TypeOK
  <2>2. \A j \in 1..m.index : KindOf[logs[j]] # "unknown"
    BY <1>1, <2>1 DEF Seen
  <2>3. CASE index > Len(logs)
    BY <1>3, <2>1, <2>3
  <2>4. CASE KindOf[logs[index]] = "unknown"
    BY <1>3, <2>1, <2>2, <2>4
  <2> QED
    BY <2>3, <2>4 DEF Kind
<1>7. BehindIsRouted'
  <2>1. ASSUME NEW m \in Settled, Behind(m.block, m.index)' PROVE Behind(m.block, m.index)
    <3>1. m.block \in Nat /\ (m.block < current \/ m.block = current)
      BY <1>1, <1>3, <2>1, InSettled DEF Behind
    <3> QED
      BY <1>6, <3>1 DEF Behind
  <2> QED
    BY <1>2, <2>1 DEF BehindIsRouted, Settled
<1>8. FreshIsBehind'
  <2>1. ASSUME NEW m \in fresh, Behind(m.block, m.index) PROVE Behind(m.block, m.index)'
    <3>1. m.block \in Nat /\ m.block <= current
      BY <1>1, <1>3, <2>1 DEF Behind, TypeOK, Messages
    <3> QED
      BY <1>1, <1>3, <3>1 DEF Behind
  <2> QED
    BY <2>1 DEF FreshIsBehind
<1>9. RepeatsAfterFailure'
  BY DEF RepeatsAfterFailure
<1> QED
  BY <1>4, <1>5, <1>7, <1>8, <1>9, SameUnderChain

LEMMA RecordInv ==
    ASSUME IInv, Record
    PROVE  IInv'
<1> USE DEF IInv
<1> DEFINE m == Message(current, index, chain[current][index])
<1>1. /\ TypeOK /\ pc = "record" /\ pc' = "handler" /\ index' = index + 1
      /\ UNCHANGED <<chain, latest, first, current, retry, logs, up, row>>
      /\ UNCHANGED <<errors, reorgs, crashes>>
  BY DEF Record, Works
<1>2. Settled' = Settled /\ \A b : Final(b)' <=> Final(b)
  BY <1>1, SameChain
<1>3. /\ current \in Nat /\ index \in Nat /\ index > 0 /\ Len(logs) \in Nat
      /\ Final(current) /\ logs = chain[current] /\ index <= Len(logs)
      /\ Kind \in {"routable", "unroutable"}
  BY <1>1 DEF TypeOK, LooksAtFinal, LogsOfBlock
<1>4. /\ Kind = "routable" => /\ routed' = routed \cup {m} /\ fresh' = fresh \cup {m}
                              /\ again' = (again \/ m \in fresh)
      /\ Kind # "routable" => UNCHANGED <<routed, fresh, again>>
  BY DEF Record
<1>5. m \in Messages /\ m.block = current /\ m.index = index
      /\ m.payload = chain[current][index]
  <2>1. logs[index] \in Payloads
    BY <1>1, <1>3 DEF TypeOK
  <2> QED
    BY <1>3, <2>1 DEF Message, Messages
<1>6. index \in DOMAIN chain[current] /\ Final(current)
  BY <1>3 DEF Record
<1> HIDE DEF m
<1>7. TypeOK'
  <2>1. /\ routed' \subseteq Messages /\ fresh' \subseteq Messages /\ again' \in BOOLEAN
    BY <1>1, <1>4, <1>5 DEF TypeOK
  <2>2. index' \in Nat \ {0}
    BY <1>1, <1>3
  <2> QED
    BY <1>1, <2>1, <2>2 DEF TypeOK
<1>8. RoutedStaysOnChain'
  BY <1>1, <1>2, <1>4, <1>5, <1>6 DEF RoutedStaysOnChain
<1>9. LooksAtFinal' /\ StartsWhereItShould' /\ (fresh \subseteq routed)'
  BY <1>1, <1>2, <1>4 DEF LooksAtFinal, StartsWhereItShould
<1>10. LogsOfBlock'
  <2>1. \A i \in 1..index : KindOf[logs[i]] # "unknown"
    BY <1>1, <1>3 DEF LogsOfBlock, Kind
  <2>2. index' - 1 = index /\ index' <= Len(logs) + 1
    BY <1>1, <1>3
  <2> QED
    BY <1>1, <1>3, <2>1, <2>2 DEF LogsOfBlock
<1>11. BehindIsRouted'
  <2>1. ASSUME NEW d \in Settled, Behind(d.block, d.index)' PROVE d \in fresh'
    <3>1. d.block \in Nat /\ d.index \in Nat
      BY <1>1, <2>1, InSettled
    <3>2. CASE Behind(d.block, d.index)
      BY <1>4, <2>1, <3>2 DEF BehindIsRouted, Settled
    <3>3. CASE d.block = current /\ d.index = index
      <4>1. d = m /\ KindOf[d.payload] = "routable" /\ d.payload = logs[index]
        BY <1>3, <2>1, <3>3, InSettled DEF m
      <4> QED
        BY <1>4, <4>1 DEF Kind
    <3> QED
      BY <1>1, <1>3, <2>1, <3>1, <3>2, <3>3 DEF Behind
  <2> QED
    BY <1>2, <2>1 DEF BehindIsRouted, Settled
<1>12. \A d \in fresh : Behind(d.block, d.index) => Behind(d.block, d.index)'
  BY <1>1, <1>3 DEF Behind, TypeOK, Messages
<1>13. \A d : d.block = current /\ d.index = index =>
               Behind(d.block, d.index)' /\ ~Behind(d.block, d.index)
  BY <1>1, <1>3 DEF Behind
<1>14. FreshIsBehind'
  <2>1. ASSUME errors = 0, NEW d \in fresh' PROVE Behind(d.block, d.index)'
    <3>1. CASE d \in fresh
      BY <1>12, <2>1, <3>1 DEF FreshIsBehind
    <3>2. CASE d = m
      BY <1>5, <1>13, <3>2
    <3> QED
      BY <1>4, <2>1, <3>1, <3>2
  <2> QED
    BY <1>1, <2>1 DEF FreshIsBehind
<1>15. RepeatsAfterFailure'
  <2>1. errors \in Nat
    BY <1>1 DEF TypeOK
  <2>2. errors = 0 => m \notin fresh /\ ~again
    BY <1>5, <1>13 DEF FreshIsBehind, RepeatsAfterFailure
  <2>3. errors = 0 => ~again'
    BY <1>4, <2>2
  <2> QED
    BY <1>1, <2>1, <2>3 DEF RepeatsAfterFailure
<1>16. RetriesCounted'
  BY <1>1 DEF RetriesCounted
<1> QED
  BY <1>7, <1>8, <1>9, <1>10, <1>11, <1>14, <1>15, <1>16

(* A life begins with nothing routed, behind nothing it owes. *)
LEMMA BeginInv ==
    ASSUME IInv, Start \/ Restart
    PROVE  IInv'
<1> USE DEF IInv
<1>1. /\ TypeOK /\ UNCHANGED <<chain, latest, routed, errors, reorgs>>
      /\ first' = current' /\ pc' \in {"start", "poll"}
      /\ retry' \in {retry, RetryLimit} /\ up' \in BOOLEAN
  BY DEF IInv, Start, Restart, Works, TypeOK, history
<1>2. /\ first' \in Nat /\ crashes' \in 0..MaxCrashes
      /\ logs' \in Seq(Payloads) /\ index' \in Nat \ {0}
      /\ fresh' \subseteq routed' /\ again' \in BOOLEAN
  <2>1. << >> \in Seq(Payloads)
    BY EmptySeq
  <2>2. CASE Start
    BY <1>1, <2>2, Limits DEF Start, FirstBlock, TypeOK, history
  <2>3. CASE Restart
    <3>1. /\ first' = 0 /\ logs' = << >> /\ index' = 1 /\ fresh' = {} /\ again' = FALSE
          /\ crashes < MaxCrashes /\ crashes' = crashes + 1
      BY <2>3 DEF Restart
    <3>2. crashes' \in 0..MaxCrashes
      BY <1>1, <3>1, Limits DEF TypeOK
    <3>3. logs' \in Seq(Payloads)
      BY <2>1, <3>1
    <3>4. first' \in Nat /\ index' \in Nat \ {0}
      BY <3>1
    <3>5. fresh' \subseteq routed' /\ again' \in BOOLEAN
      BY <3>1
    <3> QED
      BY <3>2, <3>3, <3>4, <3>5
  <2> QED
    BY <2>2, <2>3
<1>3. /\ again' => again
      /\ fresh' = fresh \/ fresh' = {}
      /\ (row' = row /\ retry' = retry) \/ (row' = 0 /\ retry' = RetryLimit)
      /\ pc' # "poll" => retry' = RetryLimit
  BY DEF Start, Restart, history
<1>4. TypeOK'
  BY <1>1, <1>2, <1>3, Limits DEF TypeOK
<1>5. LooksAtFinal' /\ LogsOfBlock'
  BY <1>1, <1>2 DEF LooksAtFinal, LogsOfBlock
<1>6. StartsWhereItShould'
  BY <1>1, <1>2, Limits DEF StartsWhereItShould, Start, Restart, FirstBlock, TypeOK
<1>7. BehindIsRouted'
  <2>1. ASSUME NEW m \in Settled' PROVE ~Behind(m.block, m.index)'
    <3>1. m.block \in Nat /\ m.block >= first'
      BY <1>1, <2>1 DEF Settled, SettledFrom, Owed, Message, TypeOK
    <3> QED
      BY <1>1, <1>2, <3>1 DEF Behind
  <2> QED
    BY <2>1 DEF BehindIsRouted, Settled
<1>8. FreshIsBehind'
  <2>1. CASE Start
    <3>1. pc = "start" /\ current = 0 /\ fresh' = fresh /\ errors' = errors
      BY <2>1 DEF Start, Works, history, StartsWhereItShould
    <3>2. \A m \in fresh : ~Behind(m.block, m.index)
      BY <1>1, <3>1 DEF Behind, TypeOK, Messages
    <3> QED
      BY <3>1, <3>2 DEF FreshIsBehind
  <2>2. CASE Restart
    BY <2>2 DEF Restart, FreshIsBehind
  <2> QED
    BY <2>1, <2>2
<1>9. RepeatsAfterFailure' /\ RetriesCounted'
  BY <1>1, <1>3, Limits DEF RepeatsAfterFailure, RetriesCounted
<1> QED
  BY <1>1, <1>2, <1>4, <1>5, <1>6, <1>7, <1>8, <1>9, SameUnderChain

LEMMA StepInv == IInv /\ [Next]_vars => IInv'
<1> SUFFICES ASSUME IInv, [Next]_vars PROVE IInv'
  OBVIOUS
<1>1. CASE Handled
  BY <1>1, NextBlockInv DEF Handled, counters
<1>2. CASE HandlerUnknown
  BY <1>2, NextBlockInv DEF HandlerUnknown, Works
<1>3. CASE UNCHANGED vars
  BY <1>3, PlaceInv DEF vars, counters, IInv, TypeOK
<1> QED
  BY <1>1, <1>2, <1>3, ChainInv, CallsInv, CallFailsInv, FilterLogsInv, RecordInv,
     BeginInv DEF Next, Listening

(***************************************************************************)
(* The inductive invariant holds, however deep blocks have to be and       *)
(* whatever they contain, and whichever calls fail.                        *)
(***************************************************************************)
THEOREM Invariance == Spec => []IInv
  BY InitInv, StepInv, PTL DEF Spec

(***************************************************************************)
(* What pollBlocks routed is never taken back by the chain, as long as     *)
(* reorganisations are no deeper than blockConfirmations.                  *)
(***************************************************************************)
THEOREM RoutedForGood == Spec => []RoutedStaysOnChain
<1>1. IInv => RoutedStaysOnChain
  BY DEF IInv
<1> QED
  BY <1>1, Invariance, PTL

(***************************************************************************)
(* Without a failed call no message is routed twice in one life.           *)
(***************************************************************************)
THEOREM NoIdleRepeats == Spec => []RepeatsAfterFailure
<1>1. IInv => RepeatsAfterFailure
  BY DEF IInv
<1> QED
  BY <1>1, Invariance, PTL

(***************************************************************************)
(* The listener gives up only after BlockRetryLimit failures in a row.     *)
(***************************************************************************)
THEOREM RetriesUsedUp == Spec => []GivesUpInTime
<1>1. IInv => GivesUpInTime
  BY Limits DEF IInv, TypeOK, RetriesCounted, GivesUpInTime
<1> QED
  BY <1>1, Invariance, PTL

(***************************************************************************)
(* Every variable of the listener and of the chain it polls keeps its type.*)
(***************************************************************************)
THEOREM TypeCorrect == Spec => []TypeOK
<1>1. IInv => TypeOK
  BY DEF IInv
<1> QED
  BY <1>1, Invariance, PTL

(* The bridge knows the handler of every deposit. *)
AllRecognised == \A p \in Payloads : KindOf[p] # "unknown"

LEMMA InvNothingSkipped ==
    ASSUME AllRecognised, IInv
    PROVE  NothingSkipped
<1> SUFFICES ASSUME NEW b \in first..(current - 1), NEW i \in DOMAIN chain[b],
                    KindOf[chain[b][i]] = "routable"
             PROVE  Message(b, i, chain[b][i]) \in routed
  BY DEF NothingSkipped
<1> DEFINE m == Message(b, i, chain[b][i])
<1>1. first \in Nat /\ current \in Nat /\ b \in Int /\ first <= b /\ b < current
  BY DEF IInv, TypeOK
<1>2. 0 < first
  BY <1>1 DEF IInv, StartsWhereItShould
<1>3. Final(current - 1)
  BY <1>1 DEF IInv, LooksAtFinal
<1>4. b \in DOMAIN chain /\ b >= first /\ Final(b)
  BY <1>1, <1>2, <1>3, Limits DEF IInv, TypeOK, Final
<1>5. chain[b] \in Seq(Payloads) /\ i \in 1..Len(chain[b])
  <2>1. chain[b] \in Blocks
    BY <1>4 DEF IInv, TypeOK
  <2> QED
    BY <2>1, ListenerAssumption DEF ListenerAssumption
<1>6. \A j \in 1..i : chain[b][j] \in Payloads
  BY <1>5
<1>7. i \in Seen(b)
  BY <1>6 DEF Seen, AllRecognised
<1>8. m \in SettledFrom(first)
  BY <1>4, <1>7 DEF SettledFrom, Owed
<1>9. Behind(m.block, m.index)
  BY <1>1 DEF Behind, Message
<1> QED
  BY <1>8, <1>9 DEF IInv, BehindIsRouted

(***************************************************************************)
(* The promise of getDepositEventsForBlock (listener.go:168) holds while   *)
(* every deposit names a handler that is configured: what the listener has *)
(* gone past was routed, whatever fails and however often it restarts.     *)
(* The unrecognised handler is thus the only way past a deposit.           *)
(***************************************************************************)
THEOREM SkipsOnlyUnrecognised ==
    ASSUME AllRecognised
    PROVE  Spec => []NothingSkipped
<1>1. IInv => NothingSkipped
  BY InvNothingSkipped
<1> QED
  BY <1>1, Invariance, PTL

(***************************************************************************)
(* Refinement: only the chain settles deposits, only Record routes one.    *)
(***************************************************************************)
RoutedNow == IF latest THEN {} ELSE routed

LEMMA FeedInit == Init => Feed!Init
<1> SUFFICES ASSUME Init PROVE Feed!Init
  OBVIOUS
<1>1. \A b : ~Final(b)
  BY Limits DEF Init, Final
<1>2. SettledFrom(StartBlock) = {}
  BY <1>1, SettledElement
<1> QED
  BY <1>2 DEF Init, Feed!Init, Promised

LEMMA ChainSettles ==
    ASSUME IInv, Mine \/ Reorg
    PROVE  /\ SettledFrom(StartBlock) \subseteq SettledFrom(StartBlock)'
           /\ \A d \in SettledFrom(StartBlock),
                 e \in SettledFrom(StartBlock)' \ SettledFrom(StartBlock) : Feed!Before(d, e)
<1>1. TypeOK
  BY DEF IInv
<1>2. ASSUME NEW d \in SettledFrom(StartBlock),
             NEW e \in SettledFrom(StartBlock)', e \notin SettledFrom(StartBlock)
      PROVE  Feed!Before(d, e)
  <2>1. d.block \in Nat /\ Final(d.block)
    BY <1>1, SettledElement, SettledTypes
  <2>2. e.block \in DOMAIN chain' /\ ~Final(e.block)
    BY <1>1, <1>2, SettledGrows DEF SettledFrom, Owed, Message
  <2>3. e.block \in Nat /\ e.block > 0 /\ Len(chain) \in Nat
    BY <1>1, <2>2, ChainKeeps DEF TypeOK
  <2> QED
    BY <2>1, <2>2, <2>3, Limits DEF Final, Feed!Before
<1> QED
  BY <1>1, <1>2, SettledGrows

LEMMA RecordRoutes ==
    ASSUME IInv, Record, Kind = "routable", ~latest
    PROVE  /\ SettledFrom(StartBlock)' = SettledFrom(StartBlock)
           /\ \E d \in SettledFrom(StartBlock) :
                /\ \A e \in SettledFrom(StartBlock) : Feed!Before(e, d) => e \in routed
                /\ routed' = routed \cup {d}
<1> DEFINE m == Message(current, index, chain[current][index])
<1>1. /\ pc = "record" /\ UNCHANGED chain /\ routed' = routed \cup {m} /\ TypeOK
  BY DEF Record, IInv
<1>2. /\ first = StartBlock /\ current >= StartBlock
      /\ SettledFrom(StartBlock) = SettledFrom(first)
  BY <1>1 DEF IInv, StartsWhereItShould
<1>3. /\ current \in Nat /\ index \in Nat /\ index > 0
      /\ Len(logs) \in Nat /\ Final(current) /\ current \in DOMAIN chain
      /\ logs = chain[current] /\ index <= Len(logs)
      /\ KindOf[logs[index]] = "routable"
      /\ \A i \in 1..(index - 1) : KindOf[logs[i]] # "unknown"
  BY <1>1, Limits DEF IInv, TypeOK, LooksAtFinal, LogsOfBlock, Kind, Final
<1>4. index \in Seen(current)
  <2>1. \A j \in 1..index : KindOf[logs[j]] # "unknown"
    BY <1>3
  <2>2. index \in DOMAIN chain[current]
    BY <1>1, <1>3 DEF TypeOK
  <2> QED
    BY <1>3, <2>1, <2>2 DEF Seen
<1>5. m \in SettledFrom(StartBlock)
  BY <1>2, <1>3, <1>4, SettledIntro
<1>6. m.block = current /\ m.index = index
  BY DEF Message
<1>7. ASSUME NEW e \in SettledFrom(StartBlock), Feed!Before(e, m) PROVE e \in routed
  <2>1. Behind(e.block, e.index)
    BY <1>1, <1>6, <1>7 DEF Feed!Before, Behind
  <2> QED
    BY <1>2, <2>1 DEF IInv, BehindIsRouted
<1>8. SettledFrom(StartBlock)' = SettledFrom(StartBlock)
  BY <1>1, SameChain
<1> HIDE DEF m
<1> QED
  BY <1>1, <1>5, <1>7, <1>8

LEMMA FeedStep ==
    ASSUME IInv, [Next]_vars
    PROVE  [Feed!Next]_<<Promised, RoutedNow>>
<1>0. latest \in BOOLEAN /\ latest' = latest
  BY DEF IInv, TypeOK, Next, Listening, Mine, Reorg, Start, StartFails, Poll, GiveUp, CallFails,
         FilterLogs, Handler, HandlerUnset, Record, Handled, HandlerUnknown, Restart, vars
<1>1. CASE latest
  BY <1>0, <1>1 DEF Promised, RoutedNow
<1>2. CASE ~latest /\ (Mine \/ Reorg)
  <2>1. UNCHANGED routed
    BY <1>2 DEF Mine, Reorg, history
  <2> QED
    BY <1>0, <1>2, <2>1, ChainSettles DEF Promised, RoutedNow, Feed!Next, Feed!Settle
<1>3. CASE ~latest /\ Record /\ Kind = "routable"
  BY <1>0, <1>3, RecordRoutes DEF Promised, RoutedNow, Feed!Next, Feed!Route
<1>4. CASE UNCHANGED <<chain, routed>>
  BY <1>0, <1>4, SameChain DEF Promised, RoutedNow
<1>5. Record /\ Kind # "routable" => UNCHANGED <<chain, routed>>
  BY DEF Record
<1>6. Start \/ StartFails \/ Poll \/ GiveUp \/ CallFails \/ FilterLogs \/ Handler \/ HandlerUnset
        => UNCHANGED <<chain, routed>>
  BY DEF Start, StartFails, Poll, GiveUp, CallFails, FilterLogs, Handler, HandlerUnset, history
<1>7. Handled \/ HandlerUnknown \/ Restart \/ UNCHANGED vars
        => UNCHANGED <<chain, routed>>
  BY DEF Handled, HandlerUnknown, Restart, vars, history
<1> QED
  BY <1>0, <1>1, <1>2, <1>3, <1>4, <1>5, <1>6, <1>7 DEF Next, Listening

(***************************************************************************)
(* The listener implements DepositFeed, unless it starts at the latest     *)
(* block.  About pollBlocks, which goes on to the next block only when it  *)
(* is through with one.                                                    *)
(***************************************************************************)
THEOREM Refinement == Spec => ImplementsFeed
<1>1. IInv /\ [Next]_vars => [Feed!Next]_<<Promised, RoutedNow>>
  BY FeedStep
<1> QED
  BY <1>1, FeedInit, Invariance, PTL DEF Spec, ImplementsFeed, Feed!Spec, RoutedNow

(***************************************************************************)
(* What the feed means for the router, at every moment and for any         *)
(* failures and restarts: what was routed is final, and before it nothing  *)
(* that is owed was left out.                                              *)
(***************************************************************************)
NoneLeftOut ==
    \A d \in RoutedNow :
        d \in Promised /\ \A e \in Promised : Feed!Before(e, d) => e \in RoutedNow

OwedPlaces == \A d \in Promised : d.block \in Nat /\ d.index \in Nat

LEMMA OwedTypes ==
    ASSUME IInv
    PROVE  OwedPlaces
<1> SUFFICES ASSUME NEW d \in SettledFrom(StartBlock) PROVE d.block \in Nat /\ d.index \in Nat
  BY DEF OwedPlaces, Promised
<1>1. d.block \in Nat /\ d.block > 0 /\ d.index \in 1..Len(chain[d.block])
  BY SettledTypes DEF IInv
<1> QED
  BY <1>1

LEMMA FeedMoves ==
    ASSUME [Feed!Next]_<<Promised, RoutedNow>>
    PROVE  \/ /\ Promised \subseteq Promised' /\ RoutedNow' = RoutedNow
              /\ \A d \in Promised, e \in Promised' \ Promised : Feed!Before(d, e)
           \/ /\ Promised' = Promised
              /\ \E d \in Promised : /\ \A e \in Promised : Feed!Before(e, d) => e \in RoutedNow
                                   /\ RoutedNow' = RoutedNow \cup {d}
           \/ Promised' = Promised /\ RoutedNow' = RoutedNow
  BY DEF Feed!Next, Feed!Settle, Feed!Route, RoutedNow

LEMMA NoneLeftOutStep ==
    ASSUME NoneLeftOut, OwedPlaces, OwedPlaces', [Feed!Next]_<<Promised, RoutedNow>>
    PROVE  NoneLeftOut'
<1>1. CASE /\ Promised \subseteq Promised' /\ RoutedNow' = RoutedNow
           /\ \A d \in Promised, e \in Promised' \ Promised : Feed!Before(d, e)
  <2> SUFFICES ASSUME NEW d \in RoutedNow
               PROVE  /\ d \in Promised'
                      /\ \A e \in Promised' : Feed!Before(e, d) => e \in RoutedNow
    BY <1>1 DEF NoneLeftOut, Feed!Before
  <2>1. d \in Promised /\ \A e \in Promised : Feed!Before(e, d) => e \in RoutedNow
    BY DEF NoneLeftOut
  <2>2. ASSUME NEW e \in Promised' \ Promised PROVE ~Feed!Before(e, d)
    <3>1. Feed!Before(d, e)
      BY <1>1, <2>1
    <3>2. d.block \in Nat /\ d.index \in Nat /\ e.block \in Nat /\ e.index \in Nat
      BY <2>1, <2>2 DEF OwedPlaces
    <3> QED
      BY <3>1, <3>2 DEF Feed!Before
  <2> QED
    BY <1>1, <2>1, <2>2
<1>2. ASSUME Promised' = Promised, NEW d \in Promised, RoutedNow' = RoutedNow \cup {d},
             \A e \in Promised : Feed!Before(e, d) => e \in RoutedNow
      PROVE  NoneLeftOut'
  BY <1>2 DEF NoneLeftOut, Feed!Before
<1>3. CASE Promised' = Promised /\ RoutedNow' = RoutedNow
  BY <1>3 DEF NoneLeftOut, Feed!Before
<1> QED
  BY <1>1, <1>2, <1>3, FeedMoves

(***************************************************************************)
(* The deposits owed to the other chain reach the router in order and      *)
(* without a gap.  About pollBlocks of chains/platdot.                     *)
(***************************************************************************)
THEOREM FeedWithoutGap == Spec => []NoneLeftOut
<1>1. Spec => []OwedPlaces
  <2>1. IInv => OwedPlaces
    BY OwedTypes
  <2> QED
    BY <2>1, Invariance, PTL
<1>2. Init => NoneLeftOut
  BY DEF Init, NoneLeftOut, RoutedNow
<1>3. IInv /\ [Next]_vars /\ OwedPlaces /\ OwedPlaces' /\ NoneLeftOut => NoneLeftOut'
  BY FeedStep, NoneLeftOutStep
<1> QED
  BY <1>1, <1>2, <1>3, Invariance, PTL DEF Spec
=============================================================================
