------------------------- MODULE SerialRedeem_proofs -------------------------
(***************************************************************************)
(* Proofs about MultiSigRedeem when no goroutine is between the check and  *)
(* the mark of checkRepeat while another one leaves the check: what the    *)
(* two are there for then holds, for any relayers, messages and bounds and *)
(* whenever a relayer restarts.                                            *)
(***************************************************************************)
EXTENDS MultiSigRedeem_proofs

(* The router starts no second goroutine for a deposit in one life. *)
Distinct == \A m, n \in Msgs : DestOf(m) = DestOf(n) => m = n

(* The conversion rounds no two amounts to one call. *)
OneCallEach == \A a, b \in Raws : Convert[a] = Convert[b] => a = b

LEMMA SerialSteps == SerialNext => [Next]_vars
  BY DEF SerialNext

(***************************************************************************)
(* What messages says of the goroutines of r.                              *)
(***************************************************************************)
Marked(r)     == \A m \in Msgs : Processing(r, m) => DestOf(m) \in messages[r]
CheckHolds(r) == \A m \in Msgs : pc[r][m] = "mark" => ~IsRepeat(r, m)
OneMark(r)    == \A m, n \in Msgs : pc[r][m] = "mark" /\ pc[r][n] = "mark" => m = n
Apart(r) ==
    \A m, n \in Msgs :
        Processing(r, m) /\ Processing(r, n) /\ RawOf[m] = RawOf[n]
            => NonceOf[m] = NonceOf[n]
Serial(r) == Marked(r) /\ CheckHolds(r) /\ OneMark(r) /\ Apart(r)

LEMMA SerialKept ==
    ASSUME NEW r \in Relayers, Serial(r), messages'[r] = messages[r],
           \A m \in Msgs : pc'[r][m] = pc[r][m]
    PROVE  Serial(r)'
  BY DEF Serial, Marked, CheckHolds, OneMark, Apart, Processing, IsRepeat, DestOf

LEMMA SerialIdle ==
    ASSUME NEW r \in Relayers, \A m \in Msgs : pc'[r][m] = "idle"
    PROVE  Serial(r)'
  BY DEF Serial, Marked, CheckHolds, OneMark, Apart, Processing

(* A goroutine moves on without touching messages. *)
LEMMA SerialMove ==
    ASSUME TypeOK, NEW r \in Relayers, Serial(r), messages' = messages, NEW m \in Msgs,
           NEW from, NEW to, Goto(r, m, from, to), to # "mark",
           to \in {"redeem", "scan", "submit", "finish"} =>
              from \in {"redeem", "scan", "submit", "finish"}
    PROVE  Serial(r)'
<1>1. /\ pc[r][m] = from /\ pc'[r][m] = to
      /\ \A n \in Msgs : n # m => pc'[r][n] = pc[r][n]
  BY MoveFacts
<1>2. \A n \in Msgs : Processing(r, n)' => Processing(r, n)
  BY <1>1 DEF Processing
<1>3. \A n \in Msgs : pc'[r][n] = "mark" => pc[r][n] = "mark"
  BY <1>1
<1> QED
  BY <1>2, <1>3 DEF Serial, Marked, CheckHolds, OneMark, Apart, IsRepeat, DestOf

LEMMA SerialCheck ==
    ASSUME TypeOK, NEW r \in Relayers, Serial(r), NEW m \in Msgs, CheckRepeat(r, m),
           SerialNext
    PROVE  Serial(r)'
<1>1. Goto(r, m, "checkRepeat", "mark") /\ ~IsRepeat(r, m) /\ messages' = messages
  BY DEF CheckRepeat
<1>2. /\ pc[r][m] = "checkRepeat" /\ pc'[r][m] = "mark"
      /\ \A n \in Msgs : n # m => pc'[r][n] = pc[r][n]
  BY <1>1, MoveFacts
<1>3. \A n \in Msgs : pc[r][n] # "mark"
  BY <1>2 DEF SerialNext
<1>4. \A n \in Msgs : Processing(r, n)' => Processing(r, n)
  BY <1>2 DEF Processing
<1>5. \A n \in Msgs : pc'[r][n] = "mark" => n = m
  BY <1>2, <1>3
<1> QED
  BY <1>1, <1>4, <1>5 DEF Serial, Marked, CheckHolds, OneMark, Apart, IsRepeat, DestOf

LEMMA SerialMarks ==
    ASSUME TypeOK, NEW r \in Relayers, Serial(r), NEW m \in Msgs, MarkProcessing(r, m)
    PROVE  Serial(r)'
<1>1. /\ Goto(r, m, "mark", "redeem")
      /\ messages'[r] = messages[r] \cup {DestOf(m)}
  BY DEF MarkProcessing, TypeOK
<1>2. /\ pc[r][m] = "mark" /\ pc'[r][m] = "redeem"
      /\ \A n \in Msgs : n # m => pc'[r][n] = pc[r][n]
  BY <1>1, MoveFacts
<1>3. \A n \in Msgs : Processing(r, n)' => n = m \/ Processing(r, n)
  BY <1>2 DEF Processing
<1>4. \A n \in Msgs : pc'[r][n] # "mark"
  BY <1>2 DEF Serial, OneMark
<1>5. ~IsRepeat(r, m)
  BY <1>2 DEF Serial, CheckHolds
<1>6. ASSUME NEW n \in Msgs, Processing(r, n), RawOf[n] = RawOf[m]
      PROVE  NonceOf[n] = NonceOf[m]
  <2>1. DestOf(n) \in messages[r]
    BY <1>6 DEF Serial, Marked
  <2> QED
    BY <1>5, <1>6, <2>1 DEF IsRepeat, DestOf
<1>7. Marked(r)'
  BY <1>1, <1>3 DEF Serial, Marked, DestOf
<1>8. Apart(r)'
  BY <1>3, <1>6 DEF Serial, Apart
<1> QED
  BY <1>4, <1>7, <1>8 DEF Serial, CheckHolds, OneMark

LEMMA SerialFinish ==
    ASSUME TypeOK, Distinct, NEW r \in Relayers, Serial(r), NEW m \in Msgs, Finish(r, m)
    PROVE  Serial(r)'
<1>1. /\ Goto(r, m, "finish", "done")
      /\ messages'[r] = messages[r] \ {DestOf(m)}
  BY DEF Finish, TypeOK
<1>2. /\ pc'[r][m] = "done" /\ \A n \in Msgs : n # m => pc'[r][n] = pc[r][n]
  BY <1>1, MoveFacts
<1>3. \A n \in Msgs : Processing(r, n)' => n # m /\ Processing(r, n)
  BY <1>2 DEF Processing
<1>4. \A n \in Msgs : pc'[r][n] = "mark" => pc[r][n] = "mark"
  BY <1>2
<1>5. \A n \in Msgs : n # m => DestOf(n) # DestOf(m)
  BY DEF Distinct
<1>6. Marked(r)'
  BY <1>1, <1>3, <1>5 DEF Serial, Marked, DestOf
<1>7. CheckHolds(r)'
  BY <1>1, <1>4 DEF Serial, CheckHolds, IsRepeat
<1> QED
  BY <1>3, <1>4, <1>6, <1>7 DEF Serial, OneMark, Apart

LEMMA SerialRedeem ==
    ASSUME TypeOK, Distinct, SerialNext, NEW r \in Relayers, Serial(r), NEW m \in Msgs,
           Redeem(r, m)
    PROVE  Serial(r)'
<1>1. CASE CheckRepeat(r, m)
  BY <1>1, SerialCheck
<1>2. CASE MarkProcessing(r, m)
  BY <1>2, SerialMarks
<1>3. CASE Finish(r, m)
  BY <1>3, SerialFinish
<1>4. CASE ResolveMessage(r, m)
  <2>1. Goto(r, m, "idle", "checkRepeat") /\ messages' = messages
    BY <1>4 DEF ResolveMessage
  <2> QED
    BY <2>1, SerialMove
<1>5. CASE GetRound(r, m) \/ SubmitTx(r, m) \/ RedeemExecuted(r, m) \/ RedeemVoted(r, m)
           \/ RedeemApprove(r, m) \/ RedeemNew(r, m)
  <2>1. messages' = messages /\ \E from, to \in {"redeem", "scan", "submit", "finish"} :
                                   Goto(r, m, from, to)
    BY <1>5 DEF GetRound, SubmitTx, RedeemExecuted, RedeemVoted, RedeemApprove, RedeemNew, Choose
  <2> QED
    BY <2>1, SerialMove
<1> QED
  BY <1>1, <1>2, <1>3, <1>4, <1>5 DEF Redeem, Work

LEMMA SerialStep ==
    ASSUME TypeOK, Distinct, SerialNext \/ UNCHANGED vars, NEW r \in Relayers, Serial(r)
    PROVE  Serial(r)'
<1>1. CASE messages'[r] = messages[r] /\ \A m \in Msgs : pc'[r][m] = pc[r][m]
  BY <1>1, SerialKept
<1>2. CASE UNCHANGED <<messages, pc>>
  BY <1>1, <1>2
<1>3. UNCHANGED vars \/ NewBlock => UNCHANGED <<messages, pc>>
  BY DEF vars, NewBlock, relayerVars
<1>4. ASSUME NEW q \in Relayers, BlockTakes(q) \/ PoolLoses(q) \/ ProcessBlock(q)
      PROVE  UNCHANGED <<messages, pc>>
  BY <1>4 DEF BlockTakes, PoolLoses, ProcessBlock, relayerVars
<1>5. ASSUME NEW q \in Relayers, Restart(q) PROVE Serial(r)'
  <2>1. CASE q = r
    <3>1. \A m \in Msgs : pc'[r][m] = "idle"
      BY <1>5, <2>1 DEF Restart, TypeOK
    <3> QED
      BY <3>1, SerialIdle
  <2>2. CASE q # r
    BY <1>1, <1>5, <2>2 DEF Restart, TypeOK
  <2> QED
    BY <2>1, <2>2
<1>6. ASSUME NEW q \in Relayers, NEW m \in Msgs, Redeem(q, m), SerialNext PROVE Serial(r)'
  <2>1. CASE q = r
    BY <1>6, <2>1, SerialRedeem
  <2>2. CASE q # r
    <3>1. \E from, to : Goto(q, m, from, to)
      BY <1>6 DEF Redeem, Work, ResolveMessage, CheckRepeat, MarkProcessing, GetRound,
              RedeemVoted, RedeemExecuted, RedeemApprove, RedeemNew, Choose, SubmitTx, Finish
    <3>2. messages'[r] = messages[r]
      BY <1>6, <2>2 DEF TypeOK, Redeem, Work, ResolveMessage, CheckRepeat, MarkProcessing,
              GetRound, RedeemVoted, RedeemExecuted, RedeemApprove, RedeemNew, Choose,
              SubmitTx, Finish
    <3>3. \A n \in Msgs : pc'[r][n] = pc[r][n]
      BY <2>2, <3>1, MoveFacts
    <3> QED
      BY <1>1, <3>2, <3>3
  <2> QED
    BY <2>1, <2>2
<1> QED
  BY <1>2, <1>3, <1>4, <1>5, <1>6 DEF SerialNext, Next

SerialInv == IInv /\ \A r \in Relayers : Serial(r)

LEMMA SerialInit == Init => SerialInv
<1> SUFFICES ASSUME Init PROVE SerialInv
  OBVIOUS
<1>1. \A r \in Relayers : Serial(r)
  BY DEF Init, Serial, Marked, CheckHolds, OneMark, Apart, Processing
<1> QED
  BY <1>1, InitInv DEF SerialInv

LEMMA SerialInvStep ==
    ASSUME Distinct, SerialInv, SerialNext \/ UNCHANGED vars
    PROVE  SerialInv'
<1>1. IInv'
  BY NextInv, SerialSteps DEF SerialInv
<1>2. \A r \in Relayers : Serial(r)'
  BY SerialStep DEF SerialInv, IInv
<1> QED
  BY <1>1, <1>2 DEF SerialInv

(***************************************************************************)
(* A relayer processes one deposit of a recipient and amount at a time.    *)
(***************************************************************************)
THEOREM DepositsOneAtATime ==
    ASSUME Distinct
    PROVE  SerialSpec => []OneAtATime
<1>1. SerialInv /\ [SerialNext]_vars => SerialInv'
  BY SerialInvStep
<1>2. SerialInv => OneAtATime
  BY DEF SerialInv, Serial, Apart, OneAtATime
<1> QED
  BY <1>1, <1>2, SerialInit, PTL DEF SerialSpec
-----------------------------------------------------------------------------
(***************************************************************************)
(* Every deposit a relayer ends uses up a record of its own: those ended   *)
(* and the executed records left are no more than the executions the       *)
(* listener has seen.                                                      *)
(***************************************************************************)
Closed(r, c) == {k \in DOMAIN msTx[r] : msTx[r][k].executed /\ msTx[r][k].call = c}
PaidTo(c, p) == {i \in 1..p : log[i].kind = "Executed" /\ log[i].call = c}

Budget(r, c) ==
    /\ IsFiniteSet(DoneMessages(r, c))
    /\ Cardinality(DoneMessages(r, c)) + Cardinality(Closed(r, c))
          <= Cardinality(PaidTo(c, pos[r]))

(* A goroutine that finishes still has its record. *)
Holds(r) == \A m \in Msgs : pc[r][m] = "finish" => plan[r][m] \in Closed(r, CallOf(m))

LEMMA BudgetFinite ==
    ASSUME TypeOK, NEW r \in Relayers, NEW c
    PROVE  /\ IsFiniteSet(Closed(r, c)) /\ IsFiniteSet(PaidTo(c, pos[r]))
           /\ Cardinality(Closed(r, c)) \in Nat /\ Cardinality(PaidTo(c, pos[r])) \in Nat
<1>1. pos[r] \in Nat /\ DOMAIN msTx[r] \subseteq 1..pos[r]
  BY DEF TypeOK
<1>2. IsFiniteSet(1..pos[r])
  BY <1>1, FS_Interval
<1>3. Closed(r, c) \subseteq 1..pos[r] /\ PaidTo(c, pos[r]) \subseteq 1..pos[r]
  BY <1>1 DEF Closed, PaidTo
<1> QED
  BY <1>2, <1>3, FS_Subset, FS_CardinalityType

(* The listener takes an entry that pays c: at most one record is closed. *)
LEMMA BudgetPaid ==
    ASSUME TypeOK, OneOpenRecord, NEW r \in Relayers, NEW c, Budget(r, c), ProcessBlock(r),
           log[pos[r] + 1].kind = "Executed", log[pos[r] + 1].call = c
    PROVE  Budget(r, c)'
<1>1. PICK p \in Nat : p = pos[r] /\ pos'[r] = p + 1
  BY DEF ProcessBlock, TypeOK
<1>2. PaidTo(c, pos[r])' = PaidTo(c, p) \cup {p + 1} /\ p + 1 \notin PaidTo(c, p)
  BY <1>1 DEF ProcessBlock, PaidTo
<1>3. DoneMessages(r, c)' = DoneMessages(r, c)
  BY DEF ProcessBlock, DoneMessages, CallOf
<1>4. ClosesRecords(msTx[r], log[p + 1], msTx'[r])
  BY <1>1, ListenerReads
<1>5. Closed(r, c)' \subseteq {k \in DOMAIN msTx[r] : msTx[r][k].call = c}
  BY <1>4 DEF Closed, ClosesRecords
<1>6. \E k : Closed(r, c)' \subseteq Closed(r, c) \cup {k}
  <2>1. CASE \E k \in DOMAIN msTx[r] : msTx[r][k].call = c /\ ~msTx[r][k].executed
    <3>1. PICK k \in DOMAIN msTx[r] : msTx[r][k].call = c /\ ~msTx[r][k].executed
      BY <2>1
    <3>2. \A j \in DOMAIN msTx[r] : msTx[r][j].call = c /\ ~msTx[r][j].executed => j = k
      BY <3>1 DEF OneOpenRecord
    <3>3. Closed(r, c)' \subseteq Closed(r, c) \cup {k}
      BY <1>5, <3>2 DEF Closed
    <3> QED
      BY <3>3
  <2>2. CASE ~\E k \in DOMAIN msTx[r] : msTx[r][k].call = c /\ ~msTx[r][k].executed
    <3>1. Closed(r, c)' \subseteq Closed(r, c) \cup {0}
      BY <1>5, <2>2 DEF Closed
    <3> QED
      BY <3>1
  <2> QED
    BY <2>1, <2>2
<1>7. PICK k : Closed(r, c)' \subseteq Closed(r, c) \cup {k}
  BY <1>6
<1> DEFINE D == DoneMessages(r, c)
           K == Closed(r, c)
           P == PaidTo(c, p)
           Knext == Closed(r, c)'
<1>8. /\ IsFiniteSet(D) /\ IsFiniteSet(K) /\ IsFiniteSet(P)
      /\ Cardinality(D) + Cardinality(K) <= Cardinality(P)
  BY <1>1, BudgetFinite DEF Budget
<1> HIDE DEF D, K, P, Knext
<1>9. Cardinality(D) \in Nat /\ Cardinality(K) \in Nat /\ Cardinality(P) \in Nat
  BY <1>8, FS_CardinalityType
<1>10. /\ IsFiniteSet(K \cup {k}) /\ Cardinality(K \cup {k}) <= Cardinality(K) + 1
       /\ Cardinality(K \cup {k}) \in Nat
  <2>1. IsFiniteSet(K \cup {k})
    BY <1>8, FS_AddElement
  <2>2. Cardinality(K \cup {k}) = IF k \in K THEN Cardinality(K) ELSE Cardinality(K) + 1
    BY <1>8, FS_AddElement
  <2> QED
    BY <1>9, <2>1, <2>2
<1>11. Knext \subseteq K \cup {k}
  BY <1>7 DEF K, Knext
<1>12. Cardinality(Knext) <= Cardinality(K \cup {k}) /\ Cardinality(Knext) \in Nat
  BY <1>10, <1>11, FS_Subset, FS_CardinalityType
<1>13. Cardinality(P \cup {p + 1}) = Cardinality(P) + 1
  BY <1>2, <1>8, FS_AddElement DEF P
<1>14. Cardinality(D) + Cardinality(Knext) <= Cardinality(P \cup {p + 1})
  BY <1>8, <1>9, <1>10, <1>12, <1>13
<1> QED
  BY <1>2, <1>3, <1>8, <1>14 DEF Budget, D, K, P, Knext

(* Any other entry changes nothing of what is counted. *)
LEMMA BudgetUnpaid ==
    ASSUME TypeOK, NEW r \in Relayers, NEW c, Budget(r, c), ProcessBlock(r),
           ~(log[pos[r] + 1].kind = "Executed" /\ log[pos[r] + 1].call = c)
    PROVE  Budget(r, c)'
<1>1. PICK p \in Nat : p = pos[r] /\ pos'[r] = p + 1
  BY DEF ProcessBlock, TypeOK
<1>2. PaidTo(c, pos[r])' = PaidTo(c, p)
  BY <1>1 DEF ProcessBlock, PaidTo
<1>3. DoneMessages(r, c)' = DoneMessages(r, c)
  BY DEF ProcessBlock, DoneMessages, CallOf
<1>4. PICK e : e = log[p + 1]
  OBVIOUS
<1>5. /\ e.kind \in {"New", "Approve", "Executed"}
      /\ e.kind = "New" => AddsRecord(msTx[r], p + 1, e, msTx'[r])
      /\ e.kind = "Approve" => AddsVote(msTx[r], e, msTx'[r])
      /\ e.kind = "Executed" => ClosesRecords(msTx[r], e, msTx'[r])
  BY <1>1, <1>4, ListenerReads
<1>6. p + 1 \notin DOMAIN msTx[r]
  BY <1>1 DEF TypeOK
<1>7. Closed(r, c)' = Closed(r, c)
  <2>1. CASE e.kind = "New"
    BY <1>5, <1>6, <2>1 DEF Closed, AddsRecord
  <2>2. CASE e.kind = "Approve"
    BY <1>5, <2>2 DEF Closed, AddsVote
  <2>3. CASE e.kind = "Executed"
    <3>1. e.call # c
      BY <1>1, <1>4, <2>3
    <3> QED
      BY <1>5, <2>3, <3>1 DEF Closed, ClosesRecords
  <2> QED
    BY <1>5, <2>1, <2>2, <2>3
<1> QED
  BY <1>1, <1>2, <1>3, <1>7 DEF Budget

(* A goroutine of c ends, and its record goes. *)
LEMMA BudgetSpent ==
    ASSUME TypeOK, NEW r \in Relayers, NEW m \in Msgs, Finish(r, m), Holds(r),
           Budget(r, CallOf(m))
    PROVE  Budget(r, CallOf(m))'
<1>1. PICK c \in Calls : c = CallOf(m)
  BY CallOfType
<1>2. /\ pc[r][m] = "finish" /\ pc'[r][m] = "done"
      /\ \A n \in Msgs : n # m => pc'[r][n] = pc[r][n]
  BY MoveFacts DEF Finish
<1>3. PICK tx : tx = plan[r][m]
  OBVIOUS
<1>4. tx \in Closed(r, c)
  BY <1>1, <1>2, <1>3 DEF Holds
<1>5. msTx'[r] = [k \in DOMAIN msTx[r] \ {tx} |-> msTx[r][k]] /\ pos' = pos /\ log' = log
  BY <1>3 DEF Finish, TypeOK, Without
<1>6. Closed(r, c)' = Closed(r, c) \ {tx}
  BY <1>5 DEF Closed
<1>7. DoneMessages(r, c)' = DoneMessages(r, c) \cup {m}
  BY <1>1, DoneFinishes
<1>8. PaidTo(c, pos[r])' = PaidTo(c, pos[r])
  BY <1>5 DEF PaidTo
<1> DEFINE D == DoneMessages(r, c)
           K == Closed(r, c)
           P == PaidTo(c, pos[r])
<1>9. /\ IsFiniteSet(D) /\ IsFiniteSet(K)
      /\ Cardinality(K) \in Nat /\ Cardinality(P) \in Nat
      /\ Cardinality(D) + Cardinality(K) <= Cardinality(P)
  BY <1>1, BudgetFinite DEF Budget
<1>10. tx \in K
  BY <1>4
<1> HIDE DEF D, K, P
<1>11. Cardinality(D) \in Nat
  BY <1>9, FS_CardinalityType
<1>12. IsFiniteSet(D \cup {m}) /\ Cardinality(D \cup {m}) \in Nat
  BY <1>9, FS_AddElement, FS_CardinalityType
<1>16. Cardinality(D \cup {m}) <= Cardinality(D) + 1
  <2>1. Cardinality(D \cup {m}) = IF m \in D THEN Cardinality(D) ELSE Cardinality(D) + 1
    BY <1>9, FS_AddElement
  <2> QED
    BY <1>11, <2>1
<1>13. Cardinality(K \ {tx}) = Cardinality(K) - 1
  BY <1>9, <1>10, FS_RemoveElement
<1>14. Cardinality(D \cup {m}) + Cardinality(K \ {tx}) <= Cardinality(P)
  BY <1>9, <1>11, <1>12, <1>13, <1>16
<1>15. Budget(r, c)'
  BY <1>6, <1>7, <1>8, <1>12, <1>14 DEF Budget, D, K, P
<1> QED
  BY <1>1, <1>15 DEF Budget, DoneMessages, Closed, PaidTo, CallOf

(* A goroutine of another call ends. *)
LEMMA BudgetOther ==
    ASSUME TypeOK, NEW r \in Relayers, NEW m \in Msgs, Finish(r, m), Holds(r),
           NEW c, c # CallOf(m), Budget(r, c)
    PROVE  Budget(r, c)'
<1>1. /\ pc[r][m] = "finish" /\ \A n \in Msgs : n # m => pc'[r][n] = pc[r][n]
  BY MoveFacts DEF Finish
<1>3. msTx[r][plan[r][m]].call = CallOf(m)
  BY <1>1 DEF Holds, Closed
<1>4. /\ msTx'[r] = [k \in DOMAIN msTx[r] \ {plan[r][m]} |-> msTx[r][k]]
      /\ pos' = pos /\ log' = log
  BY DEF Finish, TypeOK, Without
<1>5. Closed(r, c)' = Closed(r, c)
  BY <1>3, <1>4 DEF Closed
<1>6. DoneMessages(r, c)' = DoneMessages(r, c)
  BY DoneFinishes
<1> QED
  BY <1>4, <1>5, <1>6 DEF Budget, PaidTo

(* A step that leaves r's listener and its ended goroutines alone. *)
LEMMA BudgetKept ==
    ASSUME TypeOK, [Next]_vars, NEW r \in Relayers, NEW c, Budget(r, c),
           pos'[r] = pos[r], msTx'[r] = msTx[r],
           \A m \in Msgs : pc'[r][m] = "done" <=> pc[r][m] = "done"
    PROVE  Budget(r, c)'
<1>1. pos[r] \in Nat /\ pos[r] <= Len(log)
  BY DEF TypeOK, ChainTypeOK
<1>2. PaidTo(c, pos[r])' = PaidTo(c, pos[r])
  BY <1>1, LogGrows DEF PaidTo
<1>3. Closed(r, c)' = Closed(r, c)
  BY DEF Closed
<1>4. DoneMessages(r, c)' = DoneMessages(r, c)
  BY DoneKept
<1> QED
  BY <1>2, <1>3, <1>4 DEF Budget

LEMMA BudgetRestart ==
    ASSUME TypeOK, NEW r \in Relayers, NEW c, Restart(r)
    PROVE  Budget(r, c)'
<1>1. /\ pos'[r] \in Nat /\ DOMAIN msTx'[r] = {}
      /\ \A m \in Msgs : pc'[r][m] = "idle"
  BY StartsInLog DEF Restart, TypeOK, NoRecords
<1>2. DoneMessages(r, c)' = {} /\ Closed(r, c)' = {}
  BY <1>1 DEF DoneMessages, Closed
<1>3. IsFiniteSet(1..pos'[r]) /\ PaidTo(c, pos[r])' \subseteq 1..pos'[r]
  BY <1>1, FS_Interval DEF PaidTo
<1>4. Cardinality(PaidTo(c, pos[r])') \in Nat
  BY <1>3, FS_Subset, FS_CardinalityType
<1> QED
  BY <1>2, <1>4, FS_EmptySet DEF Budget

-----------------------------------------------------------------------------
LEMMA BudgetStep ==
    ASSUME TypeOK, OneOpenRecord, [Next]_vars, NEW r \in Relayers, Holds(r),
           NEW c, Budget(r, c)
    PROVE  Budget(r, c)'
<1>1. CASE ProcessBlock(r)
  BY <1>1, BudgetPaid, BudgetUnpaid
<1>2. CASE Restart(r)
  BY <1>2, BudgetRestart
<1>3. ASSUME NEW m \in Msgs, Finish(r, m) PROVE Budget(r, c)'
  <2>1. CASE c = CallOf(m)
    BY <1>3, <2>1, BudgetSpent
  <2>2. CASE c # CallOf(m)
    BY <1>3, <2>2, BudgetOther
  <2> QED
    BY <2>1, <2>2
<1> QED
  BY <1>1, <1>2, <1>3, OtherSteps, BudgetKept

(* A record that is closed stays, unless a goroutine ends with it. *)
LEMMA ClosedStays ==
    ASSUME TypeOK, [Next]_vars, NEW r \in Relayers, ~Restart(r), NEW c,
           NEW k \in Closed(r, c), \A m \in Msgs : Finish(r, m) => plan[r][m] # k
    PROVE  k \in Closed(r, c)'
<1>1. CASE ProcessBlock(r)
  <2>1. PICK e : e = log[pos[r] + 1]
    OBVIOUS
  <2>2. /\ e.kind \in {"New", "Approve", "Executed"}
        /\ e.kind = "New" => AddsRecord(msTx[r], pos[r] + 1, e, msTx'[r])
        /\ e.kind = "Approve" => AddsVote(msTx[r], e, msTx'[r])
        /\ e.kind = "Executed" => ClosesRecords(msTx[r], e, msTx'[r])
    BY <1>1, <2>1, ListenerReads
  <2> QED
    BY <2>2 DEF Closed, AddsRecord, AddsVote, ClosesRecords
<1>2. ASSUME NEW m \in Msgs, Finish(r, m) PROVE k \in Closed(r, c)'
  <2>1. msTx'[r] = [j \in DOMAIN msTx[r] \ {plan[r][m]} |-> msTx[r][j]]
    BY <1>2 DEF Finish, TypeOK, Without
  <2> QED
    BY <1>2, <2>1 DEF Closed
<1>3. CASE ~ProcessBlock(r) /\ \A m \in Msgs : ~Finish(r, m)
  BY <1>3, OtherSteps DEF Closed
<1> QED
  BY <1>1, <1>2, <1>3

(***************************************************************************)
(* No two goroutines finish with one record: they would be two deposits of *)
(* one recipient and amount in processing.                                 *)
(***************************************************************************)
LEMMA HoldsStep ==
    ASSUME Distinct, OneCallEach, TypeOK, [Next]_vars, NEW r \in Relayers,
           Serial(r), Holds(r)
    PROVE  Holds(r)'
<1> SUFFICES ASSUME NEW m \in Msgs, pc'[r][m] = "finish"
             PROVE  plan'[r][m] \in Closed(r, CallOf(m))'
  BY DEF Holds, Closed, CallOf
<1>1. CASE RedeemExecuted(r, m)
  <2>1. PICK tx \in Candidates(r, m) : msTx[r][tx].executed /\ plan'[r][m] = tx
    BY <1>1 DEF RedeemExecuted, Choose, IsExecuted, TypeOK
  <2>2. msTx' = msTx
    BY <1>1 DEF RedeemExecuted, Choose
  <2> QED
    BY <2>1, <2>2 DEF Closed, Candidates, Matching, CallOf
<1>2. ~Finish(r, m)
  BY MoveFacts DEF Finish
<1>3. CASE pc'[r][m] = pc[r][m] /\ plan'[r][m] = plan[r][m]
  <2>1. plan[r][m] \in Closed(r, CallOf(m))
    BY <1>3 DEF Holds
  <2>2. ~Restart(r)
    BY DEF Restart, TypeOK
  <2>3. ASSUME NEW n \in Msgs, Finish(r, n), plan[r][n] = plan[r][m] PROVE FALSE
    <3>1. pc[r][n] = "finish" /\ pc'[r][n] = "done"
      BY <2>3, MoveFacts DEF Finish
    <3>2. plan[r][n] \in Closed(r, CallOf(n))
      BY <3>1 DEF Holds
    <3>3. CallOf(n) = CallOf(m)
      BY <2>1, <2>3, <3>2 DEF Closed
    <3>4. RawOf[n] = RawOf[m]
      BY <3>3, MessageAssumption DEF OneCallEach, CallOf
    <3>5. NonceOf[n] = NonceOf[m]
      BY <1>3, <3>1, <3>4 DEF Serial, Apart, Processing
    <3>6. n = m
      BY <3>4, <3>5 DEF Distinct, DestOf
    <3> QED
      BY <3>1, <3>6
  <2> QED
    BY <1>3, <2>1, <2>2, <2>3, ClosedStays DEF CallOf
<1> QED
  BY <1>1, <1>2, <1>3, FinishingStep

-----------------------------------------------------------------------------
BudgetInv ==
    /\ SerialInv
    /\ \A r \in Relayers : Holds(r) /\ \A c \in Calls : Budget(r, c)

LEMMA BudgetInit == Init => BudgetInv
<1> SUFFICES ASSUME Init PROVE BudgetInv
  OBVIOUS
<1>1. ASSUME NEW r \in Relayers, NEW c \in Calls PROVE Budget(r, c)
  <2>1. DoneMessages(r, c) = {} /\ Closed(r, c) = {} /\ PaidTo(c, pos[r]) = {}
    BY DEF Init, NoRecords, DoneMessages, Closed, PaidTo
  <2> QED
    BY <2>1, FS_EmptySet DEF Budget
<1>2. \A r \in Relayers : Holds(r)
  BY DEF Init, Holds
<1> QED
  BY <1>1, <1>2, SerialInit DEF BudgetInv

LEMMA BudgetInvStep ==
    ASSUME Distinct, OneCallEach, BudgetInv, SerialNext \/ UNCHANGED vars
    PROVE  BudgetInv'
<1>1. SerialInv'
  BY SerialInvStep DEF BudgetInv
<1>2. /\ TypeOK /\ OneOpenRecord /\ [Next]_vars
      /\ \A r \in Relayers : Serial(r) /\ Holds(r)
  BY InvOneOpenRecord, SerialSteps DEF BudgetInv, SerialInv, IInv
<1>3. \A r \in Relayers : Holds(r)'
  BY <1>2, HoldsStep
<1>4. ASSUME NEW r \in Relayers, NEW c \in Calls PROVE Budget(r, c)'
  BY <1>2, BudgetStep DEF BudgetInv
<1> QED
  BY <1>1, <1>3, <1>4 DEF BudgetInv

(* What a listener has passed is on the chain. *)
LEMMA PaidBound ==
    ASSUME TypeOK, NEW r \in Relayers, NEW c \in Calls
    PROVE  /\ Cardinality(PaidTo(c, pos[r])) <= Paid(c)
           /\ Cardinality(PaidTo(c, pos[r])) \in Nat /\ Paid(c) \in Nat
<1>1. pos[r] \in Nat /\ Len(log) \in Nat /\ pos[r] <= Len(log)
  BY DEF TypeOK, ChainTypeOK
<1>2. /\ PaidTo(c, pos[r]) \subseteq Positions("Executed", c)
      /\ Positions("Executed", c) \subseteq 1..Len(log)
  BY <1>1 DEF PaidTo, Positions
<1>3. IsFiniteSet(Positions("Executed", c))
  <2>1. IsFiniteSet(1..Len(log))
    BY <1>1, FS_Interval
  <2> QED
    BY <1>2, <2>1, FS_Subset
<1> QED
  BY <1>2, <1>3, FS_Subset, FS_CardinalityType DEF Paid

LEMMA InvPayoutPerDeposit == BudgetInv => PayoutPerDeposit
<1> SUFFICES ASSUME BudgetInv, NEW r \in Relayers, NEW c \in Calls
             PROVE  Cardinality(DoneMessages(r, c)) <= Paid(c)
  BY DEF PayoutPerDeposit
<1>1. TypeOK /\ Budget(r, c)
  BY DEF BudgetInv, SerialInv, IInv
<1>2. /\ Cardinality(PaidTo(c, pos[r])) <= Paid(c)
      /\ Cardinality(PaidTo(c, pos[r])) \in Nat /\ Paid(c) \in Nat
  BY <1>1, PaidBound
<1>3. Cardinality(Closed(r, c)) \in Nat
  BY <1>1, BudgetFinite
<1>4. Cardinality(DoneMessages(r, c)) \in Nat
  BY <1>1, FS_CardinalityType DEF Budget
<1> QED
  BY <1>1, <1>2, <1>3, <1>4 DEF Budget

(***************************************************************************)
(* A relayer ends no more deposits of a recipient and amount than the      *)
(* chain has paid, if different amounts are different calls.               *)
(***************************************************************************)
THEOREM DepositsPaidEach ==
    ASSUME Distinct, OneCallEach
    PROVE  SerialSpec => []PayoutPerDeposit
<1>1. BudgetInv /\ [SerialNext]_vars => BudgetInv'
  BY BudgetInvStep
<1> QED
  BY <1>1, BudgetInit, InvPayoutPerDeposit, PTL DEF SerialSpec
-----------------------------------------------------------------------------
(* Refinement of Payout. *)

(* Only ResolveMessage teaches a relayer anything. *)
LEMMA SeenStep ==
    ASSUME [Next]_vars
    PROVE  \/ UNCHANGED seen
           \/ \E r \in Relayers, m \in Msgs : ResolveMessage(r, m)
<1>1. UNCHANGED vars \/ NewBlock => UNCHANGED seen
  BY DEF vars, NewBlock, relayerVars
<1>2. ASSUME NEW q \in Relayers,
             ProcessBlock(q) \/ PoolLoses(q) \/ Restart(q) \/ BlockTakes(q)
      PROVE  UNCHANGED seen
  BY <1>2 DEF ProcessBlock, PoolLoses, BlockTakes, Restart, relayerVars
<1>3. ASSUME NEW q \in Relayers, NEW m \in Msgs, Redeem(q, m)
      PROVE  ResolveMessage(q, m) \/ UNCHANGED seen
  BY <1>3 DEF Redeem, Work, CheckRepeat, MarkProcessing, GetRound,
              RedeemVoted, RedeemExecuted, RedeemApprove, RedeemNew, Choose, SubmitTx, Finish
<1> QED
  BY <1>1, <1>2, <1>3 DEF Next

LEMMA AbstractInit == Init => Abstract!Init
  BY DEF Init, ChainInit, Abstract!Init, Backers, Payouts, Ended, Instructed, Positions

(* The call that pays a message. *)
LEMMA PaidByCall == \A m \in Msgs : CallsOf[m] = CallOf(m)
  BY DEF CallsOf

(* Payout counts as FiniteSets does. *)
LEMMA SameCount == \A S : Abstract!Cardinality(S) = Cardinality(S)
  BY Zenon DEF Cardinality, Abstract!Cardinality

(* The messages that have ended stay as they are. *)
LEMMA EndedKept ==
    ASSUME \A r \in Relayers : \A m \in Msgs : pc'[r][m] = "done" <=> pc[r][m] = "done"
    PROVE  UNCHANGED Ended
  BY DEF Ended

(* A routed message makes its relayer back the call. *)
LEMMA ResolveBacks ==
    ASSUME TypeOK, NEW r \in Relayers, NEW m \in Msgs, ResolveMessage(r, m)
    PROVE  Abstract!Back(r, m)
<1>1. PICK c \in Calls : c = CallOf(m)
  BY CallOfType
<1>2. seen' = [seen EXCEPT ![r] = seen[r] \cup {m}] /\ log' = log
  BY DEF ResolveMessage
<1>3. \A d \in Calls \ {c} : Instructed(d)' = Instructed(d)
  BY <1>1, <1>2 DEF Instructed, CallOf, TypeOK
<1>4. Instructed(c)' = Instructed(c) \cup {r}
  BY <1>1, <1>2 DEF Instructed, CallOf, TypeOK
<1>5. Backers' =
          [Backers EXCEPT ![c] = @ \cup {r}]
  BY <1>3, <1>4 DEF Backers
<1>6. UNCHANGED Payouts
  BY <1>2 DEF Payouts, Positions
<1>7. UNCHANGED Ended
  <2>1. Goto(r, m, "idle", "checkRepeat")
    BY DEF ResolveMessage
  <2>2. /\ pc[r][m] = "idle" /\ pc'[r][m] = "checkRepeat"
        /\ \A q \in Relayers : \A n \in Msgs :
              ~(q = r /\ n = m) => pc'[q][n] = pc[q][n]
    BY <2>1, MoveFacts
  <2> QED
    BY <2>2, EndedKept
<1>8. CallsOf[m] = c
  BY <1>1, PaidByCall
<1> QED
  BY <1>5, <1>6, <1>7, <1>8 DEF Abstract!Back

(* A successful extrinsic adds its position if it executes the call. *)
LEMMA SuccessPays ==
    ASSUME TypeOK, Authority, NEW r \in Relayers, NEW x \in pool[r], Success(r, x)
    PROVE  \/ IncludeExecuted(r, x) /\ Abstract!Pay(x.call)
           \/ UNCHANGED Payouts
<1>1. PICK kind \in {"New", "Approve", "Executed"} :
          Emit(kind, r, x.call) /\ (kind = "Executed" => IncludeExecuted(r, x))
  BY DEF Success, IncludeNew, IncludeApprove, IncludeExecuted
<1>2. PICK n \in Nat : n = Len(log) /\ n < MaxLog
  BY <1>1 DEF TypeOK, ChainTypeOK, Emit
<1>3. /\ Len(log') = n + 1
      /\ log'[n + 1].kind = kind /\ log'[n + 1].call = x.call
      /\ \A i \in 1..n : log'[i] = log[i]
  BY <1>1, <1>2, SuccessEntry
<1>4. PICK c \in Calls : c = x.call
  BY SuccessType
<1>5. ASSUME NEW d, kind # "Executed" \/ d # c
      PROVE  Positions("Executed", d)' = Positions("Executed", d)
  BY <1>2, <1>3, <1>4, <1>5 DEF Positions
<1>6. CASE kind # "Executed"
  BY <1>5, <1>6 DEF Payouts
<1>7. CASE kind = "Executed"
  <2>1. Positions("Executed", c)' = Positions("Executed", c) \cup {n + 1}
    BY <1>2, <1>3, <1>4, <1>7 DEF Positions
  <2>2. n + 1 \in (1..MaxLog) \ Positions("Executed", c)
    BY <1>2, MaxLogAssumption DEF Positions
  <2>3. Payouts' =
            [Payouts EXCEPT ![c] = @ \cup {n + 1}]
    BY <1>5, <2>1 DEF Payouts
  <2>4. UNCHANGED <<Backers, Ended>>
    BY DEF Success, relayerVars, Backers, Instructed, Ended
  <2>5. Instructed(c) = Backers[c] /\ Payouts[c] = Positions("Executed", c)
    BY DEF Backers, Payouts
  <2>6. PICK votes : /\ votes = op[c].approvals \cup {r}
                     /\ Cardinality(votes) >= Threshold
    BY <1>1, <1>4, <1>7 DEF IncludeExecuted
  <2>7. votes \subseteq Instructed(c) /\ votes \in Quorums
    BY <1>4, <2>6 DEF Authority, Instructed, Quorums
  <2>8. \E id \in Slots \ Payouts[c] :
            Payouts' = [Payouts EXCEPT ![c] = Payouts[c] \cup {id}]
    BY <2>2, <2>3, <2>5, Zenon DEF Slots
  <2>9. \E Q \in Quorums : Q \subseteq Backers[c]
    BY <2>5, <2>7
  <2>10. Abstract!Pay(c)
    BY <2>4, <2>8, <2>9 DEF Abstract!Pay
  <2> QED
    BY <1>1, <1>4, <1>7, <2>10
<1> QED
  BY <1>6, <1>7

(* The end of a goroutine reports a deposit, on a payout of its own. *)
LEMMA FinishEnds ==
    ASSUME BudgetInv, NEW r \in Relayers, NEW m \in Msgs, Finish(r, m)
    PROVE  Abstract!End(r, m)
<1> USE DEF BudgetInv, SerialInv, IInv
<1>1. PICK c \in Calls : c = CallOf(m)
  BY CallOfType
<1>2. /\ pc[r][m] = "finish" /\ pc'[r][m] = "done"
      /\ \A q \in Relayers : \A n \in Msgs :
            ~(q = r /\ n = m) => pc'[q][n] = pc[q][n]
  BY MoveFacts DEF Finish
<1>3. CallsOf[m] = c
  BY <1>1, PaidByCall
<1>4. m \notin Ended[r]
  BY <1>2 DEF Ended
<1>5. r \in Backers[c]
  <2>1. m \in seen[r]
    BY <1>2 DEF Authority
  <2> QED
    BY <1>1, <2>1 DEF Backers, Instructed
<1>6. Abstract!EndedBy(r, c) = DoneMessages(r, c)
  <2>1. Ended[r] = {n \in Msgs : pc[r][n] = "done"}
    BY DEF Ended
  <2>2. {d \in Ended[r] : CallsOf[d] = c} = DoneMessages(r, c)
    BY <2>1, PaidByCall DEF DoneMessages
  <2> QED
    BY <2>2 DEF Abstract!EndedBy
<1>7. Cardinality(DoneMessages(r, c)) < Cardinality(Payouts[c])
  <2>1. /\ Cardinality(DoneMessages(r, c)) + Cardinality(Closed(r, c))
              <= Cardinality(PaidTo(c, pos[r]))
        /\ Cardinality(DoneMessages(r, c)) \in Nat
    BY FS_CardinalityType DEF Budget
  <2>2. IsFiniteSet(Closed(r, c)) /\ Cardinality(Closed(r, c)) \in Nat
    BY BudgetFinite
  <2>3. plan[r][m] \in Closed(r, c)
    BY <1>1, <1>2 DEF Holds
  <2>4. Cardinality(Closed(r, c)) # 0
    BY <2>2, <2>3, FS_EmptySet
  <2>5. /\ Cardinality(PaidTo(c, pos[r])) <= Paid(c)
        /\ Cardinality(PaidTo(c, pos[r])) \in Nat /\ Paid(c) \in Nat
    BY PaidBound
  <2>6. Paid(c) = Cardinality(Payouts[c])
    BY DEF Paid, Payouts
  <2> QED
    BY <2>1, <2>2, <2>4, <2>5, <2>6
<1>8. Ended' = [Ended EXCEPT ![r] = Ended[r] \cup {m}]
  <2>1. {n \in Msgs : pc'[r][n] = "done"} = {n \in Msgs : pc[r][n] = "done"} \cup {m}
    BY <1>2
  <2>2. ASSUME NEW q \in Relayers, q # r
        PROVE  {n \in Msgs : pc'[q][n] = "done"} = {n \in Msgs : pc[q][n] = "done"}
    BY <1>2, <2>2
  <2> QED
    BY <2>1, <2>2 DEF Ended
<1>9. UNCHANGED <<Backers, Payouts>>
  BY DEF Finish, Backers, Payouts, Instructed, Positions
<1>10. Abstract!Cardinality(Abstract!EndedBy(r, c)) < Abstract!Cardinality(Payouts[c])
  BY <1>6, <1>7, SameCount
<1> HIDE DEF BudgetInv, SerialInv, IInv
<1> QED
  BY <1>3, <1>4, <1>5, <1>8, <1>9, <1>10 DEF Abstract!End

(* A restart makes a relayer forget what it has ended. *)
LEMMA RestartForgets ==
    ASSUME TypeOK, NEW r \in Relayers, Restart(r)
    PROVE  Abstract!Forget(r)
<1>1. /\ \A m \in Msgs : pc'[r][m] = "idle"
      /\ \A q \in Relayers : q # r => pc'[q] = pc[q]
  BY DEF Restart, TypeOK
<1>2. Ended' = [Ended EXCEPT ![r] = {}]
  BY <1>1 DEF Ended
<1>3. UNCHANGED <<Backers, Payouts>>
  BY DEF Restart, Backers, Payouts, Instructed, Positions
<1> QED
  BY <1>2, <1>3 DEF Abstract!Forget

(* Any other step ends and forgets nothing. *)
LEMMA EndedOtherwise ==
    ASSUME TypeOK, [Next]_vars, \A r \in Relayers : ~Restart(r),
           \A r \in Relayers : \A m \in Msgs : ~Finish(r, m)
    PROVE  UNCHANGED Ended
<1> SUFFICES ASSUME NEW r \in Relayers, NEW m \in Msgs
             PROVE  pc'[r][m] = "done" <=> pc[r][m] = "done"
  BY EndedKept
<1>1. CASE ProcessBlock(r)
  BY <1>1 DEF ProcessBlock
<1> QED
  BY <1>1, OtherSteps

LEMMA AbstractStep ==
    ASSUME BudgetInv, [Next]_vars
    PROVE  [Abstract!Next]_<<Backers, Payouts, Ended>>
<1> USE DEF BudgetInv, SerialInv, IInv
<1>1. ASSUME NEW r \in Relayers, NEW m \in Msgs, ResolveMessage(r, m)
      PROVE  Abstract!Next
  BY <1>1, ResolveBacks DEF Abstract!Next
<1>2. ASSUME NEW r \in Relayers, NEW m \in Msgs, Finish(r, m)
      PROVE  Abstract!Next
  BY <1>2, FinishEnds DEF Abstract!Next
<1>3. ASSUME NEW r \in Relayers, Restart(r)
      PROVE  Abstract!Next
  BY <1>3, RestartForgets DEF Abstract!Next
<1>4. CASE /\ UNCHANGED seen /\ \A r \in Relayers : ~Restart(r)
           /\ \A r \in Relayers : \A m \in Msgs : ~Finish(r, m)
  <2>1. UNCHANGED <<Backers, Ended>>
    BY <1>4, EndedOtherwise DEF Backers, Instructed
  <2>2. CASE UNCHANGED <<log, op>>
    <3>1. UNCHANGED Payouts
      BY <2>2 DEF Payouts, Positions
    <3> QED
      BY <2>1, <3>1
  <2>3. ASSUME NEW r \in Relayers, NEW x \in pool[r], Success(r, x)
        PROVE  [Abstract!Next]_<<Backers, Payouts, Ended>>
    <3>1. x.call \in Calls
      BY SuccessType
    <3>2. Abstract!Pay(x.call) \/ UNCHANGED Payouts
      BY <2>3, SuccessPays
    <3> QED
      BY <2>1, <3>1, <3>2 DEF Abstract!Next
  <2> QED
    BY <2>2, <2>3, LogStep
<1> QED
  BY <1>1, <1>2, <1>3, <1>4, SeenStep

(***************************************************************************)
(* Relayers, listeners and chain together implement Payout: quorums of     *)
(* routed relayers, payouts that are final, and for every deposit a        *)
(* relayer ends a payout of its own, whenever relayers restart.            *)
(***************************************************************************)
THEOREM Refinement ==
    ASSUME Distinct, OneCallEach
    PROVE  SerialSpec => ImplementsPayout
<1>1. Init => Abstract!Init
  BY AbstractInit
<1>2. BudgetInv /\ [SerialNext]_vars => BudgetInv'
  BY BudgetInvStep
<1>3. BudgetInv /\ [SerialNext]_vars =>
          [Abstract!Next]_<<Backers, Payouts, Ended>>
  BY AbstractStep, SerialSteps
<1> QED
  BY <1>1, <1>2, <1>3, BudgetInit, PTL DEF SerialSpec, ImplementsPayout, Abstract!Spec
=============================================================================
