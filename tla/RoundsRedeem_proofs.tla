------------------------- MODULE RoundsRedeem_proofs -------------------------
(***************************************************************************)
(* Proofs about MultiSigRedeem in the timing its rounds are designed for,  *)
(* for any relayers, threshold and bounds: a call that one deposit asks    *)
(* for has one operation, and nobody sends anything after its execution.   *)
(***************************************************************************)
EXTENDS MultiSigRedeem_proofs

(* A call that a single message asks for. *)
OneDepositPerCall == \A m, n \in Msgs : CallOf(m) = CallOf(n) => m = n

-----------------------------------------------------------------------------
(* Rounds: every round is one relayer's for a message, and no two share it. *)

LEMMA SmallMultiple ==
    ASSUME NEW t \in Nat \ {0}, NEW d \in Int, t * d < t, -t < t * d
    PROVE  d = 0
<1>1. CASE d >= 1
  <2>1. t * d >= t
    BY <1>1
  <2> QED
    BY <2>1
<1>2. CASE d <= -1
  <2>1. t * d <= -t
    BY <1>2
  <2> QED
    BY <2>1
<1> QED
  BY <1>1, <1>2

LEMMA DivMod ==
    ASSUME NEW t \in Nat \ {0}, NEW a \in Int
    PROVE  a = t * (a \div t) + (a % t) /\ a % t \in 0..(t - 1) /\ a \div t \in Int
  OBVIOUS

LEMMA OneRemainder ==
    ASSUME NEW t \in Nat \ {0}, NEW d \in Int, NEW s \in 0..(t - 1)
    PROVE  (t * d + s) % t = s
<1>1. PICK a \in Int : a = t * d + s
  OBVIOUS
<1>2. PICK e \in Int : a = t * e + (a % t) /\ a % t \in 0..(t - 1)
  BY DivMod
<1>3. t * (d - e) = t * d - t * e
  OBVIOUS
<1>4. d - e = 0
  <2>1. t * d - t * e = (a % t) - s
    BY <1>1, <1>2
  <2> QED
    BY <1>2, <1>3, <2>1, SmallMultiple
<1> QED
  BY <1>1, <1>2, <1>4

LEMMA RoundsDiffer ==
    ASSUME NEW r \in Relayers, NEW q \in Relayers, NEW m \in Msgs,
           ItsRound(r, m), ItsRound(q, m)
    PROVE  r = q
<1>1. PICK n \in Nat : n = NonceOf[m]
  BY MessageAssumption
<1>2. PICK t \in Nat \ {0} : t = Total /\ r \in 1..t /\ q \in 1..t
  BY TotalAssumption
<1>3. (r + n) % t = (q + n) % t
  BY <1>1, <1>2 DEF ItsRound, ProcessRound
<1>4. PICK d \in Int : r + n = t * d + ((r + n) % t)
  <2>1. PICK a \in Int : a = r + n
    BY <1>2
  <2>2. a = t * (a \div t) + (a % t) /\ a \div t \in Int
    BY DivMod
  <2> QED
    BY <2>1, <2>2
<1>5. PICK e \in Int : q + n = t * e + ((q + n) % t)
  <2>1. PICK a \in Int : a = q + n
    BY <1>2
  <2>2. a = t * (a \div t) + (a % t) /\ a \div t \in Int
    BY DivMod
  <2> QED
    BY <2>1, <2>2
<1>6. t * (d - e) = t * d - t * e
  OBVIOUS
<1>7. (r + n) % t \in Int /\ t * d \in Int /\ t * e \in Int
  BY <1>2, DivMod
<1>8. t * d - t * e = r - q
  BY <1>2, <1>3, <1>4, <1>5, <1>7
<1>9. d - e = 0
  BY <1>2, <1>6, <1>8, SmallMultiple
<1> QED
  BY <1>2, <1>6, <1>8, <1>9

LEMMA SomebodysRound ==
    ASSUME TypeOK, NEW m \in Msgs
    PROVE  \E r \in Relayers : ItsRound(r, m)
<1>1. PICK n \in Nat : n = NonceOf[m]
  BY MessageAssumption
<1>2. PICK t \in Nat \ {0} : t = Total
  BY TotalAssumption
<1>6. PICK s \in 0..(t - 1) : s = round
  BY <1>2 DEF TypeOK
<1>3. PICK d \in Int, k \in 0..(t - 1) : n = t * d + k
  <2>1. n \div t \in Int /\ n % t \in 0..(t - 1) /\ n = t * (n \div t) + (n % t)
    BY DivMod
  <2> QED
    BY <2>1
<1>4. t * (d + 1) = t * d + t /\ t * d \in Int
  OBVIOUS
<1>5. \E r \in 1..t : (r + n) % t = s
  <2>1. CASE s > k
    <3>1. (s - k) + n = t * d + s /\ s - k \in 1..t
      BY <1>3, <1>4, <2>1
    <3> QED
      BY <3>1, OneRemainder
  <2>2. CASE s <= k
    <3>1. (s - k + t) + n = t * (d + 1) + s /\ s - k + t \in 1..t
      BY <1>3, <1>4, <2>2
    <3>2. (t * (d + 1) + s) % t = s
      BY OneRemainder
    <3> QED
      BY <3>1, <3>2
  <2> QED
    BY <2>1, <2>2
<1> QED
  BY <1>1, <1>2, <1>5, <1>6, TotalAssumption DEF ItsRound, ProcessRound

-----------------------------------------------------------------------------
(* Which steps touch what. *)

LEMMA RoundsSteps == RoundsNext \/ UNCHANGED vars => [Next]_vars
  BY DEF RoundsNext, Next

(* Listeners only advance. *)
LEMMA ListenersAdvance ==
    ASSUME TypeOK, RoundsNext \/ UNCHANGED vars, NEW r \in Relayers
    PROVE  first'[r] = first[r] /\ (pos'[r] = pos[r] \/ pos'[r] = pos[r] + 1)
<1>1. UNCHANGED vars \/ NewBlock => UNCHANGED <<pos, first>>
  BY DEF vars, NewBlock, relayerVars
<1>2. ASSUME NEW q \in Relayers, BlockTakes(q) \/ PoolLoses(q)
      PROVE  UNCHANGED <<pos, first>>
  BY <1>2 DEF BlockTakes, PoolLoses, relayerVars
<1>3. ASSUME NEW q \in Relayers, NEW n \in Msgs, Redeem(q, n)
      PROVE  UNCHANGED <<pos, first>>
  BY <1>3 DEF Redeem, Work, ResolveMessage, CheckRepeat, MarkProcessing, GetRound,
              RedeemVoted, RedeemExecuted, RedeemApprove, RedeemNew, Choose, SubmitTx, Finish
<1>4. ASSUME NEW q \in Relayers, ProcessBlock(q)
      PROVE  first'[r] = first[r] /\ (pos'[r] = pos[r] \/ pos'[r] = pos[r] + 1)
  BY <1>4 DEF ProcessBlock, TypeOK
<1> QED
  BY <1>1, <1>2, <1>3, <1>4 DEF RoundsNext

LEMMA PassedGrows ==
    ASSUME TypeOK, RoundsNext \/ UNCHANGED vars, NEW r \in Relayers, NEW c
    PROVE  Passed(r, c) \subseteq Passed(r, c)'
<1>1. /\ first'[r] = first[r] /\ first[r] \in Nat /\ pos[r] \in Nat /\ pos[r] <= Len(log)
      /\ pos'[r] = pos[r] \/ pos'[r] = pos[r] + 1
  BY ListenersAdvance DEF TypeOK
<1>2. \A k \in 1..Len(log) : log'[k] = log[k]
  BY RoundsSteps, LogGrows
<1>3. (first[r] + 1)..pos[r] \subseteq (first'[r] + 1)..pos'[r]
  BY <1>1
<1>4. \A k \in (first[r] + 1)..pos[r] : log'[k] = log[k]
  BY <1>1, <1>2
<1> QED
  BY <1>3, <1>4 DEF Passed, IsNew

(* The round changes only when everybody has settled and caught up. *)
LEMMA RoundStep ==
    ASSUME RoundsNext \/ UNCHANGED vars
    PROVE  round' = round \/ (NewBlock /\ Settled /\ CaughtUp)
<1>1. ASSUME NEW q \in Relayers, ProcessBlock(q) \/ BlockTakes(q) \/ PoolLoses(q)
      PROVE  round' = round
  BY <1>1 DEF ProcessBlock, BlockTakes, PoolLoses
<1>2. ASSUME NEW q \in Relayers, NEW m \in Msgs, Redeem(q, m) PROVE round' = round
  BY <1>2 DEF Redeem, Work, ResolveMessage, CheckRepeat, MarkProcessing, GetRound,
     RedeemVoted, RedeemExecuted, RedeemApprove, RedeemNew, Choose, SubmitTx, Finish
<1> QED
  BY <1>1, <1>2 DEF RoundsNext, vars

(* Where extrinsics come from. *)
LEMMA PoolStep ==
    ASSUME TypeOK, [Next]_vars, NEW r \in Relayers, NEW x \in pool'[r]
    PROVE  \/ x \in pool[r]
           \/ \E m \in Msgs : pc[r][m] = "submit" /\ x = [call |-> CallOf(m), tp |-> plan[r][m]]
<1>1. UNCHANGED vars \/ NewBlock => UNCHANGED pool
  BY DEF vars, NewBlock
<1>2. ASSUME NEW q \in Relayers, ProcessBlock(q) \/ Restart(q)
      PROVE  UNCHANGED pool
  BY <1>2 DEF ProcessBlock, Restart
<1>3. ASSUME NEW q \in Relayers, BlockTakes(q) \/ PoolLoses(q)
      PROVE  pool' = [pool EXCEPT ![q] = {}]
  BY <1>3 DEF BlockTakes, PoolLoses, Include, Drop, Taken, IncludeNew, IncludeApprove,
              IncludeExecuted, IncludeFailed
<1>4. ASSUME NEW q \in Relayers, NEW m \in Msgs, Redeem(q, m), ~SubmitTx(q, m)
      PROVE  UNCHANGED pool
  BY <1>4 DEF Redeem, Work, ResolveMessage, CheckRepeat, MarkProcessing, GetRound,
              RedeemVoted, RedeemExecuted, RedeemApprove, RedeemNew, Choose, Finish
<1>5. ASSUME NEW q \in Relayers, NEW m \in Msgs, SubmitTx(q, m)
      PROVE  \/ x \in pool[r]
             \/ pc[r][m] = "submit" /\ x = [call |-> CallOf(m), tp |-> plan[r][m]]
  <2>1. /\ pc[q][m] = "submit"
        /\ pool' = [pool EXCEPT ![q] = IF @ = {} THEN {[call |-> CallOf(m), tp |-> plan[q][m]]}
                                                 ELSE @]
    BY <1>5 DEF SubmitTx, Goto, Submitted
  <2>2. CASE q = r
    BY <2>1, <2>2 DEF TypeOK, ChainTypeOK
  <2>3. CASE q # r
    BY <2>1, <2>3 DEF TypeOK, ChainTypeOK
  <2> QED
    BY <2>2, <2>3
<1>6. ASSUME NEW q \in Relayers, BlockTakes(q) \/ PoolLoses(q)
      PROVE  x \in pool[r]
  BY <1>3, <1>6 DEF TypeOK, ChainTypeOK
<1> QED
  BY <1>1, <1>2, <1>4, <1>5, <1>6 DEF Next

(* The same under OneDepositPerCall: the goroutine is that of the message. *)
LEMMA SubmittedBy ==
    ASSUME OneDepositPerCall, TypeOK, [Next]_vars, NEW r \in Relayers, NEW m \in Msgs,
           NEW x \in pool'[r], x.call = CallOf(m)
    PROVE  x \in pool[r] \/ (pc[r][m] = "submit" /\ x.tp = plan[r][m])
<1>1. CASE x \in pool[r]
  BY <1>1
<1>2. ASSUME NEW n \in Msgs, pc[r][n] = "submit", x = [call |-> CallOf(n), tp |-> plan[r][n]]
      PROVE  pc[r][m] = "submit" /\ x.tp = plan[r][m]
  <2>1. CallOf(n) = CallOf(m) /\ x.tp = plan[r][n]
    BY <1>2
  <2>2. n = m
    BY <2>1 DEF OneDepositPerCall
  <2> QED
    BY <1>2, <2>1, <2>2
<1> QED
  BY <1>1, <1>2, PoolStep

Acting(r, m) == pc[r][m] \in {"scan", "submit", "finish"}

(* A goroutine acts after it has met its round. *)
LEMMA ActingStep ==
    ASSUME TypeOK, RoundsNext \/ UNCHANGED vars, NEW r \in Relayers, NEW m \in Msgs,
           Acting(r, m)'
    PROVE  round' = round /\ (Acting(r, m) \/ ItsRound(r, m))
<1>1. UNCHANGED vars \/ NewBlock => UNCHANGED pc
  BY DEF vars, NewBlock, relayerVars
<1>2. ASSUME NEW q \in Relayers, BlockTakes(q) \/ PoolLoses(q) \/ ProcessBlock(q)
      PROVE  UNCHANGED pc
  BY <1>2 DEF BlockTakes, PoolLoses, ProcessBlock, relayerVars
<1>3. ASSUME NEW q \in Relayers, NEW n \in Msgs, Redeem(q, n)
      PROVE  Acting(r, m) \/ ItsRound(r, m)
  <2>1. CASE ~(q = r /\ n = m)
    <3>1. \E from, to : Goto(q, n, from, to)
      BY <1>3 DEF Redeem, Work, ResolveMessage, CheckRepeat, MarkProcessing, GetRound,
              RedeemVoted, RedeemExecuted, RedeemApprove, RedeemNew, Choose, SubmitTx, Finish
    <3> QED
      BY <2>1, <3>1, MoveFacts DEF Acting
  <2>2. CASE GetRound(r, m)
    BY <2>2 DEF GetRound, ItsRound
  <2>3. CASE q = r /\ n = m /\ ~GetRound(r, m)
    <3>1. Redeem(r, m) /\ ~GetRound(r, m)
      BY <1>3, <2>3
    <3>2. \/ Acting(r, m)
          \/ \E to \in {"checkRepeat", "mark", "redeem"} : pc' = [pc EXCEPT ![r][m] = to]
      BY <3>1 DEF Acting, Redeem, Work, ResolveMessage, CheckRepeat, MarkProcessing,
              RedeemVoted, RedeemExecuted, RedeemApprove, RedeemNew, Choose, SubmitTx, Finish, Goto
    <3>3. pc'[r][m] \in {"scan", "submit", "finish"}
      BY DEF Acting
    <3> QED
      BY <3>2, <3>3 DEF TypeOK
  <2> QED
    BY <2>1, <2>2, <2>3
<1>4. UNCHANGED pc => Acting(r, m)
  BY DEF Acting
<1>5. Acting(r, m) \/ ItsRound(r, m)
  BY <1>1, <1>2, <1>3, <1>4 DEF RoundsNext
<1>6. round' = round
  <2>1. CASE NewBlock /\ Settled
    BY <1>1, <1>4, <2>1 DEF Settled, Acting
  <2> QED
    BY <2>1, RoundStep
<1> QED
  BY <1>5, <1>6

(* A scan that finds no record of the call: the listener has passed none. *)
LEMMA NothingPassed ==
    ASSUME OneDepositPerCall, IInv, NEW r \in Relayers, NEW m \in Msgs, RedeemNew(r, m)
    PROVE  Passed(r, CallOf(m)) = {}
<1>1. PICK c \in Calls : c = CallOf(m)
  BY CallOfType
<1>2. TypeOK /\ RecordsReadOff /\ GoneIsDone
  BY DEF IInv
<1>3. ASSUME NEW k \in Passed(r, c) PROVE k \notin DOMAIN msTx[r]
  <2>1. log[k].call = c
    BY DEF Passed
  <2>2. k \in DOMAIN msTx[r] => msTx[r][k].call = c
    BY <1>2, <2>1 DEF RecordsReadOff
  <2> QED
    BY <1>1, <2>2 DEF RedeemNew, Candidates, Matching
<1>4. Passed(r, c) \ DOMAIN msTx[r] = Passed(r, c)
  BY <1>3
<1>5. DoneMessages(r, c) = {}
  <2>1. pc[r][m] = "scan"
    BY DEF RedeemNew, Choose, Goto
  <2> QED
    BY <1>1, <2>1 DEF DoneMessages, OneDepositPerCall
<1>6. Cardinality(Passed(r, c)) <= 0
  BY <1>2, <1>4, <1>5, FS_EmptySet DEF GoneIsDone
<1>7. IsFiniteSet(Passed(r, c)) /\ Cardinality(Passed(r, c)) \in Nat
  BY <1>2, PassedFinite
<1> QED
  BY <1>1, <1>6, <1>7, FS_EmptySet

(* An approval quotes a record the listener has. *)
LEMMA ApprovesPassed ==
    ASSUME IInv, NEW r \in Relayers, NEW m \in Msgs, RedeemApprove(r, m)
    PROVE  Passed(r, CallOf(m)) # {} /\ plan'[r][m] # 0
<1>1. PICK tx \in Candidates(r, m) : plan'[r][m] = tx
  BY DEF RedeemApprove, Choose, IInv, TypeOK
<1>2. tx \in DOMAIN msTx[r] /\ msTx[r][tx].call = CallOf(m)
  BY DEF Candidates, Matching
<1>3. tx \in (first[r] + 1)..pos[r] /\ first[r] \in Nat
  BY <1>2 DEF IInv, TypeOK
<1>4. IsNew(tx) /\ log[tx].call = CallOf(m)
  BY <1>2 DEF IInv, RecordsReadOff
<1> QED
  BY <1>1, <1>3, <1>4 DEF Passed

-----------------------------------------------------------------------------
(* The parts of RoundsInv, one lemma each. *)

LEMMA ActsStep ==
    ASSUME OneDepositPerCall, TypeOK, ActsInItsRound, RoundsNext \/ UNCHANGED vars
    PROVE  ActsInItsRound'
<1>1. ASSUME NEW r \in Relayers, NEW m \in Msgs, Acting(r, m)'
      PROVE  ItsRound(r, m)'
  <2>1. Acting(r, m) => ItsRound(r, m)
    BY DEF ActsInItsRound, Acting
  <2> QED
    BY <1>1, <2>1, ActingStep DEF ItsRound, ProcessRound
<1>2. ASSUME NEW r \in Relayers, NEW m \in Msgs, NEW x \in pool'[r], x.call = CallOf(m)
      PROVE  ItsRound(r, m)'
  <2>1. x \in pool[r] \/ pc[r][m] = "submit"
    BY <1>2, RoundsSteps, SubmittedBy
  <2>2. ItsRound(r, m) /\ ~Settled
    BY <1>2, <2>1 DEF ActsInItsRound, Settled
  <2>3. round' = round
    BY <2>2, RoundStep
  <2> QED
    BY <2>2, <2>3 DEF ItsRound, ProcessRound
<1> QED
  BY <1>1, <1>2 DEF ActsInItsRound, Acting, CallOf

(* Where a goroutine that approves comes from. *)
LEMMA ApprovingStep ==
    ASSUME OneDepositPerCall, IInv, [Next]_vars, NEW r \in Relayers, NEW m \in Msgs,
           Approving(r, m)'
    PROVE  Approving(r, m) \/ Passed(r, CallOf(m)) # {}
<1>0. TypeOK
  BY DEF IInv
<1>1. ASSUME NEW x \in pool'[r], x.call = CallOf(m), x.tp # 0
      PROVE  Approving(r, m)
  <2>1. x \in pool[r] \/ (pc[r][m] = "submit" /\ x.tp = plan[r][m])
    BY <1>0, <1>1, SubmittedBy
  <2> QED
    BY <1>1, <2>1 DEF Approving
<1>2. ASSUME pc'[r][m] = "submit", plan'[r][m] # 0
      PROVE  Approving(r, m) \/ Passed(r, CallOf(m)) # {}
  <2>1. CASE pc[r][m] = "submit" /\ plan'[r][m] = plan[r][m]
    BY <1>2, <2>1 DEF Approving
  <2>2. CASE RedeemApprove(r, m)
    BY <2>2, ApprovesPassed
  <2>3. CASE RedeemNew(r, m)
    BY <1>0, <1>2, <2>3 DEF RedeemNew, Choose, TypeOK
  <2> QED
    BY <1>0, <1>2, <2>1, <2>2, <2>3, SubmitStep
<1>3. \/ \E x \in pool'[r] : x.call = CallOf(m) /\ x.tp # 0
      \/ pc'[r][m] = "submit" /\ plan'[r][m] # 0
  BY DEF Approving, CallOf
<1> QED
  BY <1>1, <1>2, <1>3

LEMMA ApprovesStep ==
    ASSUME OneDepositPerCall, IInv, ApprovesWhatItPassed, RoundsNext \/ UNCHANGED vars
    PROVE  ApprovesWhatItPassed'
<1> SUFFICES ASSUME NEW r \in Relayers, NEW m \in Msgs, Approving(r, m)'
             PROVE  Passed(r, CallOf(m))' # {}
  BY DEF ApprovesWhatItPassed
<1>1. PICK c \in Calls : c = CallOf(m)
  BY CallOfType
<1>2. Passed(r, c) # {}
  BY <1>1, RoundsSteps, ApprovingStep DEF ApprovesWhatItPassed
<1>3. Passed(r, c) \subseteq Passed(r, c)'
  BY PassedGrows DEF IInv
<1>4. Passed(r, c)' # {}
  BY <1>2, <1>3
<1> QED
  BY <1>1, <1>4 DEF Passed, CallOf

(* Where a goroutine that opens comes from. *)
LEMMA OpeningStep ==
    ASSUME OneDepositPerCall, IInv, [Next]_vars, NEW r \in Relayers, NEW m \in Msgs,
           pc'[r][m] = "submit", plan'[r][m] = 0
    PROVE  \/ pc[r][m] = "submit" /\ plan[r][m] = 0
           \/ RedeemNew(r, m) /\ Passed(r, CallOf(m)) = {}
<1>1. ~RedeemApprove(r, m)
  BY ApprovesPassed
<1> QED
  BY <1>1, SubmitStep, NothingPassed DEF IInv

LEMMA OpensStep ==
    ASSUME OneDepositPerCall, IInv, ApprovesWhatItPassed, OpensBeforeApproving, [Next]_vars
    PROVE  OpensBeforeApproving'
<1> SUFFICES ASSUME NEW r \in Relayers, NEW m \in Msgs,
                    NEW x \in pool'[r], x.call = CallOf(m), x.tp # 0,
                    pc'[r][m] = "submit", plan'[r][m] = 0
             PROVE  FALSE
  BY DEF OpensBeforeApproving, CallOf
<1>0. TypeOK
  BY DEF IInv
<1>1. x \in pool[r] \/ (pc[r][m] = "submit" /\ x.tp = plan[r][m])
  BY <1>0, SubmittedBy
<1>2. CASE pc[r][m] = "submit" /\ plan[r][m] = 0
  BY <1>1, <1>2 DEF OpensBeforeApproving
<1>3. CASE RedeemNew(r, m) /\ Passed(r, CallOf(m)) = {}
  <2>1. pc[r][m] = "scan"
    BY <1>3 DEF RedeemNew, Choose, Goto
  <2>2. Approving(r, m)
    BY <1>1, <2>1 DEF Approving
  <2> QED
    BY <1>3, <2>2 DEF ApprovesWhatItPassed
<1> QED
  BY <1>2, <1>3, OpeningStep

(* A call is approved from a relayer's pool in that relayer's round. *)
LEMMA FirstApproval ==
    ASSUME OneDepositPerCall, RoundsInv, RoundsNext \/ UNCHANGED vars,
           NEW m \in Msgs, Approved(CallOf(m))', ~Approved(CallOf(m))
    PROVE  \E q \in Relayers :
              /\ ItsRound(q, m) /\ Passed(q, CallOf(m)) # {}
              /\ UNCHANGED <<round, relayerVars>> /\ pool'[q] = {}
              /\ \A r \in Relayers : pool'[r] \subseteq pool[r]
              /\ ~(pc[q][m] = "submit" /\ plan[q][m] = 0)
<1>0. IInv /\ TypeOK
  BY DEF RoundsInv, IInv
<1>1. PICK c \in Calls : c = CallOf(m)
  BY CallOfType
<1>2. ~UNCHANGED <<log, op>>
  BY DEF Approved, IsNew, CallOf
<1>13. PICK q \in Relayers : \E x \in pool[q] : Success(q, x)
  BY <1>2, RoundsSteps, LogStep
<1>3. PICK x \in pool[q] : Success(q, x)
  BY <1>13
<1>4. PICK kind \in {"New", "Approve", "Executed"} :
          /\ Emit(kind, q, x.call)
          /\ kind = "Approve" => IncludeApprove(q, x)
          /\ kind = "Executed" => IncludeExecuted(q, x)
  BY <1>3 DEF Success, IncludeNew, IncludeApprove, IncludeExecuted
<1>5. PICK n \in Nat : n = Len(log)
  BY <1>0, LogGrows, RoundsSteps
<1>6. /\ Len(log') = n + 1
      /\ log'[n + 1].kind = kind /\ log'[n + 1].call = x.call
      /\ \A i \in 1..n : log'[i] = log[i]
  BY <1>0, <1>4, <1>5, SuccessEntry
<1>7. x.call = c /\ kind # "New"
  <2>1. PICK k \in 1..(n + 1) : log'[k].call = c /\ log'[k].kind # "New"
    BY <1>1, <1>6 DEF Approved, IsNew, CallOf
  <2>2. k \notin 1..n
    BY <1>1, <1>5, <1>6, <2>1 DEF Approved, IsNew
  <2>3. k = n + 1
    BY <2>2
  <2> QED
    BY <1>6, <2>1, <2>3
<1>8. x.tp # 0
  BY <1>4, <1>7 DEF IncludeApprove, IncludeExecuted
<1>9. ItsRound(q, m) /\ ~(pc[q][m] = "submit" /\ plan[q][m] = 0)
  BY <1>1, <1>7, <1>8 DEF RoundsInv, ActsInItsRound, OpensBeforeApproving
<1>10. Passed(q, CallOf(m)) # {}
  BY <1>1, <1>7, <1>8 DEF RoundsInv, ApprovesWhatItPassed, Approving
<1>11. pool' = [pool EXCEPT ![q] = {}] /\ UNCHANGED <<round, relayerVars>>
  BY <1>3 DEF Success, IncludeNew, IncludeApprove, IncludeExecuted, Taken
<1>12. pool'[q] = {} /\ \A r \in Relayers : pool'[r] \subseteq pool[r]
  BY <1>0, <1>11 DEF TypeOK, ChainTypeOK
<1> QED
  BY <1>9, <1>10, <1>11, <1>12

(* When all listeners have caught up, one has passed what another has. *)
LEMMA AllPassed ==
    ASSUME CaughtUp, \A r \in Relayers : first[r] = 0,
           NEW r \in Relayers, NEW q \in Relayers, NEW c
    PROVE  Passed(r, c) = Passed(q, c)
  BY DEF CaughtUp, Passed

(* Nobody opens a call that is approved. *)
LEMMA OpensNothingApproved ==
    ASSUME OneDepositPerCall, RoundsInv, RoundsNext \/ UNCHANGED vars,
           NEW r \in Relayers, NEW m \in Msgs, Approved(CallOf(m))
    PROVE  ~Opening(r, m)'
<1>0. IInv /\ TypeOK /\ [Next]_vars
  BY RoundsSteps DEF RoundsInv, IInv
<1>1. ~Opening(r, m) /\ (ItsRound(r, m) => Passed(r, CallOf(m)) # {})
  BY DEF RoundsInv, ApprovedIsPassed
<1>2. ASSUME pc'[r][m] = "submit", plan'[r][m] = 0 PROVE FALSE
  <2>1. CASE pc[r][m] = "submit" /\ plan[r][m] = 0
    BY <1>1, <2>1 DEF Opening
  <2>2. CASE RedeemNew(r, m) /\ Passed(r, CallOf(m)) = {}
    <3>1. pc[r][m] = "scan"
      BY <2>2 DEF RedeemNew, Choose, Goto
    <3>2. ItsRound(r, m)
      BY <3>1 DEF RoundsInv, ActsInItsRound
    <3> QED
      BY <1>1, <2>2, <3>2
  <2> QED
    BY <1>0, <1>2, <2>1, <2>2, OpeningStep
<1>3. ASSUME NEW x \in pool'[r], x = [call |-> CallOf(m), tp |-> 0] PROVE FALSE
  <2>1. x.call = CallOf(m) /\ x.tp = 0
    BY <1>3
  <2>2. x \in pool[r] \/ (pc[r][m] = "submit" /\ x.tp = plan[r][m])
    BY <1>0, <2>1, SubmittedBy
  <2> QED
    BY <1>1, <1>3, <2>1, <2>2 DEF Opening, Pending
<1>4. ~([call |-> CallOf(m), tp |-> 0] \in pool'[r])
  BY <1>3
<1> QED
  BY <1>2, <1>4 DEF Opening, Pending, CallOf

LEMMA ApprovedStep ==
    ASSUME OneDepositPerCall, RoundsInv, RoundsNext \/ UNCHANGED vars
    PROVE  ApprovedIsPassed'
<1> SUFFICES ASSUME NEW m \in Msgs, Approved(CallOf(m))', NEW r \in Relayers
             PROVE  ~Opening(r, m)' /\ (ItsRound(r, m)' => Passed(r, CallOf(m))' # {})
  BY DEF ApprovedIsPassed
<1>0. IInv /\ TypeOK
  BY DEF RoundsInv, IInv
<1>1. PICK c \in Calls : c = CallOf(m)
  BY CallOfType
<1>2. Passed(r, c) \subseteq Passed(r, c)'
  BY <1>0, PassedGrows
<1>3. CASE Approved(CallOf(m))
  <2>1. ItsRound(r, m)' => Passed(r, c) # {}
    <3>1. CASE round' = round
      BY <1>1, <1>3, <3>1 DEF RoundsInv, ApprovedIsPassed, ItsRound, ProcessRound
    <3>2. CASE CaughtUp
      <4>1. PICK q \in Relayers : ItsRound(q, m)
        BY <1>0, SomebodysRound
      <4>2. Passed(q, c) # {}
        BY <1>1, <1>3, <4>1 DEF RoundsInv, ApprovedIsPassed
      <4> QED
        BY <3>2, <4>2, AllPassed DEF RoundsInv
    <3> QED
      BY <3>1, <3>2, RoundStep
  <2>2. ItsRound(r, m)' => Passed(r, c)' # {}
    BY <1>2, <2>1
  <2> QED
    BY <1>1, <1>3, <2>2, OpensNothingApproved DEF Passed, CallOf
<1>4. CASE ~Approved(CallOf(m))
  <2>1. PICK q \in Relayers :
            /\ ItsRound(q, m) /\ Passed(q, CallOf(m)) # {}
            /\ UNCHANGED <<round, relayerVars>> /\ pool'[q] = {}
            /\ \A p \in Relayers : pool'[p] \subseteq pool[p]
            /\ ~(pc[q][m] = "submit" /\ plan[q][m] = 0)
    BY <1>4, FirstApproval
  <2>2. UNCHANGED <<pc, plan>>
    BY <2>1 DEF relayerVars
  <2>3. ItsRound(r, m) => r = q
    BY <2>1, RoundsDiffer
  <2>4. ItsRound(r, m)' => Passed(r, c)' # {}
    <3>1. ItsRound(r, m)' => ItsRound(r, m)
      BY <2>1 DEF ItsRound, ProcessRound
    <3>2. ItsRound(r, m) => Passed(r, c) # {}
      BY <1>1, <2>1, <2>3
    <3> QED
      BY <1>2, <3>1, <3>2
  <2>5. pc[r][m] = "submit" /\ plan[r][m] = 0 => FALSE
    <3>1. pc[r][m] = "submit" => ItsRound(r, m)
      BY DEF RoundsInv, ActsInItsRound
    <3> QED
      BY <2>1, <2>3, <3>1
  <2>6. [call |-> CallOf(m), tp |-> 0] \in pool'[r] => FALSE
    <3>1. ASSUME [call |-> CallOf(m), tp |-> 0] \in pool'[r] PROVE FALSE
      <4>1. PICK x \in pool[r] : x.call = CallOf(m)
        BY <2>1, <3>1
      <4>2. r = q
        BY <2>3, <4>1 DEF RoundsInv, ActsInItsRound
      <4> QED
        BY <2>1, <3>1, <4>2
    <3> QED
      BY <3>1
  <2>7. ~Opening(r, m)'
    BY <2>2, <2>5, <2>6 DEF Opening, Pending, CallOf
  <2> QED
    BY <1>1, <2>4, <2>7 DEF Passed, CallOf
<1> QED
  BY <1>3, <1>4

-----------------------------------------------------------------------------
(* What the log opens. *)

LEMMA NewsFinite ==
    ASSUME TypeOK, NEW c
    PROVE  /\ IsFiniteSet(News(c)) /\ Cardinality(News(c)) \in Nat
           /\ IsFiniteSet(Positions("Executed", c)) /\ Paid(c) \in Nat
<1>1. IsFiniteSet(1..Len(log))
  <2>1. Len(log) \in Nat
    BY DEF TypeOK, ChainTypeOK
  <2> QED
    BY <2>1, FS_Interval
<1>2. News(c) \subseteq 1..Len(log) /\ Positions("Executed", c) \subseteq 1..Len(log)
  BY DEF News, Positions
<1> QED
  BY <1>1, <1>2, FS_Subset, FS_CardinalityType DEF Paid

(* An operation is opened only for a call that has none yet. *)
LEMMA FirstNew ==
    ASSUME RoundsInv, NEW r \in Relayers, NEW x \in pool[r], IncludeNew(r, x)
    PROVE  News(x.call) = {} /\ op[x.call] = NoOp
<1>0. IInv /\ TypeOK
  BY DEF RoundsInv, IInv
<1>1. PICK c \in Calls : c = x.call
  BY <1>0, SuccessType
<1>2. op[c].tx = 0 /\ x.tp = 0
  BY <1>1 DEF IncludeNew, Accepts
<1>3. PICK n \in Nat : n = Len(log)
  <2>1. log \in Seq(Event)
    BY <1>0 DEF TypeOK, ChainTypeOK
  <2> QED
    BY <2>1
<1>4. op[c] = NoOp
  <2>1. op[c] # NoOp => op[c].tx \in 1..n
    BY <1>0, <1>3 DEF IInv, OpenIsLast
  <2> QED
    BY <1>2, <2>1
<1>5. PICK m \in Msgs : CallOf(m) = c
  <2>1. r \in Instructed(x.call)
    BY <1>0 DEF IInv, Authority
  <2> QED
    BY <1>0, <1>1, <2>1 DEF Instructed, TypeOK
<1>6. Opening(r, m)
  <2>1. x \in Extrinsic
    BY <1>0, SuccessType
  <2>2. x = [call |-> CallOf(m), tp |-> 0]
    BY <1>1, <1>2, <1>5, <2>1 DEF Extrinsic
  <2> QED
    BY <2>2 DEF Opening, Pending
<1>7. ~Approved(c)
  BY <1>5, <1>6 DEF RoundsInv, ApprovedIsPassed
<1>8. ASSUME NEW k \in News(c) PROVE FALSE
  <2>1. k \in 1..n /\ IsNew(k) /\ log[k].call = c
    BY <1>3 DEF News
  <2>2. ExecutedIn(c, k, n)
    BY <1>0, <1>2, <1>3, <2>1 DEF IInv, ClosedIsExecuted
  <2>3. PICK j \in k..n : log[j].kind = "Executed" /\ log[j].call = c
    BY <2>2 DEF ExecutedIn
  <2>4. j \in 1..Len(log) /\ ~IsNew(j)
    BY <1>3, <2>1, <2>3 DEF IsNew
  <2> QED
    BY <1>7, <2>3, <2>4 DEF Approved
<1> QED
  BY <1>1, <1>4, <1>8

LEMMA OpenedSuccess ==
    ASSUME RoundsInv, NEW r \in Relayers, NEW x \in pool[r], Success(r, x)
    PROVE  OpenedOnce'
<1> DEFINE c == x.call
<1>0. IInv /\ TypeOK /\ OpenedOnce
  BY DEF RoundsInv, IInv
<1>1. PICK kind \in {"New", "Approve", "Executed"} :
          /\ Emit(kind, r, c)
          /\ kind = "New" => IncludeNew(r, x)
          /\ kind = "Approve" => IncludeApprove(r, x)
          /\ kind = "Executed" => IncludeExecuted(r, x)
  BY DEF Success, IncludeNew, IncludeApprove, IncludeExecuted
<1>2. PICK n \in Nat : n = Len(log)
  <2>1. log \in Seq(Event)
    BY <1>0 DEF TypeOK, ChainTypeOK
  <2> QED
    BY <2>1
<1>3. /\ Len(log') = n + 1
      /\ log'[n + 1].kind = kind /\ log'[n + 1].call = c
      /\ \A i \in 1..n : log'[i] = log[i]
  BY <1>0, <1>1, <1>2, SuccessEntry
<1>4. c \in Calls /\ op \in [Calls -> Operation] /\ op[c].tx = x.tp
  <2>1. c \in Calls /\ op \in [Calls -> Operation]
    BY <1>0, SuccessType DEF TypeOK, ChainTypeOK
  <2>2. Accepts(r, x)
    BY <1>1 DEF IncludeNew, IncludeApprove, IncludeExecuted
  <2> QED
    BY <2>1, <2>2 DEF Accepts
<1>5. 1..(n + 1) = (1..n) \cup {n + 1} /\ n + 1 \notin 1..n
  OBVIOUS
<1>6. \A d : News(d)' = IF kind = "New" /\ d = c THEN News(d) \cup {n + 1} ELSE News(d)
  BY <1>2, <1>3, <1>5 DEF News, IsNew
<1>7. \A d : Positions("Executed", d)'
                 = IF kind = "Executed" /\ d = c THEN Positions("Executed", d) \cup {n + 1}
                                                 ELSE Positions("Executed", d)
  BY <1>2, <1>3, <1>5 DEF Positions
<1>8. /\ \A d \in Calls : d # c => op'[d] = op[d]
      /\ kind = "New" => op'[c].tx = n + 1
      /\ kind = "Approve" => op[c].tx # 0 /\ op'[c].tx = op[c].tx
      /\ kind = "Executed" => op[c].tx # 0 /\ op'[c] = NoOp
  <2>1. kind = "New" => op' = [op EXCEPT ![c] = [tx |-> n + 1, approvals |-> {r}]]
    BY <1>1, <1>2 DEF IncludeNew
  <2>2. kind = "Approve" => x.tp # 0 /\ op' = [op EXCEPT ![c].approvals = @ \cup {r}]
    BY <1>1 DEF IncludeApprove
  <2>3. kind = "Executed" => x.tp # 0 /\ op' = [op EXCEPT ![c] = NoOp]
    BY <1>1 DEF IncludeExecuted
  <2> QED
    BY <1>4, <2>1, <2>2, <2>3 DEF Operation
<1>9. kind = "New" => News(c) = {} /\ op[c] = NoOp
  BY <1>1, FirstNew
<1>10. /\ kind = "New" => op'[c] # NoOp
       /\ kind = "Approve" => op[c] # NoOp /\ op'[c] # NoOp
       /\ kind = "Executed" => op[c] # NoOp
  BY <1>2, <1>8 DEF NoOp
<1> HIDE DEF c
<1> SUFFICES ASSUME NEW d \in Calls
             PROVE  /\ Cardinality(News(d)') <= 1
                    /\ Cardinality(News(d)') = Paid(d)' + (IF op'[d] = NoOp THEN 0 ELSE 1)
  BY DEF OpenedOnce
<1>11. /\ Cardinality(News(d)) <= 1
       /\ Cardinality(News(d)) = Paid(d) + (IF op[d] = NoOp THEN 0 ELSE 1)
  BY <1>0 DEF OpenedOnce
<1>12. /\ IsFiniteSet(Positions("Executed", d)) /\ Paid(d) \in Nat
       /\ n + 1 \notin Positions("Executed", d)
  BY <1>0, <1>2, <1>5, NewsFinite DEF Positions
<1>13. CASE d # c \/ kind = "Approve"
  <2>1. News(d)' = News(d) /\ Positions("Executed", d)' = Positions("Executed", d)
    BY <1>6, <1>7, <1>13
  <2>2. Paid(d)' = Paid(d)
    BY <2>1 DEF Paid
  <2>3. op'[d] = NoOp <=> op[d] = NoOp
    BY <1>8, <1>10, <1>13
  <2> QED
    BY <1>11, <2>1, <2>2, <2>3
<1>14. CASE d = c /\ kind = "New"
  <2>1. News(d) = {} /\ op[d] = NoOp /\ op'[d] # NoOp
    BY <1>9, <1>10, <1>14
  <2>2. News(d)' = {n + 1} /\ Positions("Executed", d)' = Positions("Executed", d)
    BY <1>6, <1>7, <1>14, <2>1
  <2>3. Cardinality(News(d)') = 1 /\ Paid(d)' = Paid(d) /\ Cardinality(News(d)) = 0
    BY <2>1, <2>2, FS_Singleton, FS_EmptySet DEF Paid
  <2> QED
    BY <1>11, <1>12, <2>1, <2>3
<1>15. CASE d = c /\ kind = "Executed"
  <2>1. News(d)' = News(d) /\ Positions("Executed", d)' = Positions("Executed", d) \cup {n + 1}
    BY <1>6, <1>7, <1>15
  <2>2. Paid(d)' = Paid(d) + 1
    BY <1>12, <2>1, FS_AddElement DEF Paid
  <2>3. op[d] # NoOp /\ op'[d] = NoOp
    BY <1>8, <1>10, <1>15
  <2> QED
    BY <1>11, <1>12, <2>1, <2>2, <2>3
<1> QED
  BY <1>13, <1>14, <1>15

LEMMA OpenedStep ==
    ASSUME RoundsInv, [Next]_vars
    PROVE  OpenedOnce'
<1>1. CASE UNCHANGED <<log, op>>
  BY <1>1 DEF RoundsInv, OpenedOnce, News, IsNew, Paid, Positions
<1> QED
  BY <1>1, LogStep, OpenedSuccess

-----------------------------------------------------------------------------
LEMMA RoundsInit == Init => RoundsInv
<1> SUFFICES ASSUME Init PROVE RoundsInv
  OBVIOUS
<1>1. IInv
  BY InitInv
<1>2. /\ Len(log) = 0
      /\ \A r \in Relayers : /\ pool[r] = {} /\ first[r] = 0
                             /\ \A m \in Msgs : pc[r][m] = "idle"
      /\ \A c \in Calls : op[c] = NoOp
  BY DEF Init, ChainInit
<1>3. ActsInItsRound /\ ApprovesWhatItPassed /\ OpensBeforeApproving
  BY <1>2 DEF ActsInItsRound, ApprovesWhatItPassed, Approving, OpensBeforeApproving
<1>4. ApprovedIsPassed
  BY <1>2 DEF ApprovedIsPassed, Approved
<1>5. OpenedOnce
  <2>1. \A c : News(c) = {} /\ Positions("Executed", c) = {}
    BY <1>2 DEF News, Positions
  <2>2. \A c : Cardinality(News(c)) = 0 /\ Paid(c) = 0
    BY <2>1, FS_EmptySet DEF Paid
  <2> QED
    BY <1>2, <2>2 DEF OpenedOnce
<1> QED
  BY <1>1, <1>2, <1>3, <1>4, <1>5 DEF RoundsInv

LEMMA RoundsInvStep ==
    ASSUME OneDepositPerCall, RoundsInv, [RoundsNext]_vars
    PROVE  RoundsInv'
<1>1. IInv /\ TypeOK /\ [Next]_vars
  BY RoundsSteps DEF RoundsInv, IInv
<1>2. IInv'
  BY <1>1, NextInv
<1>3. \A r \in Relayers : first'[r] = 0
  BY <1>1, ListenersAdvance DEF RoundsInv
<1>4. ActsInItsRound'
  BY <1>1, ActsStep DEF RoundsInv
<1>5. ApprovesWhatItPassed'
  BY <1>1, ApprovesStep DEF RoundsInv
<1>6. OpensBeforeApproving'
  BY <1>1, OpensStep DEF RoundsInv
<1>7. ApprovedIsPassed'
  BY ApprovedStep
<1>8. OpenedOnce'
  BY <1>1, OpenedStep
<1> QED
  BY <1>2, <1>3, <1>4, <1>5, <1>6, <1>7, <1>8 DEF RoundsInv

(***************************************************************************)
(* In the timing of the rounds, and without a restart, only the relayer    *)
(* whose round it is acts, and whoever's round it is after an approval has *)
(* passed the operation approved.                                          *)
(***************************************************************************)
THEOREM RoundsInvariance ==
    ASSUME OneDepositPerCall
    PROVE  RoundsSpec => []RoundsInv
<1>1. RoundsInv /\ [RoundsNext]_vars => RoundsInv'
  BY RoundsInvStep
<1> QED
  BY <1>1, RoundsInit, PTL DEF RoundsSpec

(***************************************************************************)
(* In that timing a call that one deposit asks for is paid at most once.   *)
(***************************************************************************)
THEOREM PaidOnce ==
    ASSUME OneDepositPerCall
    PROVE  RoundsSpec => []NoSecondPayout
<1>1. RoundsInv => NoSecondPayout
  <2> SUFFICES ASSUME RoundsInv, NEW c \in Calls PROVE Paid(c) <= 1
    BY DEF NoSecondPayout
  <2>1. /\ Cardinality(News(c)) <= 1
        /\ Cardinality(News(c)) = Paid(c) + (IF op[c] = NoOp THEN 0 ELSE 1)
    BY DEF RoundsInv, OpenedOnce
  <2>2. Paid(c) \in Nat
    BY NewsFinite DEF RoundsInv, IInv
  <2> QED
    BY <2>1, <2>2
<1> QED
  BY <1>1, RoundsInvariance, PTL

LEMMA KnownCallStops ==
    ASSUME RoundsInv, [RoundsNext]_vars,
           NEW r \in Relayers, NEW m \in Msgs, KnowsExecuted(r, m),
           pc[r][m] = "scan", pc'[r][m] = "submit"
    PROVE  FALSE
<1>1. IInv /\ TypeOK /\ [Next]_vars
  BY RoundsSteps DEF RoundsInv, IInv
<1>2. PICK tx \in Candidates(r, m) : msTx[r][tx].executed
  BY DEF KnowsExecuted, IsExecuted
<1>3. RedeemApprove(r, m)
  BY <1>1, <1>2, SubmitStep DEF RedeemNew
<1>4. PICK other \in Candidates(r, m) : ~msTx[r][other].executed
  BY <1>3 DEF RedeemApprove, IsExecuted
<1>5. PICK c \in Calls : c = CallOf(m)
  BY CallOfType
<1>6. tx \in News(c) /\ other \in News(c) /\ tx # other
  <2>1. tx \in DOMAIN msTx[r] /\ other \in DOMAIN msTx[r] /\ tx # other
    BY <1>2, <1>4 DEF Candidates, Matching
  <2>2. DOMAIN msTx[r] \subseteq 1..Len(log)
    BY <1>1 DEF TypeOK, ChainTypeOK
  <2>3. msTx[r][tx].call = c /\ msTx[r][other].call = c
    BY <1>2, <1>4, <1>5 DEF Candidates, Matching
  <2> QED
    BY <1>1, <2>1, <2>2, <2>3 DEF IInv, RecordsReadOff, News
<1>7. IsFiniteSet(News(c)) /\ Cardinality(News(c)) \in Nat
  BY <1>1, NewsFinite
<1>8. Cardinality({tx, other}) = 2
  <2>1. IsFiniteSet({tx}) /\ Cardinality({tx}) = 1
    BY FS_Singleton
  <2>2. Cardinality({tx} \cup {other}) = Cardinality({tx}) + 1
    BY <1>6, <2>1, FS_AddElement
  <2>3. {tx} \cup {other} = {tx, other}
    OBVIOUS
  <2> QED
    BY <2>1, <2>2, <2>3
<1>9. 2 <= Cardinality(News(c))
  BY <1>6, <1>7, <1>8, FS_Subset
<1>10. Cardinality(News(c)) <= 1
  BY DEF RoundsInv, OpenedOnce
<1> QED
  BY <1>7, <1>9, <1>10

(***************************************************************************)
(* "Once MultiSign Extrinsic is executed, stop sending Extrinsic to        *)
(* Polkadot" (writer.go:223) is true in that timing of calls that one      *)
(* deposit asks for: a relayer that knows of the execution prepares no     *)
(* further extrinsic.                                                      *)
(***************************************************************************)
THEOREM StopsOnceExecuted ==
    ASSUME OneDepositPerCall
    PROVE  RoundsSpec => StopOnceExecuted
<1>1. RoundsInv /\ [RoundsNext]_vars =>
          [\A r \in Relayers : \A m \in Msgs :
              KnowsExecuted(r, m) => ~(pc[r][m] = "scan" /\ pc'[r][m] = "submit")]_vars
  BY KnownCallStops
<1> QED
  BY <1>1, RoundsInvariance, PTL DEF RoundsSpec, StopOnceExecuted
=============================================================================
