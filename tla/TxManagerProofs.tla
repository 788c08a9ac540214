--------------------------- MODULE TxManagerProofs --------------------------
(***************************************************************************)
(* SendTransaction for every policy, any base fees and suggested tips, and *)
(* any number of calls and attempts.                                       *)
(***************************************************************************)
EXTENDS TxManager, TLAPS

-----------------------------------------------------------------------------
(* The inductive invariant.                                                *)

\* The bid in hand is one the policy allows.
BidInPolicy == pc # "idle" => /\ calls >= 1 /\ attempt >= 1
                              /\ MinTip <= tip /\ tip <= feeCap /\ feeCap <= MaxFee

\* The pool's transaction under our nonce is the bid in hand or one that the
\* bid in hand replaces.
Outbid == pc \in {"send", "wait"} => \/ pool[nonce] \in {NoTx, CallTx}
                                     \/ Replaces(CallTx, pool[nonce])

\* Transactions are of calls that were made, the current call's all under its
\* nonce, and no call has them under two nonces.
CallsMade == \A n \in Nonces : \A tx \in avail[n] : tx.call <= calls
OurNonce  == pc # "idle" => \A n \in Nonces : \A tx \in avail[n] : tx.call = calls => n = nonce
OneNonce  == \A m, n \in Nonces : \A ty \in avail[m], tx \in avail[n] :
                ty.call = tx.call => m = n

\* What was mined had been accepted, and has a receipt.
MinedWasAccepted == \A n \in Nonces : mined[n] # NoTx =>
                       mined[n] \in avail[n] /\ status[n] \in {"ok", "reverted"}

\* What the pool holds was accepted.
PooledWasAccepted == \A n \in Nonces : pool[n] # NoTx => pool[n] \in avail[n]

\* publishedTxs holds versions of this call only, and the one awaited.
PublishedIsOurs == /\ \A tx \in published : /\ tx.call = calls /\ tx.kind = "call"
                                            /\ tx \in avail[nonce]
                   /\ pc = "wait" => cur \in published
                   /\ pc = "idle" => published = {}

\* A call has no result before it returns.
NoResultYet == \A c \in Calls : c > calls \/ (c = calls /\ pc # "idle") => results[c] = "none"

\* A payload that may still be mined is of the running call, or of one that
\* returned without knowing its fate.
MayExecute == \A n \in Nonces : mined[n] = NoTx => \A tx \in avail[n] :
                 tx.kind = "call" => \/ pc # "idle" /\ tx.call = calls
                                     \/ results[tx.call] \in {"error", "max gas", "exhausted"}

IInv == /\ TypeOK
        /\ BidInPolicy
        /\ FeesWithinPolicy
        /\ Outbid
        /\ CallsMade /\ OurNonce /\ OneNonce
        /\ MinedWasAccepted
        /\ PooledWasAccepted
        /\ PublishedIsOurs
        /\ NoResultYet
        /\ MayExecute
        /\ OkMeansExecuted

Results == {"none", "ok", "reverted", "nonce", "error", "simulated", "max gas", "exhausted"}

-----------------------------------------------------------------------------
(* Numbers and types.                                                      *)

LEMMA NumberFacts ==
    /\ MaxCalls \in Nat /\ 0 \in Nonces /\ 0 \in 0..MaxAttempts /\ 1 \in 0..MaxAttempts
    /\ \A c \in Calls : c \in Nat /\ c >= 1 /\ c <= MaxCalls
    /\ \A c, d \in Calls : c > d => c # d
    /\ \A c \in 0..MaxCalls : c \in Nat
    /\ \A tx \in Tx : tx.call \in Calls /\ tx.call \in Nat
  <1>1. MaxCalls \in Nat /\ MaxCalls >= 1 /\ MaxAttempts \in Nat /\ MaxAttempts >= 1
    BY PolicyAssumption
  <1>2. \A c \in Calls : c \in Nat /\ c >= 1 /\ c <= MaxCalls
    BY <1>1 DEF Calls
  <1>3. \A tx \in Tx : tx.call \in Calls
    BY DEF Tx
  <1>4. 0 \in Nonces
    BY <1>1 DEF Nonces
  <1>5. \A c, d \in Calls : c > d => c # d
    BY <1>2
  <1> QED BY <1>1, <1>2, <1>3, <1>4, <1>5

-----------------------------------------------------------------------------
(* Fees.                                                                   *)

\* A raised fee covers the pool's ten percent after rounding, and is higher
\* from ten units on.
LEMMA BumpFacts ==
    ASSUME NEW v \in Nat
    PROVE  /\ ApplyBumpPercent(v) \in Nat
           /\ ApplyBumpPercent(v) >= (v * 110) \div 100
           /\ v >= 10 => ApplyBumpPercent(v) > v
  <1> DEFINE p == v * (100 + GasBumpPercent)
  <1>1. p \in Nat /\ p >= v * 110
    <2>1. PICK d \in Nat : GasBumpPercent = 10 + d
      BY PolicyAssumption
    <2>2. v * d \in Nat /\ p = v * 110 + v * d
      BY <2>1
    <2> QED BY <2>2
  <1> HIDE DEF p
  <1>2. /\ p \div 100 \in Nat /\ p \div 100 >= (v * 110) \div 100
        /\ v >= 10 => p \div 100 > v
    BY <1>1
  <1> QED BY <1>2 DEF ApplyBumpPercent, p

LEMMA BumpMonotone ==
    ASSUME NEW v \in Nat, NEW w \in Nat, v <= w
    PROVE  ApplyBumpPercent(v) <= ApplyBumpPercent(w)
  <1> DEFINE g == 100 + GasBumpPercent
  <1>1. g \in Nat
    BY PolicyAssumption
  <1> HIDE DEF g
  <1>2. v * g \in Nat /\ w * g \in Nat /\ v * g <= w * g
    <2>1. PICK d \in Nat : w = v + d
      <3> WITNESS w - v \in Nat
      <3> QED OBVIOUS
    <2>2. d * g \in Nat /\ w * g = v * g + d * g
      BY <1>1, <2>1
    <2> QED BY <1>1, <2>2
  <1>3. (v * g) \div 100 <= (w * g) \div 100
    BY <1>2
  <1> QED BY <1>3 DEF ApplyBumpPercent, g

LEMMA SuggestFacts ==
    ASSUME NEW t \in Tips, NEW b \in BaseFees
    PROVE  /\ SuggestedTip(t, b) \in Nat /\ SuggestedFee(t, b) \in Nat
           /\ MinTip <= SuggestedTip(t, b)
           /\ SuggestedTip(t, b) <= SuggestedFee(t, b)
           /\ SuggestedFee(t, b) <= MaxFee
  <1>1. /\ t \in Nat /\ b \in Nat /\ MinTip \in Nat /\ MaxFee \in Nat /\ MinTip <= MaxFee
    BY PolicyAssumption
  <1> QED BY <1>1 DEF SuggestedTip, SuggestedFee, MinOf, MaxOf

\* A new bid keeps to the policy and raises the old one.
LEMMA RebidFacts ==
    ASSUME IInv, pc # "idle", Rebid
    PROVE  /\ tip' \in Nat /\ feeCap' \in Nat
           /\ MinTip <= tip' /\ tip' <= feeCap' /\ feeCap' <= MaxFee
           /\ ApplyBumpPercent(tip) <= tip' /\ ApplyBumpPercent(feeCap) <= feeCap'
  <1> DEFINE bt == ApplyBumpPercent(tip)
             bf == ApplyBumpPercent(feeCap)
  <1>1. /\ tip \in Nat /\ feeCap \in Nat /\ MinTip <= tip /\ tip <= feeCap /\ feeCap <= MaxFee
        /\ baseFee \in BaseFees /\ MinTip \in Nat /\ MaxFee \in Nat /\ MinTip >= 10
    BY PolicyAssumption DEF IInv, TypeOK, BidInPolicy
  <1>2. bt \in Nat /\ bf \in Nat /\ bt > tip /\ bt <= bf
    BY <1>1, BumpFacts, BumpMonotone
  <1>3. bf <= MaxFee
    BY DEF Rebid
  <1> HIDE DEF bt, bf
  <1>4. CASE tip' = bt /\ feeCap' = bf
    BY <1>1, <1>2, <1>3, <1>4 DEF bt, bf
  <1>5. ASSUME NEW t \in Tips, tip' = MaxOf(bt, SuggestedTip(t, baseFee)),
               feeCap' = MaxOf(bf, SuggestedFee(t, baseFee))
        PROVE  /\ tip' \in Nat /\ feeCap' \in Nat
               /\ MinTip <= tip' /\ tip' <= feeCap' /\ feeCap' <= MaxFee
               /\ bt <= tip' /\ bf <= feeCap'
    <2>1. /\ SuggestedTip(t, baseFee) \in Nat /\ SuggestedFee(t, baseFee) \in Nat
          /\ MinTip <= SuggestedTip(t, baseFee)
          /\ SuggestedTip(t, baseFee) <= SuggestedFee(t, baseFee)
          /\ SuggestedFee(t, baseFee) <= MaxFee
      BY <1>1, SuggestFacts
    <2> QED BY <1>1, <1>2, <1>3, <1>5, <2>1 DEF MaxOf
  <1> QED BY <1>4, <1>5 DEF Rebid, bt, bf

\* What the old bid replaces, and the old bid, the new one does.
LEMMA RebidOutbids ==
    ASSUME IInv, pc \in {"send", "wait"}, Rebid, UNCHANGED <<pool, nonce, calls>>
    PROVE  pool'[nonce'] = NoTx \/ Replaces(CallTx', pool'[nonce'])
  <1>1. pc # "idle"
    OBVIOUS
  <1>2. /\ tip' \in Nat /\ feeCap' \in Nat
        /\ ApplyBumpPercent(tip) <= tip' /\ ApplyBumpPercent(feeCap) <= feeCap'
    BY <1>1, RebidFacts
  <1>3. /\ tip \in Nat /\ feeCap \in Nat /\ tip >= 10 /\ feeCap >= 10
        /\ pool \in [Nonces -> Tx \cup {NoTx}] /\ nonce \in Nonces
    <2>1. /\ tip \in Nat /\ feeCap \in Nat
          /\ pool \in [Nonces -> Tx \cup {NoTx}] /\ nonce \in Nonces
      BY DEF IInv, TypeOK
    <2>2. MinTip <= tip /\ tip <= feeCap
      BY <1>1 DEF IInv, BidInPolicy
    <2>3. MinTip \in Nat /\ MinTip >= 10
      BY PolicyAssumption
    <2> QED BY <2>1, <2>2, <2>3
  <1>4. /\ tip' > tip /\ tip' >= (tip * 110) \div 100
        /\ feeCap' > feeCap /\ feeCap' >= (feeCap * 110) \div 100
    <2>1. /\ ApplyBumpPercent(tip) \in Nat /\ ApplyBumpPercent(feeCap) \in Nat
          /\ ApplyBumpPercent(tip) > tip /\ ApplyBumpPercent(tip) >= (tip * 110) \div 100
          /\ ApplyBumpPercent(feeCap) > feeCap
          /\ ApplyBumpPercent(feeCap) >= (feeCap * 110) \div 100
      BY <1>3, BumpFacts
    <2> QED BY <1>2, <1>3, <2>1
  <1>5. /\ CallTx'.tip = tip' /\ CallTx'.fee = feeCap' /\ CallTx.tip = tip /\ CallTx.fee = feeCap
    BY DEF CallTx
  <1>6. CASE pool[nonce] = NoTx
    BY <1>6
  <1>7. CASE pool[nonce] = CallTx
    BY <1>4, <1>5, <1>7 DEF Replaces
  <1>8. CASE pool[nonce] # NoTx /\ Replaces(CallTx, pool[nonce])
    <2>1. pool[nonce].tip \in Nat /\ pool[nonce].fee \in Nat
      BY <1>3, <1>8 DEF Tx
    <2>2. /\ feeCap > pool[nonce].fee /\ tip > pool[nonce].tip
          /\ feeCap >= (pool[nonce].fee * 110) \div 100
          /\ tip >= (pool[nonce].tip * 110) \div 100
      BY <1>5, <1>8 DEF Replaces
    <2>3. /\ feeCap' > pool[nonce].fee /\ tip' > pool[nonce].tip
          /\ feeCap' >= (pool[nonce].fee * 110) \div 100
          /\ tip' >= (pool[nonce].tip * 110) \div 100
      BY <1>2, <1>3, <1>4, <2>1, <2>2
    <2> QED BY <1>5, <2>3 DEF Replaces
  <1> QED BY <1>6, <1>7, <1>8 DEF IInv, Outbid

\* The transactions the manager builds.
LEMMA OurTxs ==
    ASSUME IInv, pc # "idle"
    PROVE  /\ calls \in Calls /\ nonce \in Nonces
           /\ CallTx \in Tx /\ CallTx.call = calls /\ CallTx.kind = "call"
           /\ MinTip <= CallTx.tip /\ CallTx.tip <= CallTx.fee /\ CallTx.fee <= MaxFee
           /\ CancelTx \in Tx /\ CancelTx.call = calls /\ CancelTx.kind = "cancel"
           /\ MinTip <= CancelTx.tip /\ CancelTx.tip <= CancelTx.fee /\ CancelTx.fee <= MaxFee
  <1>1. /\ tip \in Nat /\ feeCap \in Nat /\ calls \in Calls /\ nonce \in Nonces
        /\ MinTip <= tip /\ tip <= feeCap /\ feeCap <= MaxFee
        /\ MinTip \in Nat /\ MaxFee \in Nat /\ MinTip >= 10
    <2>1. tip \in Nat /\ feeCap \in Nat /\ calls \in 0..MaxCalls /\ nonce \in Nonces
      BY DEF IInv, TypeOK
    <2>2. MinTip <= tip /\ tip <= feeCap /\ feeCap <= MaxFee /\ calls >= 1
      BY DEF IInv, BidInPolicy
    <2>3. MinTip \in Nat /\ MaxFee \in Nat /\ MinTip >= 10 /\ MaxCalls \in Nat
      BY PolicyAssumption
    <2> QED BY <2>1, <2>2, <2>3 DEF Calls
  <1>2. ApplyBumpPercent(feeCap) \in Nat /\ ApplyBumpPercent(feeCap) > feeCap
    BY <1>1, BumpFacts
  <1>3. CancelFee \in Nat /\ MinTip <= CancelFee /\ CancelFee <= MaxFee
    BY <1>1, <1>2 DEF CancelFee, MinOf
  <1>4. /\ CallTx \in Tx /\ CallTx.call = calls /\ CallTx.kind = "call"
        /\ CallTx.tip = tip /\ CallTx.fee = feeCap
    BY <1>1 DEF CallTx, Tx
  <1>5. /\ CancelTx \in Tx /\ CancelTx.call = calls /\ CancelTx.kind = "cancel"
        /\ CancelTx.tip = CancelFee /\ CancelTx.fee = CancelFee
    BY <1>1, <1>3 DEF CancelTx, Tx
  <1> QED BY <1>1, <1>3, <1>4, <1>5

LEMMA AnswerFacts ==
    ASSUME NEW n \in Nonces, NEW tx \in Tx
    PROVE  /\ Answer(n, tx) = "ok" => mined[n] = NoTx
           /\ Answer(n, tx) = "already known" => pool[n] = tx
           /\ Answer(n, tx) = "underpriced" => /\ pool[n] # NoTx /\ pool[n] # tx
                                               /\ ~Replaces(tx, pool[n])
  BY DEF Answer

-----------------------------------------------------------------------------
(* Steps of a call.                                                        *)

\* A transaction of the running call is let out under its nonce, or nothing is.
Adds(tx) == avail' = avail \/ avail' = [avail EXCEPT ![nonce] = @ \cup {tx}]

LEMMA AddFacts ==
    ASSUME IInv, pc # "idle", NEW tx \in Tx, tx.call = calls,
           MinTip <= tx.tip, tx.tip <= tx.fee, tx.fee <= MaxFee,
           Adds(tx), UNCHANGED <<mined, status, calls>>
    PROVE  /\ avail' \in [Nonces -> SUBSET Tx]
           /\ \A n \in Nonces : avail[n] \subseteq avail'[n]
           /\ \A n \in Nonces : \A ty \in avail'[n] : ty \in avail[n] \/ (ty = tx /\ n = nonce)
           /\ FeesWithinPolicy' /\ CallsMade' /\ OneNonce' /\ MinedWasAccepted'
           /\ \A n \in Nonces : \A ty \in avail'[n] : ty.call = calls => n = nonce
  <1>1. avail \in [Nonces -> SUBSET Tx] /\ nonce \in Nonces /\ calls \in Nat
    BY NumberFacts DEF IInv, TypeOK
  <1>2. /\ avail' \in [Nonces -> SUBSET Tx]
        /\ \A n \in Nonces : avail[n] \subseteq avail'[n]
        /\ \A n \in Nonces : \A ty \in avail'[n] : ty \in avail[n] \/ (ty = tx /\ n = nonce)
    BY <1>1 DEF Adds
  <1>3. FeesWithinPolicy'
    BY <1>2 DEF IInv, FeesWithinPolicy
  <1>4. CallsMade'
    BY <1>1, <1>2 DEF IInv, CallsMade
  <1>5. \A n \in Nonces : \A ty \in avail'[n] : ty.call = calls => n = nonce
    BY <1>2 DEF IInv, OurNonce
  <1>6. OneNonce'
    BY <1>2, <1>5 DEF IInv, OneNonce
  <1>7. MinedWasAccepted'
    BY <1>2 DEF IInv, MinedWasAccepted
  <1> QED BY <1>2, <1>3, <1>4, <1>5, <1>6, <1>7

\* The call goes on.
LEMMA GoesOn ==
    ASSUME IInv, pc # "idle", pc' # "idle", NEW tx \in Tx, tx.call = calls,
           MinTip <= tx.tip, tx.tip <= tx.fee, tx.fee <= MaxFee,
           Adds(tx), UNCHANGED <<mined, status, calls, nonce, results, baseFee>>,
           TypeOK', BidInPolicy', Outbid', PooledWasAccepted', PublishedIsOurs'
    PROVE  IInv'
  <1>1. /\ \A n \in Nonces : \A ty \in avail'[n] : ty \in avail[n] \/ ty = tx
        /\ FeesWithinPolicy' /\ CallsMade' /\ OneNonce' /\ MinedWasAccepted'
        /\ \A n \in Nonces : \A ty \in avail'[n] : ty.call = calls => n = nonce
    BY AddFacts
  <1>2. OurNonce'
    BY <1>1 DEF OurNonce
  <1>3. NoResultYet'
    BY DEF IInv, NoResultYet
  <1>4. MayExecute'
    BY <1>1 DEF IInv, MayExecute
  <1>5. OkMeansExecuted'
    BY DEF IInv, OkMeansExecuted
  <1> QED BY <1>1, <1>2, <1>3, <1>4, <1>5 DEF IInv

\* The call returns r: a receipt only of a version of its own, and "nonce"
\* only when its nonce is used.
LEMMA Returns ==
    ASSUME IInv, pc # "idle", NEW tx \in Tx, tx.call = calls,
           MinTip <= tx.tip, tx.tip <= tx.fee, tx.fee <= MaxFee,
           Adds(tx), UNCHANGED <<mined, status, baseFee>>,
           pool' \in [Nonces -> Tx \cup {NoTx}], PooledWasAccepted',
           NEW r \in Results, Return(r),
           r \in {"ok", "reverted"} => mined[nonce] \in published /\ r = status[nonce],
           r \notin {"error", "max gas", "exhausted"} => mined[nonce] # NoTx
    PROVE  IInv'
  <1>1. /\ pc' = "idle" /\ results' = [results EXCEPT ![calls] = r] /\ calls' = calls
        /\ cur' = NoTx /\ published' = {} /\ attempt' = 0 /\ tip' = 0 /\ feeCap' = 0
        /\ mev' = FALSE /\ nonce' = 0 /\ overdue' = FALSE
    BY DEF Return
  <1>2. calls \in Calls /\ nonce \in Nonces /\ results \in [Calls -> Results]
    BY OurTxs DEF IInv, TypeOK, Results
  <1>3. /\ avail' \in [Nonces -> SUBSET Tx]
        /\ \A n \in Nonces : \A ty \in avail'[n] : ty \in avail[n] \/ (ty = tx /\ n = nonce)
        /\ FeesWithinPolicy' /\ CallsMade' /\ OneNonce' /\ MinedWasAccepted'
        /\ \A n \in Nonces : \A ty \in avail'[n] : ty.call = calls => n = nonce
    BY <1>1, AddFacts
  <1>4. /\ results' \in [Calls -> Results] /\ results'[calls] = r
        /\ \A c \in Calls : c # calls => results'[c] = results[c]
    BY <1>1, <1>2
  <1>5. TypeOK'
    <2>1. 0 \in Nonces /\ 0 \in 0..MaxAttempts
      BY NumberFacts
    <2> QED BY <1>1, <1>3, <1>4, <2>1 DEF IInv, TypeOK, Results
  <1>6. BidInPolicy' /\ Outbid' /\ OurNonce' /\ PublishedIsOurs'
    BY <1>1 DEF BidInPolicy, Outbid, OurNonce, PublishedIsOurs
  <1>7. NoResultYet'
    <2>1. \A c \in Calls : c > calls => c # calls
      BY <1>2, NumberFacts
    <2> QED BY <1>1, <1>4, <2>1 DEF IInv, NoResultYet
  <1>8. MayExecute'
    <2> SUFFICES ASSUME NEW n \in Nonces, mined[n] = NoTx, NEW ty \in avail'[n], ty.kind = "call"
                 PROVE  results'[ty.call] \in {"error", "max gas", "exhausted"}
      BY DEF MayExecute
    <2>1. ty \in Tx /\ ty.call \in Calls
      BY <1>3, NumberFacts
    <2>2. CASE ty.call = calls
      <3>1. n = nonce
        BY <1>3, <2>2
      <3> QED BY <1>4, <2>2, <3>1
    <2>3. CASE ty.call # calls
      <3>1. ty \in avail[n]
        BY <1>3, <2>3
      <3> QED BY <1>4, <2>1, <2>3, <3>1 DEF IInv, MayExecute
    <2> QED BY <2>2, <2>3
  <1>9. OkMeansExecuted'
    <2> SUFFICES ASSUME NEW c \in Calls, results'[c] \in {"ok", "reverted"}
                 PROVE  \E n \in Nonces : /\ mined[n] # NoTx
                                          /\ mined[n].call = c /\ mined[n].kind = "call"
                                          /\ status[n] = results'[c]
      BY DEF OkMeansExecuted
    <2>1. CASE c = calls
      <3>1. mined[nonce] \in published /\ r = status[nonce] /\ mined[nonce] # NoTx
        BY <1>4, <2>1
      <3>2. mined[nonce].call = calls /\ mined[nonce].kind = "call"
        BY <3>1 DEF IInv, PublishedIsOurs
      <3> QED BY <1>2, <1>4, <2>1, <3>1, <3>2
    <2>2. CASE c # calls
      <3>1. results[c] = results'[c]
        BY <1>4, <2>2
      <3>2. PICK n \in Nonces : /\ mined[n] # NoTx
                                /\ mined[n].call = c /\ mined[n].kind = "call"
                                /\ status[n] = results[c]
        BY <3>1, Zenon DEF IInv, OkMeansExecuted
      <3> QED BY <3>1, <3>2, Zenon
    <2> QED BY <2>1, <2>2
  <1> QED BY <1>3, <1>5, <1>6, <1>7, <1>8, <1>9 DEF IInv

\* The node accepts a transaction of the call, or the nodes are left alone.
LEMMA AcceptFacts ==
    ASSUME IInv, pc # "idle", NEW tx \in Tx, Accept(nonce, tx) \/ UNCHANGED chain
    PROVE  /\ Adds(tx) /\ UNCHANGED <<mined, status, baseFee>>
           /\ pool' \in [Nonces -> Tx \cup {NoTx}] /\ avail' \in [Nonces -> SUBSET Tx]
           /\ PooledWasAccepted'
           /\ \A n \in Nonces : avail[n] \subseteq avail'[n]
           /\ Accept(nonce, tx) => pool'[nonce] = tx /\ tx \in avail'[nonce]
  <1>1. /\ pool \in [Nonces -> Tx \cup {NoTx}] /\ avail \in [Nonces -> SUBSET Tx]
        /\ nonce \in Nonces
    BY DEF IInv, TypeOK
  <1>2. \A n \in Nonces : pool[n] # NoTx => pool[n] \in avail[n]
    BY DEF IInv, PooledWasAccepted
  <1>3. CASE Accept(nonce, tx)
    <2>1. /\ pool' = [pool EXCEPT ![nonce] = tx]
          /\ avail' = [avail EXCEPT ![nonce] = avail[nonce] \cup {tx}]
          /\ UNCHANGED <<mined, status, baseFee>>
      BY <1>3 DEF Accept
    <2>2. Adds(tx)
      BY <2>1 DEF Adds
    <2> QED BY <1>1, <1>2, <2>1, <2>2 DEF PooledWasAccepted
  <1>4. CASE UNCHANGED chain /\ ~Accept(nonce, tx)
    BY <1>1, <1>2, <1>4 DEF chain, Adds, PooledWasAccepted
  <1> QED BY <1>3, <1>4

\* What mining, evicting, a new block and the end of a wait do: a mined transaction stays, a new
\* one had been accepted, and the pool only loses transactions.
LEMMA EnvironmentFacts ==
    ASSUME IInv, Environment
    PROVE  /\ UNCHANGED <<avail, pc, calls, bid, results>> /\ overdue' \in BOOLEAN
           /\ pool' \in [Nonces -> Tx \cup {NoTx}] /\ mined' \in [Nonces -> Tx \cup {NoTx}]
           /\ status' \in [Nonces -> {"none", "ok", "reverted"}] /\ baseFee' \in BaseFees
           /\ \A n \in Nonces : pool'[n] \in {pool[n], NoTx}
           /\ \A n \in Nonces : mined[n] # NoTx =>
                 mined'[n] = mined[n] /\ status'[n] = status[n]
           /\ \A n \in Nonces : mined'[n] # NoTx =>
                 mined'[n] \in avail[n] /\ status'[n] \in {"ok", "reverted"}
  <1>1. /\ pool \in [Nonces -> Tx \cup {NoTx}] /\ mined \in [Nonces -> Tx \cup {NoTx}]
        /\ status \in [Nonces -> {"none", "ok", "reverted"}] /\ baseFee \in BaseFees
        /\ avail \in [Nonces -> SUBSET Tx] /\ overdue \in BOOLEAN
    BY DEF IInv, TypeOK
  <1>2. \A n \in Nonces : mined[n] # NoTx => mined[n] \in avail[n] /\ status[n] \in {"ok", "reverted"}
    BY DEF IInv, MinedWasAccepted
  <1>3. CASE Mine
    <2>1. PICK n \in Nonces : /\ mined[n] = NoTx
                              /\ \E tx \in avail[n] :
                                    /\ mined' = [mined EXCEPT ![n] = tx]
                                    /\ \E s \in {"ok", "reverted"} :
                                          status' = [status EXCEPT ![n] = s]
                              /\ pool' = [pool EXCEPT ![n] = NoTx]
      BY <1>3 DEF Mine
    <2>2. PICK tx \in avail[n] : /\ mined' = [mined EXCEPT ![n] = tx]
                                 /\ \E s \in {"ok", "reverted"} :
                                       status' = [status EXCEPT ![n] = s]
      BY <2>1
    <2>3. PICK s \in {"ok", "reverted"} : status' = [status EXCEPT ![n] = s]
      BY <2>2
    <2>4. tx \in Tx
      BY <1>1
    <2>5. UNCHANGED <<avail, pc, calls, bid, overdue, results, baseFee>>
      BY <1>3 DEF Mine
    <2> QED BY <1>1, <1>2, <2>1, <2>2, <2>3, <2>4, <2>5
  <1>4. CASE Evict
    BY <1>1, <1>2, <1>4 DEF Evict
  <1>5. CASE NewBlock
    BY <1>1, <1>2, <1>5 DEF NewBlock
  <1>6. CASE WaitRunsOut
    <2>1. /\ UNCHANGED <<pool, avail, mined, status, baseFee, pc, calls, bid, results>>
          /\ overdue' = TRUE
      BY <1>6 DEF WaitRunsOut, chain
    <2> QED BY <1>1, <1>2, <2>1
  <1> QED BY <1>3, <1>4, <1>5, <1>6 DEF Environment

LEMMA EnvironmentStep == IInv /\ Environment => IInv'
  <1> SUFFICES ASSUME IInv, Environment PROVE IInv'
    OBVIOUS
  <1>1. /\ UNCHANGED <<avail, pc, calls, nonce, tip, feeCap, attempt, mev, cur, published, results>>
        /\ pool' \in [Nonces -> Tx \cup {NoTx}] /\ mined' \in [Nonces -> Tx \cup {NoTx}]
        /\ status' \in [Nonces -> {"none", "ok", "reverted"}] /\ baseFee' \in BaseFees
        /\ overdue' \in BOOLEAN
    BY EnvironmentFacts DEF bid
  <1>2. \A n \in Nonces : pool'[n] \in {pool[n], NoTx}
    BY EnvironmentFacts
  <1>3. \A n \in Nonces : mined[n] # NoTx => mined'[n] = mined[n] /\ status'[n] = status[n]
    BY EnvironmentFacts
  <1>4. MinedWasAccepted'
    BY <1>1, EnvironmentFacts DEF MinedWasAccepted
  <1>5. TypeOK'
    BY <1>1 DEF IInv, TypeOK
  <1>6. Outbid'
    <2>1. nonce \in Nonces /\ CallTx' = CallTx
      BY <1>1 DEF IInv, TypeOK, CallTx
    <2> QED BY <1>1, <1>2, <2>1 DEF IInv, Outbid
  <1>7. BidInPolicy' /\ FeesWithinPolicy' /\ CallsMade' /\ OurNonce' /\ OneNonce'
    BY <1>1 DEF IInv, BidInPolicy, FeesWithinPolicy, CallsMade, OurNonce, OneNonce
  <1>11. PooledWasAccepted'
    BY <1>1, <1>2 DEF IInv, PooledWasAccepted
  <1>8. PublishedIsOurs' /\ NoResultYet'
    BY <1>1 DEF IInv, PublishedIsOurs, NoResultYet
  <1>9. MayExecute'
    BY <1>1, <1>3 DEF IInv, MayExecute
  <1>10. OkMeansExecuted'
    <2> SUFFICES ASSUME NEW c \in Calls, results[c] \in {"ok", "reverted"}
                 PROVE  \E n \in Nonces : /\ mined'[n] # NoTx
                                          /\ mined'[n].call = c /\ mined'[n].kind = "call"
                                          /\ status'[n] = results[c]
      BY <1>1 DEF OkMeansExecuted
    <2>1. PICK n \in Nonces : /\ mined[n] # NoTx
                              /\ mined[n].call = c /\ mined[n].kind = "call"
                              /\ status[n] = results[c]
      BY Zenon DEF IInv, OkMeansExecuted
    <2>2. mined'[n] = mined[n] /\ status'[n] = status[n]
      BY <1>3, <2>1
    <2> QED BY <2>1, <2>2
  <1> QED BY <1>4, <1>5, <1>6, <1>7, <1>8, <1>9, <1>10, <1>11 DEF IInv

\* A new call starts with a policy-conforming bid under a nonce of which the
\* pool holds nothing.
LEMMA BeginStep == IInv /\ Begin => IInv'
  <1> SUFFICES ASSUME IInv, Begin PROVE IInv'
    OBVIOUS
  <1>1. /\ pc = "idle" /\ calls < MaxCalls /\ calls' = calls + 1 /\ mev' \in BOOLEAN
        /\ attempt' = 1 /\ cur' = NoTx /\ published' = {} /\ pc' = "send"
        /\ UNCHANGED <<overdue, results, pool, avail, mined, status, baseFee>>
    BY DEF Begin, chain
  <1>2. nonce' \in Nonces /\ pool[nonce'] = NoTx
    BY DEF Begin, PendingNonce
  <1>3. calls \in Nat /\ MaxCalls \in Nat /\ calls' \in Nat /\ calls < calls' /\ calls' \in 0..MaxCalls
    <2>1. calls \in Nat /\ MaxCalls \in Nat
      BY NumberFacts DEF IInv, TypeOK
    <2> QED BY <1>1, <2>1
  <1>4. PICK t \in Tips : tip' = SuggestedTip(t, baseFee) /\ feeCap' = SuggestedFee(t, baseFee)
    BY DEF Begin
  <1>5. /\ tip' \in Nat /\ feeCap' \in Nat
        /\ MinTip <= tip' /\ tip' <= feeCap' /\ feeCap' <= MaxFee
    <2>1. baseFee \in BaseFees
      BY DEF IInv, TypeOK
    <2> QED BY <1>4, <2>1, SuggestFacts
  <1>6. TypeOK'
    BY <1>1, <1>2, <1>3, <1>5, NumberFacts DEF IInv, TypeOK
  <1>7. BidInPolicy'
    <2>1. calls' >= 1 /\ attempt' >= 1
      BY <1>1, <1>3
    <2> QED BY <1>5, <2>1 DEF BidInPolicy
  <1>8. ASSUME NEW n \in Nonces, NEW tx \in avail[n] PROVE tx.call <= calls' /\ tx.call # calls'
    <2>1. tx.call <= calls /\ tx.call \in Nat
      BY NumberFacts DEF IInv, TypeOK, CallsMade
    <2> QED BY <1>3, <2>1
  <1>9. CallsMade' /\ OurNonce' /\ OneNonce'
    BY <1>1, <1>8 DEF IInv, CallsMade, OurNonce, OneNonce
  <1>10. FeesWithinPolicy' /\ MinedWasAccepted' /\ PooledWasAccepted' /\ OkMeansExecuted'
    BY <1>1 DEF IInv, FeesWithinPolicy, MinedWasAccepted, PooledWasAccepted, OkMeansExecuted
  <1>11. Outbid' /\ PublishedIsOurs'
    BY <1>1, <1>2 DEF Outbid, PublishedIsOurs
  <1>12. NoResultYet'
    <2>1. ASSUME NEW c \in Calls, c > calls' \/ c = calls' PROVE c > calls
      <3>1. c \in Nat
        BY NumberFacts
      <3> QED BY <1>3, <2>1, <3>1
    <2> QED BY <1>1, <2>1 DEF IInv, NoResultYet
  <1>13. MayExecute'
    BY <1>1 DEF IInv, MayExecute
  <1> QED BY <1>6, <1>7, <1>9, <1>10, <1>11, <1>12, <1>13 DEF IInv

LEMMA BeginFailsStep == IInv /\ BeginFails => IInv'
  <1> SUFFICES ASSUME IInv, BeginFails PROVE IInv'
    OBVIOUS
  <1>1. /\ pc = "idle" /\ calls < MaxCalls /\ calls' = calls + 1
        /\ UNCHANGED <<pool, avail, mined, status, baseFee, pc, nonce, tip, feeCap, attempt, mev,
                       cur, published, overdue>>
    BY DEF BeginFails, chain, bid
  <1>2. PICK r \in {"simulated", "error"} : results' = [results EXCEPT ![calls + 1] = r]
    BY DEF BeginFails
  <1>3. /\ calls \in Nat /\ calls' \in Nat /\ calls < calls' /\ calls' \in 0..MaxCalls
        /\ calls' \in Calls
    <2>1. calls \in Nat /\ MaxCalls \in Nat
      BY NumberFacts DEF IInv, TypeOK
    <2> QED BY <1>1, <2>1 DEF Calls
  <1>4. /\ results' \in [Calls -> Results] /\ results'[calls'] = r
        /\ \A c \in Calls : c # calls' => results'[c] = results[c]
    <2>1. results \in [Calls -> Results]
      BY DEF IInv, TypeOK, Results
    <2> QED BY <1>1, <1>2, <1>3, <2>1 DEF Results
  <1>5. TypeOK'
    BY <1>1, <1>3, <1>4 DEF IInv, TypeOK, Results
  <1>6. ASSUME NEW n \in Nonces, NEW tx \in avail[n]
        PROVE  tx.call <= calls' /\ tx.call # calls' /\ tx.call \in Calls
    <2>1. tx.call <= calls /\ tx.call \in Nat /\ tx.call \in Calls
      BY NumberFacts DEF IInv, TypeOK, CallsMade
    <2> QED BY <1>3, <2>1
  <1>7. CallsMade' /\ OurNonce' /\ OneNonce'
    BY <1>1, <1>6 DEF IInv, CallsMade, OurNonce, OneNonce
  <1>8. /\ FeesWithinPolicy' /\ MinedWasAccepted' /\ PooledWasAccepted'
        /\ BidInPolicy' /\ Outbid'
    BY <1>1 DEF IInv, FeesWithinPolicy, MinedWasAccepted, PooledWasAccepted, BidInPolicy, Outbid
  <1>9. NoResultYet'
    <2>1. ASSUME NEW c \in Calls, c > calls' PROVE c > calls /\ c # calls'
      <3>1. c \in Nat
        BY NumberFacts
      <3> QED BY <1>3, <2>1, <3>1
    <2> QED BY <1>1, <1>4, <2>1 DEF IInv, NoResultYet
  <1>10. MayExecute'
    BY <1>1, <1>4, <1>6 DEF IInv, MayExecute
  <1>11. OkMeansExecuted'
    <2> SUFFICES ASSUME NEW c \in Calls, results'[c] \in {"ok", "reverted"}
                 PROVE  \E n \in Nonces : /\ mined[n] # NoTx
                                          /\ mined[n].call = c /\ mined[n].kind = "call"
                                          /\ status[n] = results'[c]
      BY <1>1 DEF OkMeansExecuted
    <2>1. results'[c] = results[c]
      BY <1>4
    <2>2. PICK n \in Nonces : /\ mined[n] # NoTx
                              /\ mined[n].call = c /\ mined[n].kind = "call"
                              /\ status[n] = results[c]
      BY <2>1, Zenon DEF IInv, OkMeansExecuted
    <2> QED BY <2>1, <2>2, Zenon
  <1>12. PublishedIsOurs'
    BY <1>1 DEF IInv, PublishedIsOurs
  <1> QED BY <1>5, <1>7, <1>8, <1>9, <1>10, <1>11, <1>12 DEF IInv

LEMMA SendAcceptedStep == IInv /\ (SendOk \/ SendMEV) => IInv'
  <1> SUFFICES ASSUME IInv, SendOk \/ SendMEV PROVE IInv'
    OBVIOUS
  <1>1. /\ pc = "send" /\ pc' = "wait" /\ cur' = CallTx /\ published' = published \cup {CallTx}
        /\ UNCHANGED <<calls, nonce, tip, feeCap, attempt, mev, overdue, results>>
        /\ UNCHANGED <<mined, status, baseFee>>
    BY DEF SendOk, SendMEV, Publish, Accept, chain
  <1>2. /\ CallTx \in Tx /\ CallTx.call = calls /\ CallTx.kind = "call"
        /\ MinTip <= CallTx.tip /\ CallTx.tip <= CallTx.fee /\ CallTx.fee <= MaxFee
        /\ nonce \in Nonces
    BY <1>1, OurTxs
  <1>3. CallTx' = CallTx
    BY <1>1 DEF CallTx
  <1>4. /\ pool \in [Nonces -> Tx \cup {NoTx}] /\ avail \in [Nonces -> SUBSET Tx]
        /\ published \subseteq Tx
        /\ \A n \in Nonces : pool[n] # NoTx => pool[n] \in avail[n]
    BY DEF IInv, TypeOK, PooledWasAccepted
  <1>5. /\ pool' \in [Nonces -> Tx \cup {NoTx}] /\ avail' \in [Nonces -> SUBSET Tx]
        /\ pool'[nonce] = CallTx \/ pool'[nonce] = pool[nonce]
        /\ \A n \in Nonces : avail[n] \subseteq avail'[n]
        /\ CallTx \in avail'[nonce] /\ Adds(CallTx) /\ PooledWasAccepted'
    <2>1. CASE SendOk /\ Answer(nonce, CallTx) = "ok" /\ Accept(nonce, CallTx)
      BY <1>1, <1>2, <2>1, AcceptFacts
    <2>2. CASE SendOk /\ Answer(nonce, CallTx) = "already known" /\ UNCHANGED chain
      <3>1. pool[nonce] = CallTx /\ CallTx # NoTx
        BY <1>2, <2>2, AnswerFacts, NoTxAssumption
      <3>2. CallTx \in avail[nonce]
        BY <1>2, <1>4, <3>1
      <3>3. UNCHANGED <<pool, avail>>
        BY <2>2 DEF chain
      <3> QED BY <1>1, <1>2, <2>2, <3>2, <3>3, AcceptFacts
    <2>3. CASE SendMEV
      <3>1. avail' = [avail EXCEPT ![nonce] = avail[nonce] \cup {CallTx}] /\ UNCHANGED pool
        BY <2>3 DEF SendMEV
      <3>2. Adds(CallTx)
        BY <3>1 DEF Adds
      <3> QED BY <1>2, <1>4, <3>1, <3>2 DEF PooledWasAccepted
    <2> QED BY <2>1, <2>2, <2>3 DEF SendOk
  <1>6. Outbid'
    BY <1>1, <1>3, <1>5 DEF IInv, Outbid
  <1>7. BidInPolicy'
    BY <1>1 DEF IInv, BidInPolicy
  <1>8. TypeOK'
    BY <1>1, <1>2, <1>5 DEF IInv, TypeOK
  <1>9. PublishedIsOurs'
    BY <1>1, <1>2, <1>5 DEF IInv, PublishedIsOurs
  <1> QED BY <1>1, <1>2, <1>5, <1>6, <1>7, <1>8, <1>9, GoesOn

\* A new bid, with or without an attempt left.
LEMMA RebidStep ==
    ASSUME IInv, pc \in {"send", "wait"}, Rebid, UNCHANGED chain,
           UNCHANGED <<calls, nonce, cur, published, results>>,
           pc' \in {"send", "cancel"}, mev' \in BOOLEAN, overdue' \in BOOLEAN,
           attempt' \in 0..MaxAttempts, attempt' >= 1
    PROVE  IInv'
  <1>1. pc # "idle" /\ pc' # "idle" /\ pc' # "wait"
    OBVIOUS
  <1>2. UNCHANGED <<pool, avail, mined, status, baseFee>>
    BY DEF chain
  <1>3. /\ CallTx \in Tx /\ CallTx.call = calls
        /\ MinTip <= CallTx.tip /\ CallTx.tip <= CallTx.fee /\ CallTx.fee <= MaxFee
    BY <1>1, OurTxs
  <1>4. Adds(CallTx) /\ PooledWasAccepted'
    BY <1>1, <1>3, AcceptFacts
  <1>5. /\ tip' \in Nat /\ feeCap' \in Nat
        /\ MinTip <= tip' /\ tip' <= feeCap' /\ feeCap' <= MaxFee
    BY <1>1, RebidFacts
  <1>6. TypeOK'
    BY <1>2, <1>5 DEF IInv, TypeOK
  <1>7. BidInPolicy'
    BY <1>1, <1>5 DEF IInv, BidInPolicy
  <1>8. Outbid'
    BY <1>2, RebidOutbids DEF Outbid
  <1>9. PublishedIsOurs'
    BY <1>1, <1>2 DEF IInv, PublishedIsOurs
  <1> QED BY <1>1, <1>2, <1>3, <1>4, <1>6, <1>7, <1>8, <1>9, GoesOn

\* The bid stays; the call goes on to its cancellation.
LEMMA TurnsToCancel ==
    ASSUME IInv, pc # "idle", NEW tx \in Tx, tx.call = calls,
           MinTip <= tx.tip, tx.tip <= tx.fee, tx.fee <= MaxFee,
           Accept(nonce, tx) \/ UNCHANGED chain,
           UNCHANGED <<calls, nonce, tip, feeCap, attempt, cur, published, results>>,
           pc' \in {"cancel", "cancel max", "cancelled", "cancelled max"},
           mev' \in BOOLEAN, overdue' \in BOOLEAN
    PROVE  IInv'
  <1>1. /\ Adds(tx) /\ UNCHANGED <<mined, status, baseFee>>
        /\ pool' \in [Nonces -> Tx \cup {NoTx}] /\ avail' \in [Nonces -> SUBSET Tx]
        /\ PooledWasAccepted' /\ \A n \in Nonces : avail[n] \subseteq avail'[n]
    BY AcceptFacts
  <1>2. TypeOK'
    BY <1>1 DEF IInv, TypeOK
  <1>3. BidInPolicy' /\ Outbid'
    BY DEF IInv, BidInPolicy, Outbid
  <1>4. PublishedIsOurs'
    <2>1. nonce \in Nonces
      BY DEF IInv, TypeOK
    <2> QED BY <1>1, <2>1 DEF IInv, PublishedIsOurs
  <1>5. pc' # "idle"
    OBVIOUS
  <1> QED BY <1>1, <1>2, <1>3, <1>4, <1>5, GoesOn

\* The call returns without letting anything out.
LEMMA ReturnsNow ==
    ASSUME IInv, pc # "idle", UNCHANGED chain, NEW r \in Results, Return(r),
           r \in {"ok", "reverted"} => mined[nonce] \in published /\ r = status[nonce],
           r \notin {"error", "max gas", "exhausted"} => mined[nonce] # NoTx
    PROVE  IInv'
  <1>1. /\ CallTx \in Tx /\ CallTx.call = calls
        /\ MinTip <= CallTx.tip /\ CallTx.tip <= CallTx.fee /\ CallTx.fee <= MaxFee
    BY OurTxs
  <1>2. /\ Adds(CallTx) /\ UNCHANGED <<mined, status, baseFee>>
        /\ pool' \in [Nonces -> Tx \cup {NoTx}] /\ PooledWasAccepted'
    BY <1>1, AcceptFacts
  <1> QED BY <1>1, <1>2, Returns

\* A receipt of a published version.
LEMMA ReceiptFacts ==
    ASSUME IInv, mined[nonce] \in published
    PROVE  mined[nonce] # NoTx /\ status[nonce] \in {"ok", "reverted"}
  <1>1. published \subseteq Tx /\ nonce \in Nonces
    BY DEF IInv, TypeOK
  <1>2. mined[nonce] # NoTx
    BY <1>1, NoTxAssumption
  <1> QED BY <1>1, <1>2 DEF IInv, MinedWasAccepted

LEMMA SendNonceTooLowStep == IInv /\ SendNonceTooLow => IInv'
  <1> SUFFICES ASSUME IInv, SendNonceTooLow PROVE IInv'
    OBVIOUS
  <1>1. pc # "idle" /\ mined[nonce] # NoTx /\ UNCHANGED chain
    BY DEF SendNonceTooLow
  <1>2. CASE mined[nonce] \in published /\ Return(status[nonce])
    <2>1. status[nonce] \in {"ok", "reverted"} /\ status[nonce] \in Results
      BY <1>2, ReceiptFacts DEF Results
    <2> QED BY <1>1, <1>2, <2>1, ReturnsNow
  <1>3. CASE Return("nonce")
    <2>1. "nonce" \in Results
      BY DEF Results
    <2> QED BY <1>1, <1>3, <2>1, ReturnsNow
  <1> QED BY <1>2, <1>3 DEF SendNonceTooLow

LEMMA ReceiveReceiptStep == IInv /\ ReceiveReceipt => IInv'
  <1> SUFFICES ASSUME IInv, ReceiveReceipt PROVE IInv'
    OBVIOUS
  <1>1. pc = "wait" /\ mined[nonce] = cur /\ Return(status[nonce]) /\ UNCHANGED chain
    BY DEF ReceiveReceipt
  <1>2. mined[nonce] \in published
    BY <1>1 DEF IInv, PublishedIsOurs
  <1>3. mined[nonce] # NoTx /\ status[nonce] \in Results
    BY <1>2, ReceiptFacts DEF Results
  <1> QED BY <1>1, <1>2, <1>3, ReturnsNow

LEMMA AttemptFacts ==
    ASSUME IInv, pc # "idle"
    PROVE  /\ attempt \in 0..MaxAttempts /\ attempt >= 1
           /\ attempt # MaxAttempts \/ attempt < MaxAttempts =>
                 attempt + 1 \in 0..MaxAttempts /\ attempt + 1 >= 1
  <1>1. attempt \in 0..MaxAttempts /\ attempt >= 1 /\ MaxAttempts \in Nat
    BY PolicyAssumption DEF IInv, TypeOK, BidInPolicy
  <1>2. attempt \in Nat /\ attempt <= MaxAttempts
    BY <1>1
  <1>3. attempt # MaxAttempts \/ attempt < MaxAttempts =>
           attempt + 1 \in 0..MaxAttempts /\ attempt + 1 >= 1
    BY <1>1, <1>2
  <1> QED BY <1>1, <1>3

LEMMA SendUnderpricedStep == IInv /\ SendUnderpriced => IInv'
  <1> SUFFICES ASSUME IInv, SendUnderpriced PROVE IInv'
    OBVIOUS
  <1>1. pc = "send" /\ pc # "idle" /\ UNCHANGED chain
    BY DEF SendUnderpriced
  <1>2. mev \in BOOLEAN /\ overdue' \in BOOLEAN
    BY DEF IInv, TypeOK, SendUnderpriced
  <1>3. CASE pc' = "cancel max" /\ UNCHANGED <<calls, bid, results>>
    <2>1. /\ CallTx \in Tx /\ CallTx.call = calls
          /\ MinTip <= CallTx.tip /\ CallTx.tip <= CallTx.fee /\ CallTx.fee <= MaxFee
      BY <1>1, OurTxs
    <2>2. /\ UNCHANGED <<calls, nonce, tip, feeCap, attempt, cur, published, results>>
          /\ mev' \in BOOLEAN
      BY <1>2, <1>3 DEF bid
    <2> QED BY <1>1, <1>2, <1>3, <2>1, <2>2, TurnsToCancel
  <1>4. CASE /\ Rebid
             /\ IF attempt = MaxAttempts
                THEN pc' = "cancel" /\ UNCHANGED attempt
                ELSE attempt' = attempt + 1 /\ UNCHANGED pc
             /\ UNCHANGED <<calls, nonce, mev, cur, published, results>>
    <2>1. pc' \in {"send", "cancel"} /\ mev' \in BOOLEAN
      BY <1>1, <1>2, <1>4
    <2>2. attempt' \in 0..MaxAttempts /\ attempt' >= 1
      BY <1>1, <1>4, AttemptFacts
    <2> QED BY <1>1, <1>2, <1>4, <2>1, <2>2, RebidStep
  <1> QED BY <1>3, <1>4 DEF SendUnderpriced

LEMMA SendErrorStep == IInv /\ SendError => IInv'
  <1> SUFFICES ASSUME IInv, SendError PROVE IInv'
    OBVIOUS
  <1>1. pc = "send" /\ pc # "idle" /\ (Accept(nonce, CallTx) \/ UNCHANGED chain)
    BY DEF SendError
  <1>2. /\ CallTx \in Tx /\ CallTx.call = calls
        /\ MinTip <= CallTx.tip /\ CallTx.tip <= CallTx.fee /\ CallTx.fee <= MaxFee
        /\ nonce \in Nonces
    BY <1>1, OurTxs
  <1>3. /\ Adds(CallTx) /\ UNCHANGED <<mined, status, baseFee>>
        /\ pool' \in [Nonces -> Tx \cup {NoTx}] /\ avail' \in [Nonces -> SUBSET Tx]
        /\ PooledWasAccepted' /\ \A n \in Nonces : avail[n] \subseteq avail'[n]
        /\ Accept(nonce, CallTx) => pool'[nonce] = CallTx
    BY <1>1, <1>2, AcceptFacts
  <1>4. CASE attempt < MaxAttempts
    <2>1. /\ attempt' = attempt + 1
          /\ UNCHANGED <<pc, calls, nonce, tip, feeCap, mev, cur, published, overdue, results>>
      BY <1>4 DEF SendError
    <2>2. attempt' \in 0..MaxAttempts /\ attempt' >= 1
      BY <1>1, <1>4, <2>1, AttemptFacts
    <2>3. TypeOK'
      BY <1>3, <2>1, <2>2 DEF IInv, TypeOK
    <2>4. BidInPolicy'
      BY <2>1, <2>2 DEF IInv, BidInPolicy
    <2>5. Outbid'
      <3>1. CallTx' = CallTx /\ nonce' = nonce
        BY <2>1 DEF CallTx
      <3>2. pool'[nonce] = CallTx \/ pool'[nonce] = pool[nonce]
        BY <1>1, <1>3 DEF chain
      <3> QED BY <1>1, <2>1, <3>1, <3>2 DEF IInv, Outbid
    <2>6. PublishedIsOurs'
      BY <1>2, <1>3, <2>1 DEF IInv, PublishedIsOurs
    <2> QED BY <1>1, <1>2, <1>3, <2>1, <2>3, <2>4, <2>5, <2>6, GoesOn
  <1>5. CASE ~(attempt < MaxAttempts)
    <2>1. Return("error") /\ "error" \in Results
      BY <1>5 DEF SendError, Results
    <2> QED BY <1>1, <1>2, <1>3, <2>1, Returns
  <1> QED BY <1>4, <1>5

LEMMA SendFailsStep == IInv /\ SendFails => IInv'
  <1> SUFFICES ASSUME IInv, SendFails PROVE IInv'
    OBVIOUS
  <1>1. pc # "idle" /\ Return("error") /\ UNCHANGED chain /\ "error" \in Results
    BY DEF SendFails, Results
  <1> QED BY <1>1, ReturnsNow

LEMMA TimeoutStep == IInv /\ Timeout => IInv'
  <1> SUFFICES ASSUME IInv, Timeout PROVE IInv'
    OBVIOUS
  <1>1. pc = "wait" /\ pc # "idle" /\ UNCHANGED chain /\ overdue' \in BOOLEAN
    BY DEF Timeout
  <1>2. CASE /\ pc' \in {"cancel", "cancel max"} /\ mev' \in BOOLEAN
             /\ UNCHANGED <<calls, nonce, tip, feeCap, attempt, cur, published, results>>
    <2>1. /\ CallTx \in Tx /\ CallTx.call = calls
          /\ MinTip <= CallTx.tip /\ CallTx.tip <= CallTx.fee /\ CallTx.fee <= MaxFee
      BY <1>1, OurTxs
    <2> QED BY <1>1, <1>2, <2>1, TurnsToCancel
  <1>3. CASE /\ attempt < MaxAttempts /\ Rebid
             /\ pc' = "send" /\ mev' = FALSE /\ attempt' = attempt + 1
             /\ UNCHANGED <<calls, nonce, cur, published, results>>
    <2>1. attempt' \in 0..MaxAttempts /\ attempt' >= 1
      BY <1>1, <1>3, AttemptFacts
    <2> QED BY <1>1, <1>3, <2>1, RebidStep
  <1>4. mev \in BOOLEAN
    BY DEF IInv, TypeOK
  <1> QED BY <1>2, <1>3, <1>4 DEF Timeout, bid

LEMMA CancelStep == IInv /\ (Cancel \/ CancelEnds) => IInv'
  <1> SUFFICES ASSUME IInv, Cancel \/ CancelEnds PROVE IInv'
    OBVIOUS
  <1>1. pc # "idle" /\ GaveUp \in {"max gas", "exhausted"} /\ GaveUp \in Results
    BY DEF Cancel, CancelEnds, GaveUp, Results
  <1>2. CASE Return(GaveUp) /\ UNCHANGED chain
    BY <1>1, <1>2, ReturnsNow
  <1>3. CASE /\ Accept(nonce, CancelTx)
             /\ pc' \in {"cancelled", "cancelled max"}
             /\ UNCHANGED <<calls, bid, overdue, results>>
    <2>1. /\ CancelTx \in Tx /\ CancelTx.call = calls
          /\ MinTip <= CancelTx.tip /\ CancelTx.tip <= CancelTx.fee /\ CancelTx.fee <= MaxFee
      BY <1>1, OurTxs
    <2>2. /\ UNCHANGED <<calls, nonce, tip, feeCap, attempt, cur, published, results>>
          /\ mev' \in BOOLEAN /\ overdue' \in BOOLEAN
      BY <1>3 DEF bid, IInv, TypeOK
    <2> QED BY <1>1, <1>3, <2>1, <2>2, TurnsToCancel
  <1> QED BY <1>2, <1>3 DEF Cancel, CancelEnds

-----------------------------------------------------------------------------
(* The theorems.                                                           *)

LEMMA InitIInv == Init => IInv
  <1> SUFFICES ASSUME Init PROVE IInv
    OBVIOUS
  <1>1. /\ pc = "idle" /\ calls = 0 /\ published = {} /\ avail = [n \in Nonces |-> {}]
        /\ mined = [n \in Nonces |-> NoTx] /\ pool = [n \in Nonces |-> NoTx]
        /\ results = [c \in Calls |-> "none"]
    BY DEF Init
  <1>2. TypeOK
    <2>1. 0 \in 0..MaxCalls
      BY NumberFacts
    <2> QED BY <2>1, NumberFacts DEF Init, TypeOK
  <1>3. BidInPolicy /\ Outbid /\ OurNonce
    BY <1>1 DEF BidInPolicy, Outbid, OurNonce
  <1>4. FeesWithinPolicy /\ CallsMade /\ OneNonce /\ MayExecute
    BY <1>1 DEF FeesWithinPolicy, CallsMade, OneNonce, MayExecute
  <1>5. MinedWasAccepted /\ PooledWasAccepted /\ PublishedIsOurs
    BY <1>1 DEF MinedWasAccepted, PooledWasAccepted, PublishedIsOurs
  <1>6. NoResultYet /\ OkMeansExecuted
    BY <1>1 DEF NoResultYet, OkMeansExecuted
  <1> QED BY <1>2, <1>3, <1>4, <1>5, <1>6 DEF IInv

LEMMA NextIInv == IInv /\ [Next]_vars => IInv'
  <1> SUFFICES ASSUME IInv, [Next]_vars PROVE IInv'
    OBVIOUS
  <1>1. CASE Environment \/ Begin \/ BeginFails
    BY <1>1, EnvironmentStep, BeginStep, BeginFailsStep
  <1>2. CASE Step
    BY <1>2, SendAcceptedStep, SendNonceTooLowStep, SendUnderpricedStep, SendErrorStep,
       SendFailsStep, ReceiveReceiptStep, TimeoutStep, CancelStep DEF Step
  <1>3. CASE UNCHANGED vars
    <2>1. TypeOK' /\ BidInPolicy' /\ FeesWithinPolicy' /\ Outbid'
      BY <1>3 DEF vars, IInv, TypeOK, BidInPolicy, FeesWithinPolicy, Outbid, CallTx
    <2>2. CallsMade' /\ OurNonce' /\ OneNonce' /\ MinedWasAccepted' /\ PooledWasAccepted'
      BY <1>3 DEF vars, IInv, CallsMade, OurNonce, OneNonce, MinedWasAccepted, PooledWasAccepted
    <2>3. PublishedIsOurs' /\ NoResultYet' /\ MayExecute'
      BY <1>3 DEF vars, IInv, PublishedIsOurs, NoResultYet, MayExecute
    <2>4. OkMeansExecuted'
      BY <1>3 DEF vars, IInv, OkMeansExecuted
    <2> QED BY <2>1, <2>2, <2>3, <2>4 DEF IInv
  <1> QED BY <1>1, <1>2, <1>3 DEF Next

LEMMA SpecIInv == Spec => []IInv
  BY InitIInv, NextIInv, PTL DEF Spec

\* The pool, the chain, the manager's locals and results keep their types.
THEOREM TxTypeCorrect == Spec => []TypeOK
  <1>1. IInv => TypeOK
    BY DEF IInv
  <1> QED BY <1>1, SpecIInv, PTL

\* No transaction the manager lets out bids above max_fee_per_gas, a tip above
\* its fee cap or below the minimum tip, for every policy and any sequence of
\* bumps, suggestions and cancellations (bumpOrResuggest, suggestGasFees,
\* cancelTx).
THEOREM TxFeesWithinPolicy == Spec => []FeesWithinPolicy
  <1>1. IInv => FeesWithinPolicy
    BY DEF IInv
  <1> QED BY <1>1, SpecIInv, PTL

\* A receipt the call returns is that of its own payload (findMinedReceipt,
\* handleReceipt).
THEOREM TxOkMeansExecuted == Spec => []OkMeansExecuted
  <1>1. IInv => OkMeansExecuted
    BY DEF IInv
  <1> QED BY <1>1, SpecIInv, PTL

\* The node never refuses a bid as underpriced against the one before it: a
\* bump of at least ten percent, rounded down, covers what the pool asks from
\* ten units of fee on (applyBumpPercent, TxPolicy.Validate).
THEOREM TxBumpIsReplacement == Spec => []BumpIsReplacement
  <1>1. IInv => BumpIsReplacement
    <2> SUFFICES ASSUME IInv, pc = "send" PROVE Answer(nonce, CallTx) # "underpriced"
      BY DEF BumpIsReplacement
    <2>1. CallTx \in Tx /\ nonce \in Nonces
      BY OurTxs
    <2> QED BY <2>1, AnswerFacts DEF IInv, Outbid
  <1> QED BY <1>1, SpecIInv, PTL

\* A call's payload is executed at most once, however many versions of it were
\* let out, evicted, replaced or cancelled (SendTransaction).
THEOREM TxExecutedOnce == Spec => []ExecutedOnce
  <1>1. IInv => ExecutedOnce
    BY DEF IInv, ExecutedOnce, OneNonce, MinedWasAccepted
  <1> QED BY <1>1, SpecIInv, PTL

-----------------------------------------------------------------------------
(* SendTransaction implements TxService.                                   *)

\* The executions of a call, when it has none and when it has one.
LEMMA ReceiptsFacts ==
    ASSUME IInv, NEW c \in Calls, NEW n \in Nonces
    PROVE  /\ (\E tx \in avail[n] : tx.call = c) /\ mined[n] = NoTx => ReceiptsOf(c) = {}
           /\ mined[n] # NoTx /\ mined[n].call = c /\ mined[n].kind = "call" =>
                 ReceiptsOf(c) = {<<n, status[n]>>}
  <1>1. ASSUME NEW tx \in avail[n], tx.call = c,
               NEW m \in Nonces, mined[m] # NoTx, mined[m].call = c
        PROVE  m = n
    BY <1>1 DEF IInv, MinedWasAccepted, OneNonce
  <1>2. ASSUME NEW tx \in avail[n], tx.call = c, mined[n] = NoTx PROVE ReceiptsOf(c) = {}
    BY <1>1, <1>2 DEF ReceiptsOf
  <1>3. ASSUME mined[n] # NoTx, mined[n].call = c, mined[n].kind = "call"
        PROVE  ReceiptsOf(c) = {<<n, status[n]>>}
    <2>1. mined[n] \in avail[n]
      BY <1>3 DEF IInv, MinedWasAccepted
    <2>2. {m \in Nonces : mined[m] # NoTx /\ mined[m].call = c /\ mined[m].kind = "call"} = {n}
      BY <1>1, <1>3, <2>1
    <2> QED BY <2>2 DEF ReceiptsOf
  <1> QED BY <1>2, <1>3

LEMMA ReceiptsKept ==
    ASSUME UNCHANGED <<mined, status>>
    PROVE  [c \in Calls |-> ReceiptsOf(c)]' = [c \in Calls |-> ReceiptsOf(c)]
  BY DEF ReceiptsOf

\* A block executes the payload of a call that runs or whose fate is unknown,
\* or mines a cancellation, which is no execution.
LEMMA MineExecutes ==
    ASSUME IInv, Mine PROVE Service!Execute \/ UNCHANGED Service!vars
  <1> DEFINE rec == [c \in Calls |-> ReceiptsOf(c)]
  <1>1. PICK n \in Nonces : /\ mined[n] = NoTx
                            /\ \E tx \in avail[n] :
                                  /\ mined' = [mined EXCEPT ![n] = tx]
                                  /\ \E s \in {"ok", "reverted"} :
                                        status' = [status EXCEPT ![n] = s]
    BY DEF Mine
  <1>2. PICK tx \in avail[n] : /\ mined' = [mined EXCEPT ![n] = tx]
                               /\ \E s \in {"ok", "reverted"} : status' = [status EXCEPT ![n] = s]
    BY <1>1
  <1>3. PICK s \in {"ok", "reverted"} : status' = [status EXCEPT ![n] = s]
    BY <1>2
  <1>4. /\ mined \in [Nonces -> Tx \cup {NoTx}]
        /\ status \in [Nonces -> {"none", "ok", "reverted"}]
        /\ tx \in Tx /\ tx # NoTx /\ tx.call \in Calls /\ tx.call <= calls
    BY NumberFacts, NoTxAssumption DEF IInv, TypeOK, CallsMade
  <1>5. /\ mined'[n] = tx /\ status'[n] = s
        /\ \A m \in Nonces : m # n => mined'[m] = mined[m] /\ status'[m] = status[m]
    BY <1>2, <1>3, <1>4
  <1>6. UNCHANGED <<calls, pc, results>>
    BY DEF Mine
  <1>7. ASSUME NEW c \in Calls, c # tx.call \/ tx.kind # "call"
        PROVE  ReceiptsOf(c)' = ReceiptsOf(c)
    <2> DEFINE M  == {m \in Nonces : mined[m] # NoTx /\ mined[m].call = c /\ mined[m].kind = "call"}
               Mp == {m \in Nonces : mined'[m] # NoTx /\ mined'[m].call = c /\ mined'[m].kind = "call"}
    <2>1. Mp = M /\ n \notin M
      BY <1>1, <1>5, <1>7
    <2>2. ReceiptsOf(c) = {<<m, status[m]>> : m \in M} /\ ReceiptsOf(c)' = {<<m, status'[m]>> : m \in Mp}
      BY DEF ReceiptsOf
    <2>3. \A m \in M : status'[m] = status[m]
      BY <1>5, <2>1
    <2> QED BY <2>1, <2>2, <2>3
  <1>8. CASE tx.kind # "call"
    <2>1. rec' = rec
      BY <1>7, <1>8
    <2> QED BY <1>6, <2>1 DEF Service!vars
  <1>9. CASE tx.kind = "call"
    <2>1. ReceiptsOf(tx.call) = {}
      BY <1>1, <1>4, ReceiptsFacts
    <2>2. ReceiptsOf(tx.call)' = {<<n, s>>}
      <3>1. {m \in Nonces : mined'[m] # NoTx /\ mined'[m].call = tx.call /\ mined'[m].kind = "call"} = {n}
        <4>1. ASSUME NEW m \in Nonces, m # n, mined'[m] # NoTx, mined'[m].call = tx.call PROVE FALSE
          <5>1. mined[m] \in avail[m]
            BY <1>5, <4>1 DEF IInv, MinedWasAccepted
          <5> QED BY <1>5, <4>1, <5>1 DEF IInv, OneNonce
        <4> QED BY <1>4, <1>5, <1>9, <4>1
      <3> QED BY <1>5, <3>1 DEF ReceiptsOf
    <2>3. rec' = [rec EXCEPT ![tx.call] = {<<n, s>>}]
      BY <1>4, <1>7, <2>2
    <2>4. (tx.call = calls /\ pc # "idle") \/ results[tx.call] \in {"error", "max gas", "exhausted"}
      BY <1>1, <1>9 DEF IInv, MayExecute
    <2>5. tx.call \in 1..calls
      <3>1. calls \in Nat /\ tx.call \in Nat /\ tx.call >= 1
        BY <1>4, NumberFacts DEF IInv, TypeOK
      <3> QED BY <1>4, <3>1
    <2>6. rec[tx.call] = {}
      BY <1>4, <2>1
    <2> HIDE DEF rec
    <2> QED BY <1>6, <2>3, <2>4, <2>5, <2>6 DEF Service!Execute, Service!Unknown, rec
  <1> QED BY <1>8, <1>9

\* A return of the manager is one of the service: a receipt is returned as the
\* only execution of the call.
LEMMA ReturnReturns ==
    ASSUME IInv, pc # "idle", UNCHANGED <<mined, status>>,
           NEW r \in {"ok", "reverted", "nonce", "error", "max gas", "exhausted"}, Return(r),
           r \in {"ok", "reverted"} => mined[nonce] \in published /\ r = status[nonce]
    PROVE  Service!Return
  <1> DEFINE rec == [c \in Calls |-> ReceiptsOf(c)]
  <1>1. /\ pc' = "idle" /\ results' = [results EXCEPT ![calls] = r] /\ UNCHANGED calls
    BY DEF Return
  <1>2. rec' = rec
    BY ReceiptsKept
  <1>3. r \in {"ok", "reverted"} => \E n \in Nonces : rec[calls] = {<<n, r>>}
    <2> SUFFICES ASSUME r \in {"ok", "reverted"} PROVE rec[calls] = {<<nonce, r>>} /\ nonce \in Nonces
      OBVIOUS
    <2>1. calls \in Calls /\ nonce \in Nonces
      BY OurTxs
    <2>2. mined[nonce] # NoTx
      BY ReceiptFacts
    <2>3. mined[nonce].call = calls /\ mined[nonce].kind = "call"
      BY DEF IInv, PublishedIsOurs
    <2>4. ReceiptsOf(calls) = {<<nonce, status[nonce]>>}
      BY <2>1, <2>2, <2>3, ReceiptsFacts
    <2> QED BY <2>1, <2>4
  <1>4. r \in {"ok", "reverted"} \cup Service!Unknown \cup Service!Settled
    BY DEF Service!Unknown, Service!Settled
  <1>5. (pc' # "idle") = FALSE
    BY <1>1
  <1> HIDE DEF rec
  <1> QED BY <1>1, <1>2, <1>3, <1>4, <1>5 DEF Service!Return, rec

\* A step of the call that does not return is invisible.
LEMMA Hidden ==
    ASSUME UNCHANGED <<mined, status, calls, results>>, (pc' # "idle") = (pc # "idle")
    PROVE  UNCHANGED Service!vars
  <1>1. [c \in Calls |-> ReceiptsOf(c)]' = [c \in Calls |-> ReceiptsOf(c)]
    BY ReceiptsKept
  <1> QED BY <1>1 DEF Service!vars

LEMMA StepServes ==
    ASSUME IInv, Step PROVE Service!Return \/ UNCHANGED Service!vars
  <1>1. pc # "idle" /\ UNCHANGED <<mined, status>>
    BY DEF Step, SendOk, SendMEV, SendNonceTooLow, SendUnderpriced, SendError, SendFails,
       ReceiveReceipt, Timeout, Cancel, CancelEnds, Accept, chain
  <1>2. CASE pc' # "idle" /\ UNCHANGED <<calls, results>>
    BY <1>1, <1>2, Hidden
  <1>3. ASSUME NEW r \in {"nonce", "error", "max gas", "exhausted"}, Return(r) PROVE Service!Return
    BY <1>1, <1>3, ReturnReturns
  <1>4. ASSUME mined[nonce] \in published, Return(status[nonce]) PROVE Service!Return
    <2>1. status[nonce] \in {"ok", "reverted"}
      BY <1>4, ReceiptFacts
    <2> QED BY <1>1, <1>4, <2>1, ReturnReturns
  <1>5. CASE SendOk \/ SendMEV
    BY <1>2, <1>5 DEF SendOk, SendMEV, Publish
  <1>6. CASE SendNonceTooLow
    BY <1>3, <1>4, <1>6 DEF SendNonceTooLow
  <1>7. CASE SendUnderpriced
    BY <1>1, <1>2, <1>7 DEF SendUnderpriced
  <1>8. CASE SendError
    BY <1>1, <1>2, <1>3, <1>8 DEF SendError
  <1>9. CASE SendFails
    BY <1>3, <1>9 DEF SendFails
  <1>10. CASE ReceiveReceipt
    <2>1. mined[nonce] \in published
      BY <1>10 DEF ReceiveReceipt, IInv, PublishedIsOurs
    <2> QED BY <1>4, <1>10, <2>1 DEF ReceiveReceipt
  <1>11. CASE Timeout
    BY <1>2, <1>11 DEF Timeout
  <1>12. CASE Cancel \/ CancelEnds
    <2>1. GaveUp \in {"nonce", "error", "max gas", "exhausted"}
      BY DEF GaveUp
    <2> QED BY <1>2, <1>3, <1>12, <2>1 DEF Cancel, CancelEnds
  <1> QED BY <1>5, <1>6, <1>7, <1>8, <1>9, <1>10, <1>11, <1>12 DEF Step

LEMMA ServiceStep ==
    ASSUME IInv, [Next]_vars PROVE [Service!Next]_(Service!vars)
  <1>1. CASE Mine
    BY <1>1, MineExecutes DEF Service!Next
  <1>2. CASE Evict \/ NewBlock \/ WaitRunsOut
    <2>1. UNCHANGED <<mined, status, calls, results, pc>>
      BY <1>2 DEF Evict, NewBlock, WaitRunsOut, chain
    <2> QED BY <2>1, Hidden
  <1>3. CASE Begin
    <2>1. /\ pc = "idle" /\ calls < MaxCalls /\ calls' = calls + 1 /\ pc' = "send"
          /\ UNCHANGED <<results, mined, status>>
      BY <1>3 DEF Begin, chain
    <2>2. [c \in Calls |-> ReceiptsOf(c)]' = [c \in Calls |-> ReceiptsOf(c)]
      BY <2>1, ReceiptsKept
    <2>3. ~(pc # "idle") /\ (pc' # "idle") = TRUE
      BY <2>1
    <2>4. Service!Begin
      BY <2>1, <2>2, <2>3 DEF Service!Begin
    <2> QED BY <2>4 DEF Service!Next
  <1>4. CASE BeginFails
    <2>1. /\ pc = "idle" /\ calls < MaxCalls /\ calls' = calls + 1
          /\ \E r \in {"simulated", "error"} : results' = [results EXCEPT ![calls + 1] = r]
          /\ UNCHANGED <<pc, mined, status>>
      BY <1>4 DEF BeginFails, chain
    <2>2. [c \in Calls |-> ReceiptsOf(c)]' = [c \in Calls |-> ReceiptsOf(c)]
      BY <2>1, ReceiptsKept
    <2>3. ~(pc # "idle") /\ (pc' # "idle") = (pc # "idle")
      BY <2>1
    <2>4. Service!Refuse
      BY <2>1, <2>2, <2>3 DEF Service!Refuse
    <2> QED BY <2>4 DEF Service!Next
  <1>5. CASE Step
    BY <1>5, StepServes DEF Service!Next
  <1>6. CASE UNCHANGED vars
    <2>1. UNCHANGED <<mined, status, calls, results, pc>>
      BY <1>6 DEF vars
    <2> QED BY <2>1, Hidden
  <1> QED BY <1>1, <1>2, <1>3, <1>4, <1>5, <1>6 DEF Next, Environment

\* Bidding, replacing, cancelling and giving up implement one plain call: it is
\* executed at most once, never after the manager reported its nonce as used
\* or refused to send it, and a receipt is returned only as the chain has it
\* (SendTransaction).
THEOREM TxImplementsService == Spec => ImplementsTxService
  <1>1. Init => Service!Init
    <2> SUFFICES ASSUME Init PROVE Service!Init
      OBVIOUS
    <2>1. /\ mined = [n \in Nonces |-> NoTx] /\ calls = 0 /\ pc = "idle"
          /\ results = [c \in Calls |-> "none"]
      BY DEF Init
    <2>2. \A c \in Calls : ReceiptsOf(c) = {}
      BY <2>1 DEF ReceiptsOf
    <2>3. (pc # "idle") = FALSE
      BY <2>1
    <2> QED BY <2>1, <2>2, <2>3 DEF Service!Init, Service!Calls, Calls
  <1>2. IInv /\ [Next]_vars => [Service!Next]_(Service!vars)
    BY ServiceStep
  <1> QED BY <1>1, <1>2, SpecIInv, PTL DEF Spec, ImplementsTxService, Service!Spec

=============================================================================
