------------------------------ MODULE TxManager -----------------------------
(***************************************************************************)
(* TxManager.SendTransaction (txmanager/manager.go): one contract call,    *)
(* bid for with rising fees under a fixed nonce until it is mined, its     *)
(* cancellation when it gives up, and what nodes do with the transactions. *)
(*                                                                         *)
(* The node's pool keeps one transaction per nonce and replaces it only    *)
(* for ten percent more, in tip and fee cap.  A transaction once accepted  *)
(* anywhere may still be mined, even after it was replaced or evicted.     *)
(* Calls are serialised by the manager's mutex; a mined transaction is     *)
(* final.  Fees are in units in which the minimum tip is MinTip.           *)
(***************************************************************************)
EXTENDS Integers, FiniteSets

CONSTANTS
    MaxCalls,       \* bound: calls of SendTransaction
    MaxAttempts,    \* policy.MaxAttempts
    MaxFee,         \* policy.MaxFeePerGas
    GasBumpPercent, \* policy.GasBumpPercent
    MinTip,         \* minTipCap
    BaseFees,       \* base fees a block may have
    Tips,           \* tips the node may suggest
    NoTx

ASSUME PolicyAssumption == /\ MaxCalls \in Nat \ {0}
                           /\ MaxAttempts \in Nat \ {0}
                           /\ GasBumpPercent \in Nat /\ GasBumpPercent >= 10
                           /\ MinTip \in Nat /\ MinTip >= 10
                           /\ MaxFee \in Nat /\ MaxFee >= MinTip
                           /\ BaseFees \subseteq Nat /\ Tips \subseteq Nat

VARIABLES
    \* The nodes and the chain, by nonce.
    pool,      \* the transaction the node's pool holds
    avail,     \* every transaction some node or relay has accepted
    mined,     \* the transaction that was mined
    status,    \* its receipt status
    baseFee,   \* base fee of the latest block
    \* The manager.
    pc,
    calls,     \* calls made so far; the number of the current call
    nonce, tip, feeCap, attempt, mev,
    cur,       \* the transaction of the current attempt
    published, \* publishedTxs of the current call
    overdue,   \* the wait for a receipt has run out
    results    \* what each call returned

chain   == <<pool, avail, mined, status, baseFee>>
bid     == <<nonce, tip, feeCap, attempt, mev, cur, published>>
vars    == <<pool, avail, mined, status, baseFee, pc, calls, nonce, tip, feeCap,
             attempt, mev, cur, published, overdue, results>>

Calls  == 1..MaxCalls
Nonces == 0..(MaxCalls - 1)

MinOf(a, b) == IF a <= b THEN a ELSE b
MaxOf(a, b) == IF a >= b THEN a ELSE b

Tx == [call : Calls, kind : {"call", "cancel"}, tip : Nat, fee : Nat]

ASSUME NoTxAssumption == NoTx \notin Tx

CallTx   == [call |-> calls, kind |-> "call", tip |-> tip, fee |-> feeCap]

Init ==
    /\ pool = [n \in Nonces |-> NoTx]
    /\ avail = [n \in Nonces |-> {}]
    /\ mined = [n \in Nonces |-> NoTx]
    /\ status = [n \in Nonces |-> "none"]
    /\ baseFee \in BaseFees
    /\ pc = "idle" /\ calls = 0
    /\ nonce = 0 /\ tip = 0 /\ feeCap = 0 /\ attempt = 0 /\ mev = FALSE
    /\ cur = NoTx /\ published = {} /\ overdue = FALSE
    /\ results = [c \in Calls |-> "none"]

-----------------------------------------------------------------------------
(* Fees.                                                                   *)

ApplyBumpPercent(v) == (v * (100 + GasBumpPercent)) \div 100

\* suggestGasFees for a suggested tip t and the latest base fee b; it is an
\* error when b is above the cap.
SuggestedFee(t, b) == MinOf(2 * b + MaxOf(t, MinTip), MaxFee)
SuggestedTip(t, b) == MinOf(MaxOf(t, MinTip), SuggestedFee(t, b))

\* bumpOrResuggest asks for a cancellation: the raised bid is above the cap,
\* or it reads a base fee that is.
ShouldCancel == ApplyBumpPercent(feeCap) > MaxFee \/ baseFee > MaxFee

\* Mutant: the fresh suggestion replaces the bid, higher or not.
RebidFresh ==
    \E t \in Tips :
        /\ tip' = SuggestedTip(t, baseFee)
        /\ feeCap' = SuggestedFee(t, baseFee)

\* Mutant: the bid is raised without regard to the cap.
RebidUncapped ==
    /\ tip' = ApplyBumpPercent(tip)
    /\ feeCap' = ApplyBumpPercent(feeCap) + MaxFee

\* bumpOrResuggest otherwise: the higher of the raised bid and a fresh
\* suggestion, or the raised bid when the node gives none.
Rebid ==
    /\ ApplyBumpPercent(feeCap) <= MaxFee
    /\ \/ tip' = ApplyBumpPercent(tip) /\ feeCap' = ApplyBumpPercent(feeCap)
       \/ \E t \in Tips :
             /\ baseFee <= MaxFee
             /\ tip' = MaxOf(ApplyBumpPercent(tip), SuggestedTip(t, baseFee))
             /\ feeCap' = MaxOf(ApplyBumpPercent(feeCap), SuggestedFee(t, baseFee))

\* The fee cap, and tip, of the cancelling transaction.
CancelFee == MinOf(ApplyBumpPercent(feeCap), MaxFee)
CancelTx  == [call |-> calls, kind |-> "cancel", tip |-> CancelFee, fee |-> CancelFee]

-----------------------------------------------------------------------------
(* The nodes.                                                              *)

Replaces(new, old) == /\ new.fee > old.fee /\ new.tip > old.tip
                      /\ new.fee >= (old.fee * 110) \div 100
                      /\ new.tip >= (old.tip * 110) \div 100

\* The node's answer to eth_sendRawTransaction of tx under nonce n.
Answer(n, tx) ==
    IF mined[n] # NoTx THEN "nonce too low"
    ELSE IF pool[n] = tx THEN "already known"
    ELSE IF pool[n] # NoTx /\ ~Replaces(tx, pool[n]) THEN "underpriced"
    ELSE "ok"

Accept(n, tx) == /\ pool' = [pool EXCEPT ![n] = tx]
                 /\ avail' = [avail EXCEPT ![n] = @ \cup {tx}]
                 /\ UNCHANGED <<mined, status, baseFee>>

\* A block includes the next transaction of our account, any version of it
\* that a node ever accepted and whose fee cap covers the base fee.
Mine ==
    /\ \E n \in Nonces :
          /\ mined[n] = NoTx /\ \A m \in Nonces : m < n => mined[m] # NoTx
          /\ \E tx \in avail[n] :
                /\ tx.fee >= baseFee
                /\ mined' = [mined EXCEPT ![n] = tx]
                /\ \E s \in {"ok", "reverted"} :
                      /\ tx.kind = "cancel" => s = "ok"
                      /\ status' = [status EXCEPT ![n] = s]
          /\ pool' = [pool EXCEPT ![n] = NoTx]
    /\ UNCHANGED <<avail, baseFee, pc, calls, bid, overdue, results>>

\* The node forgets a pending transaction.
Evict ==
    /\ \E n \in Nonces : pool[n] # NoTx /\ pool' = [pool EXCEPT ![n] = NoTx]
    /\ UNCHANGED <<avail, mined, status, baseFee, pc, calls, bid, overdue, results>>

NewBlock ==
    /\ baseFee' \in BaseFees \ {baseFee}
    /\ UNCHANGED <<pool, avail, mined, status, pc, calls, bid, overdue, results>>

\* The receipt is being waited for, of the call or of its cancellation.
Waiting == pc \in {"wait", "cancelled", "cancelled max"}

\* The node's head has advanced PendingTimeoutBlocks since the wait began; or
\* the node failed to tell it, at the start or three times in a row.
WaitRunsOut ==
    /\ Waiting /\ ~overdue
    /\ overdue' = TRUE
    /\ UNCHANGED <<chain, pc, calls, bid, results>>

-----------------------------------------------------------------------------
(* SendTransaction.                                                        *)

Return(r) ==
    /\ pc' = "idle"
    /\ results' = [results EXCEPT ![calls] = r]
    /\ cur' = NoTx /\ published' = {} /\ attempt' = 0 /\ tip' = 0 /\ feeCap' = 0
    /\ mev' = FALSE /\ nonce' = 0 /\ overdue' = FALSE
    /\ UNCHANGED calls

\* PendingNonceAt: the first nonce that is neither mined nor in the pool.
PendingNonce(n) ==
    /\ mined[n] = NoTx /\ pool[n] = NoTx
    /\ \A m \in Nonces : m < n => mined[m] # NoTx \/ pool[m] # NoTx

\* The call takes the mutex, estimates gas and fees and reads the nonce once.
Begin ==
    /\ pc = "idle" /\ calls < MaxCalls
    /\ calls' = calls + 1
    /\ baseFee <= MaxFee
    /\ \E n \in Nonces : PendingNonce(n) /\ nonce' = n
    /\ \E t \in Tips : /\ tip' = SuggestedTip(t, baseFee)
                       /\ feeCap' = SuggestedFee(t, baseFee)
    /\ mev' \in BOOLEAN
    /\ attempt' = 1 /\ cur' = NoTx /\ published' = {}
    /\ pc' = "send"
    /\ UNCHANGED <<overdue, results>>
    /\ UNCHANGED chain

\* The simulation of the gas estimate reverts, or an estimate or the nonce
\* fails: the call returns before anything is sent.
BeginFails ==
    /\ pc = "idle" /\ calls < MaxCalls
    /\ calls' = calls + 1
    /\ \E r \in {"simulated", "error"} :
          results' = [results EXCEPT ![calls + 1] = r]
    /\ UNCHANGED <<chain, pc, bid, overdue>>

\* The attempt is published (or already was) and its receipt awaited.
Publish ==
    /\ cur' = CallTx
    /\ published' = published \cup {CallTx}
    /\ pc' = "wait"
    /\ UNCHANGED <<calls, nonce, tip, feeCap, attempt, mev, overdue, results>>

\* The node takes the transaction, sent to it directly or after every
\* private relay failed.
SendOk ==
    /\ pc = "send"
    /\ \/ Answer(nonce, CallTx) = "ok" /\ Accept(nonce, CallTx)
       \/ Answer(nonce, CallTx) = "already known" /\ UNCHANGED chain
    /\ Publish

\* A private relay takes the transaction; the node's pool does not see it.
SendMEV ==
    /\ pc = "send" /\ mev
    /\ avail' = [avail EXCEPT ![nonce] = @ \cup {CallTx}]
    /\ UNCHANGED <<pool, mined, status, baseFee>>
    /\ Publish

\* Mutant: whatever was mined under the nonce is taken for this call.
SendNonceTooLowAny ==
    /\ pc = "send" /\ mined[nonce] # NoTx
    /\ Return(status[nonce])
    /\ UNCHANGED chain

\* Mutant: "already known" is read as a used nonce.
SendNonceTooLowOrKnown ==
    /\ pc = "send" /\ Answer(nonce, CallTx) \in {"nonce too low", "already known"}
    /\ \/ mined[nonce] \in published /\ Return(status[nonce])
       \/ Return("nonce")
    /\ UNCHANGED chain

\* Nonce too low: one of our versions was mined while we waited for another,
\* or a transaction of an earlier call was.  A version whose sending failed
\* is not among the published ones, and the receipt may not be served.
SendNonceTooLow ==
    /\ pc = "send" /\ mined[nonce] # NoTx
    /\ \/ mined[nonce] \in published /\ Return(status[nonce])
       \/ Return("nonce")
    /\ UNCHANGED chain

\* Rejected as a replacement, or for a fee cap below the base fee: bid again,
\* or cancel at the cap or when no attempt is left.
SendUnderpriced ==
    /\ pc = "send" /\ mined[nonce] = NoTx
    /\ Answer(nonce, CallTx) = "underpriced" \/ feeCap < baseFee
    /\ \/ /\ ShouldCancel
          /\ pc' = "cancel max"
          /\ UNCHANGED <<calls, bid, results>>
       \/ /\ Rebid
          /\ IF attempt = MaxAttempts
             THEN pc' = "cancel" /\ UNCHANGED attempt
             ELSE attempt' = attempt + 1 /\ UNCHANGED pc
          /\ UNCHANGED <<calls, nonce, mev, cur, published, results>>
    /\ UNCHANGED overdue
    /\ UNCHANGED chain

\* Mutant: a failed send does not count as an attempt.
SendErrorForever ==
    /\ pc = "send"
    /\ \/ UNCHANGED chain
       \/ Answer(nonce, CallTx) = "ok" /\ Accept(nonce, CallTx)
    /\ UNCHANGED <<pc, calls, bid, overdue, results>>

\* Another error, with or without the transaction having reached the node:
\* the same bid is sent again, or the call fails at the last attempt.
SendError ==
    /\ pc = "send"
    /\ \/ UNCHANGED chain
       \/ Answer(nonce, CallTx) = "ok" /\ Accept(nonce, CallTx)
    /\ IF attempt < MaxAttempts
       THEN /\ attempt' = attempt + 1
            /\ UNCHANGED <<pc, calls, nonce, tip, feeCap, mev, cur, published, overdue, results>>
       ELSE Return("error")

\* No funds, no signature, or a cancelled context.
SendFails ==
    /\ pc \in {"send", "wait"}
    /\ Return("error")
    /\ UNCHANGED chain

ReceiveReceipt ==
    /\ pc = "wait" /\ mined[nonce] = cur
    /\ Return(status[nonce])
    /\ UNCHANGED chain

\* Mutant: the next attempt asks the node for the nonce again.
TimeoutFreshNonce ==
    /\ pc = "wait" /\ overdue /\ overdue' = FALSE
    /\ attempt < MaxAttempts /\ Rebid
    /\ \E n \in Nonces : PendingNonce(n) /\ nonce' = n
    /\ pc' = "send" /\ mev' = FALSE /\ attempt' = attempt + 1
    /\ UNCHANGED <<calls, cur, published, results>>
    /\ UNCHANGED chain

\* waitForReceipt gives up: bid higher through the node, or cancel.
Timeout ==
    /\ pc = "wait" /\ overdue /\ overdue' = FALSE
    /\ \/ /\ attempt = MaxAttempts
          /\ pc' = "cancel"
          /\ UNCHANGED <<calls, bid, results>>
       \/ /\ attempt < MaxAttempts /\ ShouldCancel
          /\ pc' = "cancel max" /\ mev' = FALSE
          /\ UNCHANGED <<calls, nonce, tip, feeCap, attempt, cur, published, results>>
       \/ /\ attempt < MaxAttempts /\ Rebid
          /\ pc' = "send" /\ mev' = FALSE /\ attempt' = attempt + 1
          /\ UNCHANGED <<calls, nonce, cur, published, results>>
    /\ UNCHANGED chain

\* What the call returns after its cancellation, whatever became of that.
GaveUp == IF pc \in {"cancel max", "cancelled max"} THEN "max gas" ELSE "exhausted"

\* cancelTx: a self-transfer that replaces the call, capped at the same
\* maximum; a failure is only logged.
Cancel ==
    /\ pc \in {"cancel", "cancel max"}
    /\ \/ /\ Answer(nonce, CancelTx) = "ok"
          /\ Accept(nonce, CancelTx)
          /\ pc' = IF pc = "cancel max" THEN "cancelled max" ELSE "cancelled"
          /\ UNCHANGED <<calls, bid, overdue, results>>
       \/ Return(GaveUp) /\ UNCHANGED chain

\* The cancellation is mined, the wait for it runs out or the context is
\* cancelled: the call has given up in any case.
CancelEnds ==
    /\ pc \in {"cancelled", "cancelled max"}
    /\ Return(GaveUp)
    /\ UNCHANGED chain

-----------------------------------------------------------------------------

Environment == Mine \/ Evict \/ NewBlock \/ WaitRunsOut

Step == \/ SendOk \/ SendMEV \/ SendNonceTooLow \/ SendUnderpriced
        \/ SendError \/ SendFails \/ ReceiveReceipt \/ Timeout \/ Cancel \/ CancelEnds

Next == Environment \/ Begin \/ BeginFails \/ Step

Spec == Init /\ [][Next]_vars

\* What the manager does by itself: it sends and cancels, and notices that a
\* wait has run out.  Receipts, and the end of a wait, come from the node.
OwnStep == \/ SendOk \/ SendMEV \/ SendNonceTooLow \/ SendUnderpriced
           \/ SendError \/ Timeout \/ Cancel
           \/ overdue /\ CancelEnds

\* The manager's goroutine keeps running, and each request to the node returns
\* an answer or an error; which one, and whether the head moves, is open.
FairSpec == Spec /\ WF_vars(OwnStep)

-----------------------------------------------------------------------------
(* Properties.                                                             *)

\* Types of the pool, the chain and the manager's locals.
TypeOK ==
    /\ pool \in [Nonces -> Tx \cup {NoTx}]
    /\ avail \in [Nonces -> SUBSET Tx]
    /\ mined \in [Nonces -> Tx \cup {NoTx}]
    /\ status \in [Nonces -> {"none", "ok", "reverted"}]
    /\ baseFee \in BaseFees
    /\ pc \in {"idle", "send", "wait", "cancel", "cancel max", "cancelled", "cancelled max"}
    /\ calls \in 0..MaxCalls
    /\ nonce \in Nonces /\ tip \in Nat /\ feeCap \in Nat
    /\ attempt \in 0..MaxAttempts /\ mev \in BOOLEAN
    /\ cur \in Tx \cup {NoTx} /\ published \subseteq Tx /\ overdue \in BOOLEAN
    /\ results \in [Calls -> {"none", "ok", "reverted", "nonce", "error", "simulated",
                              "max gas", "exhausted"}]

\* No transaction the manager lets out, cancellations included, bids above
\* max_fee_per_gas or a tip above its fee cap, through any sequence of bumps
\* and fresh suggestions (bumpOrResuggest, suggestGasFees, cancelTx).
FeesWithinPolicy ==
    \A n \in Nonces : \A tx \in avail[n] :
        MinTip <= tx.tip /\ tx.tip <= tx.fee /\ tx.fee <= MaxFee

\* A receipt the call returns, success or revert, is the receipt of its own
\* payload: never of a cancellation or of another call that used its nonce
\* (findMinedReceipt, handleReceipt).
OkMeansExecuted ==
    \A c \in Calls : results[c] \in {"ok", "reverted"} =>
        \E n \in Nonces : /\ mined[n] # NoTx
                          /\ mined[n].call = c /\ mined[n].kind = "call"
                          /\ status[n] = results[c]

\* The node never refuses a new bid as a replacement of the last: the bump
\* covers the pool's ten percent after rounding, whatever was suggested,
\* sent, evicted or lost before (applyBumpPercent, TxPolicy.Validate).
BumpIsReplacement ==
    pc = "send" => Answer(nonce, CallTx) # "underpriced"

\* One call is executed at most once, however often it was bid for: all its
\* versions share the nonce read at the start.
ExecutedOnce ==
    \A n, m \in Nonces :
        /\ mined[n] # NoTx /\ mined[m] # NoTx
        /\ mined[n].kind = "call" /\ mined[m].kind = "call"
        /\ mined[n].call = mined[m].call
        => n = m

\* Executions of call c: where its payload was mined, and how it ended.
ReceiptsOf(c) == {<<n, status[n]>> : n \in {m \in Nonces : mined[m] # NoTx
                                                /\ mined[m].call = c
                                                /\ mined[m].kind = "call"}}

\* The bidding, replacing and cancelling implement one plain call
\* (TxService): executed at most once, never after the manager reported its
\* nonce as used or refused to send it, and a receipt is returned only as the
\* chain has it (SendTransaction).
Service == INSTANCE TxService WITH open <- pc # "idle",
                                   receipts <- [c \in Calls |-> ReceiptsOf(c)]
ImplementsTxService == Service!Spec

\* No wait for a receipt lasts for ever: it ends, or the node's head advances
\* (or the node stops answering) until it has run out.
HeadAdvances == Waiting ~> (overdue \/ ~Waiting)

\* As long as the node's head advances, or the node does not answer, a call of
\* SendTransaction returns and releases the mutex: failing, underpriced and
\* timed-out attempts in any order use up MaxAttempts, and a cancellation is
\* waited for once.  No receipt and no block with our transaction is needed.
\* A node that answers with one block for ever holds the call for as long
\* (waitForReceipt counts blocks, not time).
SendReturns == HeadAdvances => (pc # "idle" ~> pc = "idle")

=============================================================================
