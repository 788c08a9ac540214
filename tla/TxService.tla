------------------------------ MODULE TxService -----------------------------
(***************************************************************************)
(* What SendTransaction promises the oracle and the updater, whatever      *)
(* fees, nodes and timeouts do underneath: calls one at a time, each       *)
(* executed at most once, and a result that says what is known of that.    *)
(***************************************************************************)
EXTENDS Integers

CONSTANTS MaxCalls,  \* bound: calls made
          Nonces     \* account nonces under which a call may be mined

Calls == 1..MaxCalls

VARIABLES calls,     \* calls made so far
          open,      \* is the last one still running?
          receipts,  \* executions of each call: nonce and status
          results    \* what each call returned

vars == <<calls, open, receipts, results>>

\* Results after which the call may still be executed, and the one after
\* which it may not, although it may have been before.
Unknown == {"error", "max gas", "exhausted"}
Settled == {"nonce"}

Init == /\ calls = 0 /\ open = FALSE
        /\ receipts = [c \in Calls |-> {}]
        /\ results = [c \in Calls |-> "none"]

Begin == /\ ~open /\ calls < MaxCalls
         /\ calls' = calls + 1 /\ open' = TRUE
         /\ UNCHANGED <<receipts, results>>

\* Refused before anything is sent.
Refuse == /\ ~open /\ calls < MaxCalls
          /\ calls' = calls + 1
          /\ \E r \in {"simulated", "error"} : results' = [results EXCEPT ![calls'] = r]
          /\ UNCHANGED <<open, receipts>>

\* A call is executed while it runs, or after it returned without knowing.
Execute == /\ \E c \in 1..calls : \E n \in Nonces, s \in {"ok", "reverted"} :
                 /\ receipts[c] = {}
                 /\ (c = calls /\ open) \/ results[c] \in Unknown
                 /\ receipts' = [receipts EXCEPT ![c] = {<<n, s>>}]
           /\ UNCHANGED <<calls, open, results>>

\* A receipt is returned only as it is.
Return == /\ open
          /\ \E r \in {"ok", "reverted"} \cup Unknown \cup Settled :
                /\ r \in {"ok", "reverted"} => \E n \in Nonces : receipts[calls] = {<<n, r>>}
                /\ results' = [results EXCEPT ![calls] = r]
          /\ open' = FALSE
          /\ UNCHANGED <<calls, receipts>>

Next == Begin \/ Refuse \/ Execute \/ Return

Spec == Init /\ [][Next]_vars

=============================================================================
