-------------------------- MODULE CheckpointStream --------------------------
(***************************************************************************)
(* The stream of finalized checkpoints from the beacon node to the oracle: *)
(* SubscribeFinalizedCheckpoints and fetchCheckpoint of                    *)
(* eth/beacon/client.go, the retries of eth/retry.go around the fetch, and *)
(* the select loop of Oracle.Run.  Three goroutines share a channel of     *)
(* capacity one: the event handler sends on it and drops what does not     *)
(* fit, the closer closes it when the context is done, and Run receives.   *)
(* The beacon node and its client library are external: they finalize      *)
(* epochs and call the handler with one event at a time, in order.         *)
(***************************************************************************)
EXTENDS Integers, Sequences, SequencesExt

CONSTANTS MaxEpoch,     \* bound: the epochs the chain finalizes
          MaxRetries    \* RetryConfig.MaxRetries of the beacon client

ASSUME StreamAssumption == MaxEpoch \in Nat \ {0} /\ MaxRetries \in Nat

Epochs == 0 .. MaxEpoch

VARIABLES
    finalized,   \* the finalized epoch of the chain
    ctxDone,     \* the context was cancelled
    events,      \* events the library has not yet passed to the handler
    subscribed,  \* c.beacon.Events was called
    handler,     \* the handler's call: [pc, epoch, attempt, live]
    ch,          \* the buffer of the channel
    closed,      \* close(ch) was called
    run,         \* where Oracle.Run is
    result,      \* what Oracle.Run returned
    start,       \* the epoch GetFinalizedEpoch returned when Run started
    received,    \* ghost: the checkpoints Run received, in order
    lost,        \* ghost: the epochs whose checkpoint was logged as lost
    panicked     \* a send on the closed channel ended the process

vars == <<finalized, ctxDone, events, subscribed, handler, ch, closed, run,
          result, start, received, lost, panicked>>

NoCall == [pc |-> "idle", epoch |-> 0, attempt |-> 0, live |-> TRUE]

TypeOK ==
    /\ finalized \in Epochs
    /\ events \in Seq(Epochs)
    /\ handler \in [pc : {"idle", "call", "delay", "send"}, epoch : Epochs,
                    attempt : 0 .. MaxRetries, live : BOOLEAN]
    /\ ch \in Seq(Epochs) /\ Len(ch) <= 1
    /\ run \in {"subscribe", "read", "wait", "busy", "returned"}
    /\ result \in {"none", "ctx", "closed", "error", "genesis"}
    /\ start \in Epochs
    /\ {ctxDone, subscribed, closed, panicked} \subseteq BOOLEAN

Init ==
    /\ finalized \in {0, 1}
    /\ events = <<>> /\ ch = <<>> /\ received = <<>> /\ lost = {}
    /\ handler = NoCall
    /\ run = "subscribe" /\ result = "none" /\ start = 0
    /\ ctxDone = FALSE /\ subscribed = FALSE /\ closed = FALSE /\ panicked = FALSE

(***************************************************************************)
(* The beacon node.  While it has a subscriber, a finalized epoch becomes  *)
(* an event, or is missed while the library reconnects.                    *)
(***************************************************************************)
Finalize ==
    /\ finalized < MaxEpoch
    /\ finalized' = finalized + 1
    /\ \/ /\ subscribed /\ ~ctxDone
          /\ events' = Append(events, finalized')
          /\ UNCHANGED lost
       \/ /\ subscribed
          /\ lost' = lost \cup {finalized'}
          /\ UNCHANGED events
       \/ /\ ~subscribed
          /\ UNCHANGED <<events, lost>>
    /\ UNCHANGED <<ctxDone, subscribed, handler, ch, closed, run, result,
                   start, received, panicked>>

(* A signal, or another service of the group that fails. *)
Cancel ==
    /\ ~ctxDone
    /\ ctxDone' = TRUE
    /\ UNCHANGED <<finalized, events, subscribed, handler, ch, closed, run,
                   result, start, received, lost, panicked>>

-----------------------------------------------------------------------------
(* The event handler, called for one event after the other. *)
HandleEvent ==
    /\ handler.pc = "idle" /\ events # <<>>
    /\ handler' = [pc |-> "call", epoch |-> Head(events), attempt |-> 0,
                   live |-> ~ctxDone]
    /\ events' = Tail(events)
    /\ UNCHANGED <<finalized, ctxDone, subscribed, ch, closed, run, result,
                   start, received, lost, panicked>>

(* A call begun before the cancellation may still be answered after it. *)
fetchCheckpoint ==
    /\ handler.pc = "call" /\ handler.live
    /\ handler' = [handler EXCEPT !.pc = "send"]
    /\ UNCHANGED <<finalized, ctxDone, events, subscribed, ch, closed, run,
                   result, start, received, lost, panicked>>

GiveUp ==
    /\ handler' = NoCall
    /\ lost' = lost \cup {handler.epoch}

\* Mutant: no attempt is the last one.
FetchFailsForever ==
    /\ handler.pc = "call"
    /\ handler' = [handler EXCEPT !.pc = "delay", !.attempt = 0]
    /\ UNCHANGED <<finalized, ctxDone, events, subscribed, ch, closed, run,
                   result, start, received, lost, panicked>>

(* A permanent error, or the last attempt, ends the call with a log line;  *)
(* any other error waits for the delay before the next attempt.            *)
FetchFails ==
    /\ handler.pc = "call"
    /\ \/ GiveUp
       \/ /\ handler.attempt < MaxRetries
          /\ handler' = [handler EXCEPT !.pc = "delay"]
          /\ UNCHANGED lost
    /\ UNCHANGED <<finalized, ctxDone, events, subscribed, ch, closed, run,
                   result, start, received, panicked>>

(* select: the timer, or the context; both may be ready. *)
WithRetryDelay ==
    /\ handler.pc = "delay"
    /\ \/ /\ handler' = [pc |-> "call", epoch |-> handler.epoch,
                         attempt |-> handler.attempt + 1, live |-> ~ctxDone]
          /\ UNCHANGED lost
       \/ ctxDone /\ GiveUp
    /\ UNCHANGED <<finalized, ctxDone, events, subscribed, ch, closed, run,
                   result, start, received, panicked>>

(* select { case ch <- checkpoint: default: }.  A send on a closed channel *)
(* panics, even in a select with a default, and the panic ends the process.*)
Send ==
    /\ handler.pc = "send"
    /\ handler' = NoCall
    /\ \/ closed /\ panicked' = TRUE /\ UNCHANGED <<ch, lost>>
       \/ ~closed /\ ch = <<>> /\ ch' = <<handler.epoch>> /\ UNCHANGED <<lost, panicked>>
       \/ ~closed /\ ch # <<>> /\ lost' = lost \cup {handler.epoch} /\ UNCHANGED <<ch, panicked>>
    /\ UNCHANGED <<finalized, ctxDone, events, subscribed, closed, run,
                   result, start, received>>

\* Mutant: the closer does not wait for the context.
CloseEarly ==
    /\ subscribed /\ ~closed
    /\ closed' = TRUE
    /\ UNCHANGED <<finalized, ctxDone, events, subscribed, handler, ch, run,
                   result, start, received, lost, panicked>>

(* The goroutine that waits for the context and closes the channel. *)
Close ==
    /\ subscribed /\ ctxDone /\ ~closed
    /\ closed' = TRUE
    /\ UNCHANGED <<finalized, ctxDone, events, subscribed, handler, ch, run,
                   result, start, received, lost, panicked>>

-----------------------------------------------------------------------------
(* Oracle.Run. *)
Return(r) ==
    /\ run' = "returned" /\ result' = r
    /\ UNCHANGED <<finalized, ctxDone, events, handler, ch, start, received,
                   lost, panicked>>

(* SubscribeFinalizedCheckpoints: Events may fail, then the channel is     *)
(* closed by the caller and no closer is started.                          *)
Subscribe ==
    \/ /\ subscribed' = TRUE /\ run' = "read"
       /\ UNCHANGED <<finalized, ctxDone, events, handler, ch, closed, result,
                      start, received, lost, panicked>>
    \/ closed' = TRUE /\ Return("error") /\ UNCHANGED subscribed

GetFinalizedEpoch ==
    \/ Return("error") /\ UNCHANGED <<subscribed, closed>>
    \/ finalized = 0 /\ Return("genesis") /\ UNCHANGED <<subscribed, closed>>
    \/ /\ finalized > 0 /\ ~ctxDone
       /\ start' = finalized /\ run' = "wait"
       /\ UNCHANGED <<finalized, ctxDone, events, subscribed, handler, ch,
                      closed, result, received, lost, panicked>>

\* Mutant: the epoch is read before the subscription.
RunStartReadsFirst ==
    \/ /\ run = "subscribe" /\ finalized > 0
       /\ start' = finalized /\ run' = "read"
       /\ UNCHANGED <<finalized, ctxDone, events, subscribed, handler, ch,
                      closed, result, received, lost, panicked>>
    \/ /\ run = "read"
       /\ subscribed' = TRUE /\ run' = "wait"
       /\ UNCHANGED <<finalized, ctxDone, events, handler, ch, closed, result,
                      start, received, lost, panicked>>

(* Run subscribes first and reads the finalized epoch after. *)
RunStart ==
    \/ run = "subscribe" /\ Subscribe
    \/ run = "read" /\ GetFinalizedEpoch

(* The select of the loop: whatever is ready. *)
RunSelect ==
    /\ run = "wait"
    /\ \/ ctxDone /\ Return("ctx") /\ UNCHANGED <<subscribed, closed>>
       \/ /\ ch # <<>>
          /\ received' = Append(received, Head(ch)) /\ ch' = <<>>
          /\ run' = IF Head(ch) = 0 THEN "wait" ELSE "busy"
          /\ UNCHANGED <<finalized, ctxDone, events, subscribed, handler,
                         closed, result, start, lost, panicked>>
       \/ /\ ch = <<>> /\ closed
          /\ Return(IF ctxDone THEN "ctx" ELSE "closed")
          /\ UNCHANGED <<subscribed, closed>>

(* The checkpoint is skipped, missed or committed (module OracleCommit). *)
RunHandled ==
    /\ run = "busy" /\ run' = "wait"
    /\ UNCHANGED <<finalized, ctxDone, events, subscribed, handler, ch,
                   closed, result, start, received, lost, panicked>>

(* The process is gone after a panic. *)
Live(A) == ~panicked /\ A

Handler == Live(HandleEvent \/ fetchCheckpoint \/ FetchFails \/ WithRetryDelay \/ Send)
Run == Live(RunStart \/ RunSelect \/ RunHandled)
Closer == Live(Close)

Next == Live(Finalize) \/ Live(Cancel) \/ Handler \/ Run \/ Closer

Spec == Init /\ [][Next]_vars

(***************************************************************************)
(* Goroutines that can run do run, every request of the client ends (its   *)
(* HTTP timeouts), and a Run that returned cancels the group's context.    *)
(***************************************************************************)
FairSpec ==
    /\ Spec
    /\ WF_vars(Handler) /\ WF_vars(Run) /\ WF_vars(Closer)
    /\ WF_vars(run = "returned" /\ Live(Cancel))

-----------------------------------------------------------------------------
(***************************************************************************)
(* Run subscribes before it reads the finalized epoch, so no epoch falls   *)
(* between the two: every epoch finalized after the one the first target   *)
(* is computed from was received, is still on its way, or was logged as    *)
(* lost (dropped by the full channel, not fetched, missed by the library). *)
(***************************************************************************)
EveryCheckpointAccounted ==
    run \in {"wait", "busy"} /\ ~panicked =>
        \A e \in start + 1 .. finalized :
            \/ e \in ToSet(received) \cup ToSet(events) \cup ToSet(ch) \cup lost
            \/ handler.pc # "idle" /\ handler.epoch = e

(***************************************************************************)
(* Run ends with "finalized checkpoint subscription closed" in no          *)
(* interleaving of the closer and the cancellation: a shutdown is never    *)
(* reported as a failed subscription.                                      *)
(***************************************************************************)
ShutdownIsNotAnError == result # "closed"

(***************************************************************************)
(* Once the context is cancelled all three goroutines end: Run returns,    *)
(* the channel is closed, and no handler is left waiting on a channel      *)
(* nobody reads (or the process panicked: see NoSendAfterClose).           *)
(***************************************************************************)
ShutdownCompletes ==
    ctxDone ~> \/ panicked
               \/ run = "returned" /\ closed /\ handler.pc = "idle"

(***************************************************************************)
(* "Close the context to stop the subscription": cancelling the context    *)
(* stops the stream; the handler never sends on the channel once it is     *)
(* closed.                                                                 *)
(***************************************************************************)
NoSendAfterClose == ~panicked
=============================================================================
