---------------------------- MODULE BeaconProofs ----------------------------
(***************************************************************************)
(* The beacon client's two services to the oracle.  The checkpoint stream  *)
(* loses no checkpoint unnoticed, however many epochs and retries there    *)
(* are (CheckpointStream); the balances a commit is built from are exact,  *)
(* for every set of validators, batch size and order of answers            *)
(* (ClusterBalances).                                                      *)
(***************************************************************************)
EXTENDS CheckpointStream, ClusterBalances, BasicFacts, FiniteSetTheorems

-----------------------------------------------------------------------------
(* The elements of a sequence.                                             *)

\* Append adds one element.
LEMMA ToSetAppend ==
    ASSUME NEW B, NEW s \in Seq(B), NEW e \in B
    PROVE  ToSet(Append(s, e)) = ToSet(s) \cup {e}
  <1> DEFINE t == Append(s, e)
  <1>1. /\ t \in Seq(B) /\ Len(t) = Len(s) + 1
        /\ \A k \in 1..Len(s) : t[k] = s[k]
        /\ t[Len(s) + 1] = e
    BY AppendFacts
  <1>2. DOMAIN s = 1..Len(s) /\ DOMAIN t = 1..(Len(s) + 1) /\ Len(s) \in Nat
    BY <1>1
  <1> HIDE DEF t
  <1>3. ASSUME NEW x \in ToSet(t) PROVE x \in ToSet(s) \cup {e}
    <2>1. PICK k \in 1..(Len(s) + 1) : x = t[k]
      BY <1>2, <1>3 DEF ToSet
    <2>2. k \in 1..Len(s) \/ k = Len(s) + 1
      BY <1>2
    <2> QED BY <1>1, <1>2, <2>1, <2>2 DEF ToSet
  <1>4. ASSUME NEW x \in ToSet(s) PROVE x \in ToSet(t)
    <2>1. PICK k \in 1..Len(s) : x = s[k]
      BY <1>2, <1>4 DEF ToSet
    <2>2. k \in 1..(Len(s) + 1) /\ t[k] = x
      BY <1>1, <1>2, <2>1
    <2> QED BY <1>2, <2>2 DEF ToSet
  <1>5. e \in ToSet(t)
    <2>1. Len(s) + 1 \in 1..(Len(s) + 1)
      BY <1>2
    <2> QED BY <1>1, <1>2, <2>1 DEF ToSet
  <1> QED BY <1>3, <1>4, <1>5 DEF t

\* Tail drops one occurrence of the head, and nothing else.
LEMMA ToSetTail ==
    ASSUME NEW B, NEW s \in Seq(B), s # <<>>
    PROVE  ToSet(s) = {Head(s)} \cup ToSet(Tail(s))
  <1> DEFINE t == Tail(s)
  <1>1. /\ t \in Seq(B) /\ Len(s) \in Nat /\ Len(s) >= 1 /\ Len(t) = Len(s) - 1
        /\ \A k \in 1..(Len(s) - 1) : t[k] = s[k + 1]
        /\ Head(s) = s[1]
    BY TailFacts
  <1>2. DOMAIN s = 1..Len(s) /\ DOMAIN t = 1..(Len(s) - 1)
    BY <1>1
  <1> HIDE DEF t
  <1>3. ASSUME NEW x \in ToSet(s) PROVE x = s[1] \/ x \in ToSet(t)
    <2>1. PICK k \in 1..Len(s) : x = s[k]
      BY <1>2, <1>3 DEF ToSet
    <2>2. CASE k = 1
      BY <2>1, <2>2
    <2>3. CASE k # 1
      <3>1. k - 1 \in 1..(Len(s) - 1) /\ (k - 1) + 1 = k
        BY <1>1, <2>3
      <3>2. t[k - 1] = x
        BY <1>1, <2>1, <3>1
      <3> QED BY <1>2, <3>1, <3>2 DEF ToSet
    <2> QED BY <2>2, <2>3
  <1>4. ASSUME NEW x \in ToSet(t) PROVE x \in ToSet(s)
    <2>1. PICK k \in 1..(Len(s) - 1) : x = t[k]
      BY <1>2, <1>4 DEF ToSet
    <2>2. k + 1 \in 1..Len(s) /\ s[k + 1] = x
      BY <1>1, <2>1
    <2> QED BY <1>2, <2>2 DEF ToSet
  <1>5. s[1] \in ToSet(s)
    <2>1. 1 \in 1..Len(s)
      BY <1>1
    <2> QED BY <1>2, <2>1 DEF ToSet
  <1> QED BY <1>1, <1>3, <1>4, <1>5 DEF t

\* A sequence of at most one element has its head and nothing else.
LEMMA ToSetShort ==
    ASSUME NEW B, NEW s \in Seq(B), Len(s) <= 1, s # <<>>
    PROVE  Head(s) \in B /\ ToSet(s) = {Head(s)}
  <1>1. Len(s) \in Nat /\ Len(s) >= 1 /\ Head(s) = s[1] /\ s[1] \in B
    BY TailFacts
  <1>2. DOMAIN s = 1..Len(s)
    OBVIOUS
  <1>3. DOMAIN s = {1}
    BY <1>1, <1>2
  <1> QED BY <1>1, <1>3 DEF ToSet

\* The sequence of one element.
LEMMA ToSetOne ==
    ASSUME NEW B, NEW e \in B
    PROVE  <<e>> \in Seq(B) /\ Len(<<e>>) = 1 /\ ToSet(<<e>>) = {e}
  <1>1. <<e>> \in Seq(B) /\ Len(<<e>>) = 1 /\ DOMAIN <<e>> = {1} /\ <<e>>[1] = e
    OBVIOUS
  <1> QED BY <1>1 DEF ToSet

-----------------------------------------------------------------------------
(* The inductive invariant.                                                *)

\* An epoch on its way to Run, received by it, or logged as lost.
Accounted(e) ==
    \/ e \in ToSet(received) \cup ToSet(events) \cup ToSet(ch) \cup lost
    \/ handler.pc # "idle" /\ handler.epoch = e

\* Run waits for checkpoints only once it has subscribed: from the epoch it
\* read at its start on, each finalized epoch becomes an event or is logged.
SubscribedFirst == run \in {"read", "wait", "busy"} => subscribed

\* The closer waits for the context; only a failed subscription closes the
\* channel before, and Run returns with it.
ClosedByContext == closed => ctxDone \/ run = "returned"

\* WithRetry waits for another attempt only while it has one left.
AttemptLeft == handler.pc = "delay" => handler.attempt < MaxRetries

IInv ==
    /\ TypeOK /\ received \in Seq(Epochs) /\ AttemptLeft
    /\ SubscribedFirst /\ ClosedByContext
    /\ EveryCheckpointAccounted /\ ShutdownIsNotAnError

LEMMA InitIInv == Init => IInv
  <1> SUFFICES ASSUME Init PROVE IInv
    OBVIOUS
  <1>1. 0 \in Epochs /\ 1 \in Epochs /\ MaxRetries \in Nat
    BY StreamAssumption DEF Epochs
  <1>2. TypeOK
    <2>1. handler \in [pc : {"idle", "call", "delay", "send"}, epoch : Epochs,
                       attempt : 0 .. MaxRetries, live : BOOLEAN]
      BY <1>1 DEF Init, NoCall
    <2>2. {ctxDone, subscribed, closed, panicked} \subseteq BOOLEAN
      BY DEF Init
    <2> QED BY <1>1, <2>1, <2>2 DEF Init, TypeOK
  <1> QED BY <1>2 DEF Init, NoCall, IInv, AttemptLeft, SubscribedFirst, ClosedByContext,
                      EveryCheckpointAccounted, ShutdownIsNotAnError

\* It is enough that a step finalizes nothing, moves no start, and drops no
\* epoch that was accounted for.
LEMMA StillAccounted ==
    ASSUME EveryCheckpointAccounted,
           finalized' = finalized, start' = start, ~panicked,
           run' \in {"wait", "busy"} => run \in {"wait", "busy"},
           \A e : panicked' \/ (Accounted(e) => Accounted(e)')
    PROVE  EveryCheckpointAccounted'
  BY DEF EveryCheckpointAccounted, Accounted

\* The beacon node finalizes the next epoch.
LEMMA FinalizeIInv ==
    ASSUME IInv, Live(Finalize) PROVE IInv'
  <1> USE DEF Live
  <1>1. /\ finalized \in Epochs /\ finalized' \in Epochs /\ finalized' = finalized + 1
        /\ start \in Epochs /\ MaxEpoch \in Nat
    BY StreamAssumption DEF IInv, TypeOK, Finalize, Epochs
  <1>2. events' \in Seq(Epochs) /\ ToSet(events) \subseteq ToSet(events')
        /\ lost \subseteq lost'
        /\ (subscribed => finalized' \in ToSet(events') \cup lost')
    <2>1. events \in Seq(Epochs)
      BY DEF IInv, TypeOK
    <2>2. CASE events' = Append(events, finalized') /\ UNCHANGED lost
      BY <1>1, <2>1, <2>2, ToSetAppend, AppendFacts
    <2>3. CASE UNCHANGED events /\ lost' = lost \cup {finalized'}
      BY <2>1, <2>3
    <2>4. CASE UNCHANGED <<events, lost>> /\ ~subscribed
      BY <2>1, <2>4
    <2> QED BY <2>2, <2>3, <2>4 DEF Finalize
  <1>3. TypeOK'
    BY <1>1, <1>2 DEF IInv, TypeOK, Finalize
  <1>4. EveryCheckpointAccounted'
    <2> SUFFICES ASSUME run \in {"wait", "busy"}, NEW e \in (start + 1 .. finalized')
                 PROVE  Accounted(e)'
      BY DEF Finalize, EveryCheckpointAccounted, Accounted
    <2>1. e \in start + 1 .. finalized \/ e = finalized'
      BY <1>1 DEF Epochs
    <2>2. CASE e \in start + 1 .. finalized
      <3>1. Accounted(e)
        BY <2>2 DEF IInv, EveryCheckpointAccounted, Accounted
      <3> QED BY <1>2, <3>1 DEF Accounted, Finalize
    <2>3. CASE e = finalized'
      <3>1. subscribed
        BY DEF IInv, SubscribedFirst
      <3> QED BY <1>2, <2>3, <3>1 DEF Accounted
    <2> QED BY <2>1, <2>2, <2>3
  <1> QED BY <1>3, <1>4 DEF IInv, Finalize, AttemptLeft, SubscribedFirst, ClosedByContext,
                            ShutdownIsNotAnError

LEMMA CancelIInv ==
    ASSUME IInv, Live(Cancel) PROVE IInv'
  <1> USE DEF Live
  <1>1. TypeOK'
    BY DEF IInv, TypeOK, Cancel
  <1>2. EveryCheckpointAccounted'
    BY StillAccounted DEF IInv, Cancel, Accounted
  <1> QED BY <1>1, <1>2 DEF IInv, Cancel, AttemptLeft, SubscribedFirst, ClosedByContext,
                            ShutdownIsNotAnError

LEMMA CloseIInv ==
    ASSUME IInv, Closer PROVE IInv'
  <1> USE DEF Live, Closer
  <1>1. TypeOK'
    BY DEF IInv, TypeOK, Close
  <1>2. EveryCheckpointAccounted'
    BY StillAccounted DEF IInv, Close, Accounted
  <1> QED BY <1>1, <1>2 DEF IInv, Close, AttemptLeft, SubscribedFirst, ClosedByContext,
                            ShutdownIsNotAnError

\* The handler leaves Run, the closer and the node alone.
LEMMA HandlerFrame ==
    ASSUME IInv, Handler
    PROVE  /\ UNCHANGED <<finalized, ctxDone, subscribed, closed, run, result,
                          start, received>>
           /\ ~panicked
  BY DEF Handler, Live, HandleEvent, fetchCheckpoint, FetchFails, WithRetryDelay,
         Send, GiveUp

\* The epoch in the handler's hands moves on to the channel or is logged.
LEMMA HandlerAccounts ==
    ASSUME IInv, Handler
    PROVE  TypeOK' /\ AttemptLeft' /\ (\A e : panicked' \/ (Accounted(e) => Accounted(e)'))
  <1> DEFINE Calls == [pc : {"idle", "call", "delay", "send"}, epoch : Epochs,
                       attempt : 0 .. MaxRetries, live : BOOLEAN]
  <1>1. /\ handler \in Calls /\ events \in Seq(Epochs) /\ ch \in Seq(Epochs)
        /\ Len(ch) <= 1 /\ ctxDone \in BOOLEAN /\ panicked \in BOOLEAN
    BY DEF IInv, TypeOK
  <1>2. 0 \in Epochs /\ MaxRetries \in Nat
    BY StreamAssumption DEF Epochs
  <1>3. NoCall \in Calls
    BY <1>2 DEF NoCall
  <1> DEFINE Typed == /\ handler' \in Calls /\ events' \in Seq(Epochs)
                      /\ ch' \in Seq(Epochs) /\ Len(ch') <= 1 /\ panicked' \in BOOLEAN
                      /\ AttemptLeft'
             Kept  == \A e : panicked' \/ (Accounted(e) => Accounted(e)')
  <1>4. Typed => TypeOK'
    <2>1. UNCHANGED <<finalized, ctxDone, subscribed, closed, run, result, start>>
      BY HandlerFrame
    <2> QED BY <2>1 DEF IInv, TypeOK
  <1>5. ASSUME HandleEvent PROVE Typed /\ Kept
    <2>1. /\ events # <<>> /\ events' = Tail(events) /\ handler.pc = "idle"
          /\ handler' = [pc |-> "call", epoch |-> Head(events), attempt |-> 0,
                         live |-> ~ctxDone]
          /\ UNCHANGED <<ch, received, lost, panicked>>
      BY <1>5 DEF HandleEvent
    <2>2. Head(events) \in Epochs /\ events' \in Seq(Epochs)
      BY <1>1, <2>1, TailFacts
    <2>3. Typed
      BY <1>1, <1>2, <2>1, <2>2 DEF AttemptLeft
    <2>4. ToSet(events) = {Head(events)} \cup ToSet(events')
      BY <1>1, <2>1, ToSetTail
    <2>5. handler'.pc # "idle" /\ handler'.epoch = Head(events)
      BY <2>1
    <2>6. Kept
      BY <2>1, <2>4, <2>5 DEF Accounted
    <2> QED BY <2>3, <2>6
  <1>6. ASSUME fetchCheckpoint PROVE Typed /\ Kept
    <2>1. Typed
      BY <1>1, <1>6 DEF fetchCheckpoint, AttemptLeft
    <2>2. handler'.pc # "idle" /\ handler'.epoch = handler.epoch
      BY <1>1, <1>6 DEF fetchCheckpoint
    <2>3. Kept
      BY <1>6, <2>2 DEF fetchCheckpoint, Accounted
    <2> QED BY <2>1, <2>3
  <1>7. ASSUME GiveUp, UNCHANGED <<events, ch, received, panicked>>
        PROVE  Typed /\ Kept
    <2>1. Typed
      BY <1>1, <1>3, <1>7 DEF GiveUp, NoCall, AttemptLeft
    <2>2. Kept
      BY <1>7 DEF GiveUp, Accounted
    <2> QED BY <2>1, <2>2
  <1>8. ASSUME FetchFails PROVE Typed /\ Kept
    <2>1. CASE GiveUp
      BY <1>7, <1>8, <2>1 DEF FetchFails
    <2>2. CASE /\ handler.attempt < MaxRetries
               /\ handler' = [handler EXCEPT !.pc = "delay"] /\ UNCHANGED lost
      <3>1. handler' \in Calls /\ handler'.pc # "idle" /\ handler'.epoch = handler.epoch
            /\ AttemptLeft'
        BY <1>1, <2>2 DEF AttemptLeft
      <3>2. UNCHANGED <<events, ch, received, panicked>>
        BY <1>8 DEF FetchFails
      <3>3. Typed
        BY <1>1, <3>1, <3>2
      <3>4. Kept
        BY <2>2, <3>1, <3>2 DEF Accounted
      <3> QED BY <3>3, <3>4
    <2> QED BY <1>8, <2>1, <2>2 DEF FetchFails
  <1>9. ASSUME WithRetryDelay PROVE Typed /\ Kept
    <2>1. CASE GiveUp
      BY <1>7, <1>9, <2>1 DEF WithRetryDelay
    <2>2. CASE /\ handler' = [pc |-> "call", epoch |-> handler.epoch,
                              attempt |-> handler.attempt + 1, live |-> ~ctxDone]
               /\ UNCHANGED lost
      <3>1. handler.attempt + 1 \in 0 .. MaxRetries
        BY <1>1, <1>2, <1>9 DEF WithRetryDelay, IInv, AttemptLeft
      <3>2. handler' \in Calls /\ handler'.pc # "idle" /\ handler'.epoch = handler.epoch
            /\ AttemptLeft'
        BY <1>1, <2>2, <3>1 DEF AttemptLeft
      <3>3. UNCHANGED <<events, ch, received, panicked>>
        BY <1>9 DEF WithRetryDelay
      <3>4. Typed
        BY <1>1, <3>2, <3>3
      <3>5. Kept
        BY <2>2, <3>2, <3>3 DEF Accounted
      <3> QED BY <3>4, <3>5
    <2> QED BY <1>9, <2>1, <2>2 DEF WithRetryDelay
  <1>10. ASSUME Send PROVE Typed /\ Kept
    <2>1. handler' = NoCall /\ handler.epoch \in Epochs
          /\ UNCHANGED <<events, received>>
      BY <1>1, <1>10 DEF Send
    <2>2. CASE closed /\ panicked' = TRUE /\ UNCHANGED <<ch, lost>>
      BY <1>1, <1>3, <2>1, <2>2 DEF NoCall, AttemptLeft
    <2>3. CASE /\ ch = <<>> /\ ch' = <<handler.epoch>>
               /\ UNCHANGED <<lost, panicked>>
      <3>1. ch' \in Seq(Epochs) /\ Len(ch') = 1 /\ ToSet(ch') = {handler.epoch}
        BY <2>1, <2>3, ToSetOne
      <3>2. ToSet(ch) = {}
        BY <2>3 DEF ToSet
      <3>3. Typed
        BY <1>1, <1>3, <2>1, <2>3, <3>1 DEF NoCall, AttemptLeft
      <3>4. Kept
        BY <2>1, <2>3, <3>1, <3>2 DEF Accounted
      <3> QED BY <3>3, <3>4
    <2>4. CASE /\ lost' = lost \cup {handler.epoch}
               /\ UNCHANGED <<ch, panicked>>
      BY <1>7, <2>1, <2>4 DEF GiveUp
    <2> QED BY <1>10, <2>2, <2>3, <2>4 DEF Send
  <1> HIDE DEF Typed, Kept
  <1>11. Typed /\ Kept
    BY <1>5, <1>6, <1>8, <1>9, <1>10 DEF Handler, Live
  <1> QED BY <1>4, <1>11 DEF Typed, Kept

LEMMA HandlerIInv ==
    ASSUME IInv, Handler PROVE IInv'
  <1>1. /\ UNCHANGED <<finalized, ctxDone, subscribed, closed, run, result,
                       start, received>>
        /\ ~panicked
    BY HandlerFrame
  <1>2. TypeOK' /\ AttemptLeft' /\ (\A e : panicked' \/ (Accounted(e) => Accounted(e)'))
    BY HandlerAccounts
  <1>3. EveryCheckpointAccounted'
    BY <1>1, <1>2, StillAccounted DEF IInv
  <1> QED BY <1>1, <1>2, <1>3 DEF IInv, AttemptLeft, SubscribedFirst, ClosedByContext,
                                  ShutdownIsNotAnError

\* Run starts: it subscribes, then reads the finalized epoch.  At that moment
\* there is no later epoch to account for.
LEMMA RunStartIInv ==
    ASSUME IInv, Live(RunStart) PROVE IInv'
  <1> USE DEF Live
  <1>1. CASE run = "subscribe" /\ Subscribe
    <2>1. TypeOK'
      BY <1>1 DEF IInv, TypeOK, Subscribe, Return
    <2>2. run' \in {"read", "returned"} /\ result' # "closed"
      BY <1>1 DEF IInv, ShutdownIsNotAnError, Subscribe, Return
    <2>3. (run' = "read" => subscribed' /\ closed' = closed)
          /\ UNCHANGED <<ctxDone, received, handler>>
      BY <1>1 DEF Subscribe, Return
    <2> QED BY <1>1, <2>1, <2>2, <2>3
            DEF IInv, AttemptLeft, SubscribedFirst, ClosedByContext, EveryCheckpointAccounted,
                ShutdownIsNotAnError
  <1>2. CASE run = "read" /\ GetFinalizedEpoch
    <2>1. TypeOK'
      BY <1>2 DEF IInv, TypeOK, GetFinalizedEpoch, Return
    <2>2. /\ UNCHANGED <<subscribed, closed, ctxDone, received, finalized, handler>>
          /\ result' # "closed" /\ run' \in {"wait", "returned"}
          /\ (run' = "wait" => start' = finalized)
      BY <1>2 DEF IInv, ShutdownIsNotAnError, GetFinalizedEpoch, Return
    <2>3. finalized + 1 .. finalized = {}
      BY DEF IInv, TypeOK, Epochs
    <2>4. EveryCheckpointAccounted'
      BY <2>2, <2>3 DEF EveryCheckpointAccounted
    <2> QED BY <1>2, <2>1, <2>2, <2>4
            DEF IInv, AttemptLeft, SubscribedFirst, ClosedByContext, ShutdownIsNotAnError
  <1> QED BY <1>1, <1>2 DEF RunStart

\* Run's loop: a received checkpoint leaves the channel for received.
LEMMA RunLoopIInv ==
    ASSUME IInv, Live(RunSelect \/ RunHandled) PROVE IInv'
  <1> USE DEF Live
  <1>1. CASE run = "wait" /\ (\E r \in {"ctx", "closed"} :
                 Return(r) /\ (r = "closed" => closed /\ ~ctxDone)
                           /\ UNCHANGED <<subscribed, closed>>)
    <2>1. result' = "ctx" /\ run' = "returned"
      BY <1>1 DEF Return, IInv, ClosedByContext
    <2>2. UNCHANGED <<finalized, ctxDone, events, handler, ch, start, received,
                      lost, panicked, subscribed, closed>>
      BY <1>1 DEF Return
    <2>3. TypeOK'
      BY <2>1, <2>2 DEF IInv, TypeOK
    <2> QED BY <2>1, <2>2, <2>3
            DEF IInv, AttemptLeft, SubscribedFirst, ClosedByContext, EveryCheckpointAccounted,
                ShutdownIsNotAnError
  <1>2. CASE /\ run = "wait" /\ ch # <<>>
             /\ received' = Append(received, Head(ch)) /\ ch' = <<>>
             /\ run' = IF Head(ch) = 0 THEN "wait" ELSE "busy"
             /\ UNCHANGED <<finalized, ctxDone, events, subscribed, handler,
                            closed, result, start, lost, panicked>>
    <2>1. ch \in Seq(Epochs) /\ Len(ch) <= 1 /\ received \in Seq(Epochs)
      BY DEF IInv, TypeOK
    <2>2. Head(ch) \in Epochs /\ ToSet(ch) = {Head(ch)}
      BY <1>2, <2>1, ToSetShort
    <2>3. received' \in Seq(Epochs) /\ ToSet(received') = ToSet(received) \cup {Head(ch)}
      BY <1>2, <2>1, <2>2, AppendFacts, ToSetAppend
    <2>4. ch' \in Seq(Epochs) /\ Len(ch') <= 1
      BY <1>2
    <2>5. TypeOK'
      BY <1>2, <2>4 DEF IInv, TypeOK
    <2>6. \A e : Accounted(e) => Accounted(e)'
      BY <1>2, <2>2, <2>3 DEF Accounted
    <2>7. EveryCheckpointAccounted'
      BY <1>2, <2>6, StillAccounted DEF IInv
    <2> QED BY <1>2, <2>3, <2>5, <2>7
            DEF IInv, AttemptLeft, SubscribedFirst, ClosedByContext, ShutdownIsNotAnError
  <1>3. CASE RunHandled
    <2>1. TypeOK'
      BY <1>3 DEF IInv, TypeOK, RunHandled
    <2>2. EveryCheckpointAccounted'
      BY <1>3, StillAccounted DEF IInv, RunHandled, Accounted
    <2> QED BY <1>3, <2>1, <2>2
            DEF IInv, RunHandled, AttemptLeft, SubscribedFirst, ClosedByContext, ShutdownIsNotAnError
  <1> QED BY <1>1, <1>2, <1>3 DEF RunSelect

LEMMA NextIInv ==
    ASSUME IInv, [Next]_vars PROVE IInv'
  <1>1. CASE Live(Finalize)
    BY <1>1, FinalizeIInv
  <1>2. CASE Live(Cancel)
    BY <1>2, CancelIInv
  <1>3. CASE Handler
    BY <1>3, HandlerIInv
  <1>4. CASE Run
    BY <1>4, RunStartIInv, RunLoopIInv DEF Run, Live
  <1>5. CASE Closer
    BY <1>5, CloseIInv
  <1>6. CASE UNCHANGED vars
    BY <1>6 DEF vars, IInv, TypeOK, AttemptLeft, SubscribedFirst, ClosedByContext,
                EveryCheckpointAccounted, ShutdownIsNotAnError
  <1> QED BY <1>1, <1>2, <1>3, <1>4, <1>5, <1>6 DEF Next

\* The inductive invariant holds in every reachable state.
THEOREM StreamInvariant == Spec => []IInv
  BY InitIInv, NextIInv, PTL DEF Spec

-----------------------------------------------------------------------------

\* Handler, closer, channel and Run keep their types.
THEOREM StreamTypeCorrect == Spec => []TypeOK
  BY StreamInvariant, PTL DEF IInv

\* Every epoch finalized after the one Run's first target is computed from was
\* received, is on its way or was logged as lost, whatever the beacon node, the
\* retries and the full channel do (SubscribeFinalizedCheckpoints, Oracle.Run).
THEOREM StreamLosesNothingUnnoticed == Spec => []EveryCheckpointAccounted
  BY StreamInvariant, PTL DEF IInv

\* No interleaving of the closer and the cancellation makes Run end with
\* "finalized checkpoint subscription closed" (Oracle.Run).
THEOREM StreamShutdownIsNotAnError == Spec => []ShutdownIsNotAnError
  BY StreamInvariant, PTL DEF IInv

-----------------------------------------------------------------------------
(* Sums over finite sets.                                                  *)

Pick(T) == CHOOSE x \in T : TRUE

\* One step of the recursion that SumFunctionOnSet is, and its function.
SumStep(f, g, T) == IF T = {} THEN 0 ELSE f[Pick(T)] + g[T \ {Pick(T)}]

IsSum(g, f, S) == g = [T \in SUBSET S |-> SumStep(f, g, T)]

\* A function that follows the recursion on the sets of at most n elements.
SumsUpto(g, f, S, n) ==
    /\ g = [T \in SUBSET S |-> g[T]]
    /\ \A T \in SUBSET S : Cardinality(T) <= n => g[T] = SumStep(f, g, T)

\* A set without its picked element is smaller.
LEMMA PickSmaller ==
    ASSUME NEW T, IsFiniteSet(T), T # {}
    PROVE  /\ Pick(T) \in T /\ IsFiniteSet(T \ {Pick(T)})
           /\ Cardinality(T) \in Nat /\ Cardinality(T) # 0
           /\ Cardinality(T \ {Pick(T)}) = Cardinality(T) - 1
  <1>1. Pick(T) \in T
    BY DEF Pick
  <1> QED BY <1>1, FS_RemoveElement, FS_CardinalityType, FS_EmptySet

\* The recursion over the subsets of a finite set has a solution.
LEMMA SumExists ==
    ASSUME NEW f, NEW S, IsFiniteSet(S)
    PROVE  \E g : IsSum(g, f, S)
  <1> DEFINE Bad == {n \in Nat : ~\E g : SumsUpto(g, f, S, n)}
  <1>1. \A T \in SUBSET S : IsFiniteSet(T) /\ Cardinality(T) \in Nat /\ Cardinality(T) <= Cardinality(S)
    BY FS_Subset, FS_CardinalityType
  <1>2. Bad = {}
    <2>1. SUFFICES ASSUME Bad # {} PROVE FALSE
      OBVIOUS
    <2>2. PICK n \in Bad : \A y \in Bad : n <= y
      <3>1. Bad \subseteq Nat
        OBVIOUS
      <3> HIDE DEF Bad
      <3> QED BY <2>1, <3>1, LeastNatural
    <2>3. n \in Nat
      OBVIOUS
    <2>4. CASE n = 0
      <3> DEFINE g == [T \in SUBSET S |-> 0]
      <3>1. ASSUME NEW T \in SUBSET S, Cardinality(T) <= 0 PROVE g[T] = SumStep(f, g, T)
        <4>1. T = {}
          BY <1>1, <3>1, FS_EmptySet
        <4> QED BY <4>1 DEF SumStep
      <3>2. SumsUpto(g, f, S, 0)
        BY <3>1 DEF SumsUpto
      <3> QED BY <2>4, <3>2
    <2>5. CASE n # 0
      <3>1. n - 1 \in Nat /\ n - 1 \notin Bad
        BY <2>2, <2>3, <2>5
      <3>2. PICK g : SumsUpto(g, f, S, n - 1)
        BY <3>1
      <3> DEFINE h == [T \in SUBSET S |-> SumStep(f, g, T)]
      <3>3. ASSUME NEW T \in SUBSET S, Cardinality(T) <= n PROVE h[T] = SumStep(f, h, T)
        <4>1. CASE T = {}
          BY <4>1 DEF SumStep
        <4>2. CASE T # {}
          <5> DEFINE U == T \ {Pick(T)}
          <5>1. U \in SUBSET S /\ Cardinality(U) = Cardinality(T) - 1
            BY <1>1, <4>2, PickSmaller
          <5>2. Cardinality(U) <= n - 1
            BY <1>1, <2>3, <3>3, <5>1
          <5>3. g[U] = SumStep(f, g, U)
            <6> HIDE DEF U
            <6> QED BY <3>2, <5>1, <5>2 DEF SumsUpto
          <5>4. h[U] = SumStep(f, g, U) /\ h[T] = SumStep(f, g, T)
            <6> HIDE DEF U
            <6> QED BY <5>1
          <5> HIDE DEF h
          <5> QED BY <4>2, <5>3, <5>4 DEF SumStep
        <4> QED BY <4>1, <4>2
      <3>4. SumsUpto(h, f, S, n)
        <4>1. h = [T \in SUBSET S |-> h[T]]
          OBVIOUS
        <4> HIDE DEF h
        <4> QED BY <3>3, <4>1 DEF SumsUpto
      <3> QED BY <3>4
    <2> QED BY <2>4, <2>5
  <1>3. Cardinality(S) \in Nat
    BY FS_CardinalityType
  <1>4. PICK g : SumsUpto(g, f, S, Cardinality(S))
    BY <1>2, <1>3
  <1>5. \A T \in SUBSET S : g[T] = SumStep(f, g, T)
    BY <1>1, <1>4 DEF SumsUpto
  <1>6. IsSum(g, f, S)
    BY <1>4, <1>5 DEF SumsUpto, IsSum
  <1> QED BY <1>6

\* SumFunctionOnSet is the value of that solution.
LEMMA SumIs ==
    ASSUME NEW f, NEW S, IsFiniteSet(S)
    PROVE  \E g : IsSum(g, f, S) /\ SumFunctionOnSet(f, S) = g[S]
  <1> DEFINE g == CHOOSE h : IsSum(h, f, S)
  <1>1. SumFunctionOnSet(f, S) = g[S]
    BY DEF SumFunctionOnSet, FoldFunctionOnSet, MapThenFoldSet, IsSum, SumStep, Pick
  <1>2. IsSum(g, f, S)
    BY SumExists
  <1> QED BY <1>1, <1>2

\* Two solutions agree where both are defined.
LEMMA SumsAgree ==
    ASSUME NEW f, NEW S, NEW R, IsFiniteSet(R), R \subseteq S,
           NEW g, IsSum(g, f, S), NEW h, IsSum(h, f, R)
    PROVE  g[R] = h[R]
  <1> DEFINE Bad == {n \in Nat : \E T \in SUBSET R : Cardinality(T) = n /\ g[T] # h[T]}
  <1>1. \A T \in SUBSET R : IsFiniteSet(T) /\ Cardinality(T) \in Nat
    BY FS_Subset, FS_CardinalityType
  <1>2. Bad = {}
    <2>1. SUFFICES ASSUME Bad # {} PROVE FALSE
      OBVIOUS
    <2>2. PICK n \in Bad : \A y \in Bad : n <= y
      <3>1. Bad \subseteq Nat
        OBVIOUS
      <3> HIDE DEF Bad
      <3> QED BY <2>1, <3>1, LeastNatural
    <2>3. PICK T \in SUBSET R : Cardinality(T) = n /\ g[T] # h[T]
      OBVIOUS
    <2>4. g[T] = SumStep(f, g, T) /\ h[T] = SumStep(f, h, T)
      BY DEF IsSum
    <2>5. T # {}
      BY <2>3, <2>4 DEF SumStep
    <2> DEFINE U == T \ {Pick(T)}
    <2>6. U \in SUBSET R /\ Cardinality(U) = n - 1 /\ n \in Nat /\ n - 1 \in Nat
      BY <1>1, <2>3, <2>5, PickSmaller
    <2>7. n - 1 \notin Bad
      BY <2>2, <2>6
    <2>8. g[U] = h[U]
      <3> HIDE DEF U
      <3> QED BY <2>6, <2>7
    <2> QED BY <2>3, <2>4, <2>5, <2>8 DEF SumStep
  <1> QED BY <1>1, <1>2

\* The recursion, stated of SumFunctionOnSet.
LEMMA SumPick ==
    ASSUME NEW f, NEW S, IsFiniteSet(S)
    PROVE  /\ S = {} => SumFunctionOnSet(f, S) = 0
           /\ S # {} => SumFunctionOnSet(f, S) =
                            f[Pick(S)] + SumFunctionOnSet(f, S \ {Pick(S)})
  <1>1. PICK g : IsSum(g, f, S) /\ SumFunctionOnSet(f, S) = g[S]
    BY SumIs
  <1>2. g[S] = SumStep(f, g, S)
    BY <1>1 DEF IsSum
  <1>3. CASE S = {}
    BY <1>1, <1>2, <1>3 DEF SumStep
  <1>4. CASE S # {}
    <2> DEFINE R == S \ {Pick(S)}
    <2>1. IsFiniteSet(R) /\ R \subseteq S
      BY <1>4, PickSmaller
    <2>2. PICK h : IsSum(h, f, R) /\ SumFunctionOnSet(f, R) = h[R]
      <3> HIDE DEF R
      <3> QED BY <2>1, SumIs
    <2>3. g[R] = h[R]
      <3> HIDE DEF R
      <3> QED BY <1>1, <2>1, <2>2, SumsAgree
    <2> QED BY <1>1, <1>2, <1>4, <2>2, <2>3 DEF SumStep
  <1> QED BY <1>3, <1>4

\* Sums of naturals are naturals, and any element may be taken out first.
LEMMA SumAnyOrder ==
    ASSUME NEW f, NEW R, IsFiniteSet(R), \A x \in R : f[x] \in Nat
    PROVE  /\ SumFunctionOnSet(f, R) \in Nat
           /\ \A x \in R : SumFunctionOnSet(f, R) = f[x] + SumFunctionOnSet(f, R \ {x})
  <1> DEFINE Sum(S) == SumFunctionOnSet(f, S)
             P(S) == Sum(S) \in Nat /\ \A x \in S : Sum(S) = f[x] + Sum(S \ {x})
             Bad == {n \in Nat : \E S \in SUBSET R : Cardinality(S) = n /\ ~P(S)}
  <1>1. \A S \in SUBSET R : IsFiniteSet(S) /\ Cardinality(S) \in Nat
    BY FS_Subset, FS_CardinalityType
  <1>2. Bad = {}
    <2>1. SUFFICES ASSUME Bad # {} PROVE FALSE
      OBVIOUS
    <2>2. PICK n \in Bad : \A y \in Bad : n <= y
      <3>1. Bad \subseteq Nat
        OBVIOUS
      <3> HIDE DEF Bad
      <3> QED BY <2>1, <3>1, LeastNatural
    <2>3. PICK S \in SUBSET R : Cardinality(S) = n /\ ~P(S)
      OBVIOUS
    <2>4. n \in Nat
      OBVIOUS
    <2>5. CASE S = {}
      <3>1. Sum(S) = 0
        BY <1>1, <2>5, SumPick
      <3> QED BY <2>3, <2>5, <3>1
    <2>6. CASE S # {}
      <3> DEFINE c == Pick(S)
      <3>1. c \in S /\ Sum(S) = f[c] + Sum(S \ {c})
        BY <1>1, <2>6, SumPick, PickSmaller
      <3>2. ASSUME NEW x \in S
            PROVE  S \ {x} \in SUBSET R /\ P(S \ {x})
        <4>1. Cardinality(S \ {x}) = n - 1 /\ n # 0
          BY <1>1, <2>3, FS_RemoveElement, FS_EmptySet
        <4>2. n - 1 \in Nat /\ n - 1 \notin Bad
          BY <2>2, <2>4, <4>1
        <4>3. S \ {x} \in SUBSET R
          OBVIOUS
        <4> HIDE DEF P
        <4> QED BY <4>1, <4>2, <4>3
      <3> HIDE DEF c
      <3>3. Sum(S \ {c}) \in Nat /\ \A x \in S \ {c} : Sum(S \ {c}) = f[x] + Sum((S \ {c}) \ {x})
        BY <3>1, <3>2
      <3>4. f[c] \in Nat /\ \A x \in S : f[x] \in Nat
        BY <3>1
      <3>5. ASSUME NEW x \in S PROVE Sum(S) = f[x] + Sum(S \ {x})
        <4>1. CASE x = c
          BY <3>1, <4>1
        <4>2. CASE x # c
          <5>1. Sum(S \ {c}) = f[x] + Sum((S \ {c}) \ {x})
            BY <3>3, <4>2
          <5>2. Sum(S \ {x}) = f[c] + Sum((S \ {x}) \ {c}) /\ Sum(S \ {x}) \in Nat
            BY <3>1, <3>2, <4>2
          <5>3. (S \ {c}) \ {x} = (S \ {x}) \ {c}
            OBVIOUS
          <5>4. Sum((S \ {c}) \ {x}) \in Nat
            <6>1. P(S \ {c})
              BY <3>1, <3>2
            <6>2. /\ Cardinality(S \ {c}) = n - 1 /\ Cardinality((S \ {c}) \ {x}) = n - 2
                  /\ n # 0 /\ n - 1 # 0
              <7>1. IsFiniteSet(S \ {c}) /\ Cardinality(S \ {c}) = n - 1 /\ n # 0
                BY <1>1, <2>3, <3>1, FS_RemoveElement, FS_EmptySet
              <7>2. x \in S \ {c}
                BY <4>2
              <7> DEFINE W == S \ {c}
              <7>3. IsFiniteSet(W) /\ x \in W /\ Cardinality(W) = n - 1 /\ n - 1 \in Nat
                BY <7>1, <7>2, <2>4
              <7> HIDE DEF W
              <7>4. Cardinality(W) # 0 /\ Cardinality(W \ {x}) = Cardinality(W) - 1
                BY <7>3, FS_RemoveElement, FS_EmptySet
              <7>5. Cardinality(W \ {x}) = n - 2 /\ n - 1 # 0
                BY <7>3, <7>4, <2>4
              <7> QED BY <7>1, <7>5 DEF W
            <6>3. n - 2 \in Nat /\ n - 2 \notin Bad
              BY <2>2, <2>4, <6>2
            <6>4. (S \ {c}) \ {x} \in SUBSET R
              OBVIOUS
            <6>5. P((S \ {c}) \ {x})
              <7> HIDE DEF P
              <7> QED BY <6>2, <6>3, <6>4
            <6> QED BY <6>5
          <5>5. \A a, b, d, u, v, w \in Nat : u = a + v /\ v = b + d /\ w = a + d => u = b + w
            OBVIOUS
          <5>6. /\ Sum(S \ {c}) \in Nat /\ f[x] \in Nat /\ f[c] \in Nat
                /\ Sum(S) \in Nat
            BY <3>1, <3>3, <3>4
          <5>7. Sum((S \ {x}) \ {c}) = Sum((S \ {c}) \ {x})
            BY <5>3
          <5> HIDE DEF Sum
          <5> QED BY <3>1, <5>1, <5>2, <5>4, <5>5, <5>6, <5>7
        <4> QED BY <4>1, <4>2
      <3>6. Sum(S) \in Nat
        <4> HIDE DEF Sum
        <4> QED BY <3>1, <3>3, <3>4
      <3> QED BY <2>3, <3>5, <3>6
    <2> QED BY <2>5, <2>6
  <1>3. Cardinality(R) \in Nat /\ R \in SUBSET R
    BY <1>1
  <1>4. P(R)
    <2> HIDE DEF P
    <2> QED BY <1>2, <1>3
  <1> QED BY <1>4

\* An element more.
LEMMA SumAdd ==
    ASSUME NEW f, NEW S, IsFiniteSet(S), NEW x, x \notin S,
           f[x] \in Nat, \A y \in S : f[y] \in Nat
    PROVE  /\ SumFunctionOnSet(f, S) \in Nat /\ SumFunctionOnSet(f, S \cup {x}) \in Nat
           /\ SumFunctionOnSet(f, S \cup {x}) = SumFunctionOnSet(f, S) + f[x]
  <1> DEFINE R == S \cup {x}
  <1>1. IsFiniteSet(R) /\ \A y \in R : f[y] \in Nat
    BY FS_AddElement
  <1>2. R \ {x} = S /\ x \in R
    OBVIOUS
  <1> HIDE DEF R
  <1>3. SumFunctionOnSet(f, R) \in Nat /\ SumFunctionOnSet(f, R) = f[x] + SumFunctionOnSet(f, S)
    BY <1>1, <1>2, SumAnyOrder
  <1>4. SumFunctionOnSet(f, S) \in Nat
    BY SumAnyOrder
  <1>5. SumFunctionOnSet(f, R) = SumFunctionOnSet(f, S) + f[x]
    BY <1>3, <1>4
  <1> QED BY <1>3, <1>4, <1>5 DEF R

-----------------------------------------------------------------------------
(* Ordered lists of a finite set, and batches.                             *)

\* R orders S strictly and totally.
Orders(R, S) ==
    /\ \A x \in S : <<x, x>> \notin R
    /\ \A x, y \in S : x # y => <<x, y>> \in R \/ <<y, x>> \in R
    /\ \A x, y, z \in S : <<x, y>> \in R /\ <<y, z>> \in R => <<x, z>> \in R

\* s lists the elements of S, each once.
Lists(s, S) ==
    /\ s \in Seq(S) /\ Len(s) \in Nat /\ DOMAIN s = 1..Len(s)
    /\ \A i, j \in 1..Len(s) : s[i] = s[j] => i = j
    /\ ToSet(s) = S

LEMMA RankedLists ==
    ASSUME NEW S, IsFiniteSet(S), NEW R, Orders(R, S)
    PROVE  Lists(Ranked(S, R), S)
  <1> DEFINE n == Cardinality(S)
             B(x) == {y \in S : <<y, x>> \in R}
             rank == [x \in S |-> Cardinality(B(x))]
             s == Ranked(S, R)
  <1>1. n \in Nat
    BY FS_CardinalityType
  <1>2. \A x \in S : IsFiniteSet(B(x)) /\ Cardinality(B(x)) \in Nat
    BY FS_Subset, FS_CardinalityType
  <1>3. ASSUME NEW x \in S PROVE rank[x] \in 0..(n - 1)
    <2>1. B(x) \subseteq S \ {x}
      BY DEF Orders
    <2>2. IsFiniteSet(S \ {x}) /\ Cardinality(S \ {x}) = n - 1
      BY FS_RemoveElement
    <2>3. Cardinality(B(x)) <= n - 1
      <3> HIDE DEF B, n
      <3> QED BY <2>1, <2>2, FS_Subset
    <2>4. rank[x] = Cardinality(B(x))
      OBVIOUS
    <2> HIDE DEF B, n, rank
    <2> QED BY <1>1, <1>2, <2>3, <2>4
  <1>4. ASSUME NEW x \in S, NEW y \in S, <<x, y>> \in R PROVE rank[x] # rank[y]
    <2>1. B(x) \subseteq B(y) /\ x \in B(y) /\ x \notin B(x)
      BY <1>4 DEF Orders
    <2>2. Cardinality(B(x)) # Cardinality(B(y))
      <3>1. IsFiniteSet(B(y))
        BY <1>2
      <3> HIDE DEF B
      <3> QED BY <2>1, <3>1, FS_Subset
    <2> QED BY <2>2
  <1>5. ASSUME NEW x \in S, NEW y \in S, rank[x] = rank[y] PROVE x = y
    BY <1>4, <1>5 DEF Orders
  <1>6. ASSUME NEW m \in 0..(n - 1) PROVE \E x \in S : rank[x] = m
    <2> HIDE DEF B
    <2>1. rank \in [S -> 0..(n - 1)]
      BY <1>3
    <2> HIDE DEF rank
    <2>2. rank \in Injection(S, 0..(n - 1))
      BY <1>5, <2>1 DEF Injection, IsInjective
    <2>3. IsFiniteSet(0..(n - 1)) /\ Cardinality(0..(n - 1)) = n
      <3>1. 0 \in Int /\ n - 1 \in Int
        BY <1>1
      <3>2. IsFiniteSet(0..(n - 1)) /\ Cardinality(0..(n - 1)) = IF 0 > n - 1 THEN 0 ELSE (n - 1) - 0 + 1
        <4> HIDE DEF n
        <4> QED BY <3>1, FS_Interval
      <3> HIDE DEF n
      <3> QED BY <1>1, <3>2
    <2>4. rank \in Surjection(S, 0..(n - 1))
      BY <2>2, <2>3, FS_Injection
    <2> QED BY <2>1, <2>4 DEF Surjection
  <1>7. s = [i \in 1..n |-> CHOOSE x \in S : Cardinality(B(x)) = i - 1]
    BY DEF Ranked
  <1>8. ASSUME NEW i \in 1..n PROVE s[i] \in S /\ rank[s[i]] = i - 1
    <2>1. i - 1 \in 0..(n - 1)
      <3> HIDE DEF n
      <3> QED BY <1>1
    <2>2. \E x \in S : Cardinality(B(x)) = i - 1
      BY <1>6, <2>1
    <2>3. s[i] = CHOOSE x \in S : Cardinality(B(x)) = i - 1
      <3> HIDE DEF s, n, B
      <3> QED BY <1>7
    <2>4. s[i] \in S /\ Cardinality(B(s[i])) = i - 1
      <3> HIDE DEF s, B
      <3> QED BY <2>2, <2>3
    <2> QED BY <2>4
  <1>9. s \in [1..n -> S]
    <2> HIDE DEF s, n, B, rank
    <2> QED BY <1>7, <1>8
  <1>10. s \in Seq(S) /\ Len(s) = n /\ DOMAIN s = 1..n
    <2> HIDE DEF s, n
    <2> QED BY <1>1, <1>9
  <1>11. \A i, j \in 1..n : s[i] = s[j] => i = j
    <2> HIDE DEF s, n, rank
    <2> TAKE i, j \in 1..n
    <2>1. s[i] = s[j] => i - 1 = j - 1
      BY <1>8
    <2> QED BY <1>1, <2>1
  <1>12. ToSet(s) = S
    <2>1. ASSUME NEW x \in S PROVE \E i \in 1..n : s[i] = x
      <3> DEFINE i == rank[x] + 1
      <3>1. i \in 1..n /\ i - 1 = rank[x]
        <4>1. rank[x] \in 0..(n - 1)
          BY <1>3
        <4> HIDE DEF rank, n
        <4> QED BY <1>1, <4>1
      <3>2. s[i] \in S /\ rank[s[i]] = rank[x]
        <4> HIDE DEF s, n, rank, i
        <4> QED BY <1>8, <3>1
      <3>3. s[i] = x
        <4> HIDE DEF s, rank
        <4> QED BY <1>5, <3>2
      <3> QED BY <3>1, <3>3
    <2> HIDE DEF s, n
    <2> QED BY <1>9, <1>10, <2>1 DEF ToSet
  <1> HIDE DEF s, n
  <1>13. Lists(s, S)
    BY <1>1, <1>10, <1>11, <1>12 DEF Lists
  <1> QED BY <1>13 DEF s

\* The rows of a table, in the order of the query.
LEMMA RowsListed ==
    ASSUME NEW vs \in SUBSET (Clusters \X Keys)
    PROVE  Lists(Ranked(vs, {p \in vs \X vs : RowBefore(p[1], p[2])}), vs)
  <1> DEFINE R == {p \in vs \X vs : RowBefore(p[1], p[2])}
  <1>1. IsFiniteSet(vs)
    <2>1. IsFiniteSet(Clusters \X Keys)
      BY SizeAssumption, FS_Product
    <2> QED BY <2>1, FS_Subset
  <1>2. \A v \in vs : v[1] \in Nat /\ v[2] \in Nat /\ v = <<v[1], v[2]>>
    <2>1. \A v \in vs : v[1] \in Clusters /\ v[2] \in Keys /\ v = <<v[1], v[2]>>
      OBVIOUS
    <2>2. Clusters \subseteq Nat /\ Keys \subseteq Nat
      BY SizeAssumption
    <2> QED BY <2>1, <2>2
  <1>3. \A v, w \in vs : <<v, w>> \in R <=> RowBefore(v, w)
    OBVIOUS
  <1> HIDE DEF R
  <1>4. \A v \in vs : <<v, v>> \notin R
    BY <1>2, <1>3 DEF RowBefore
  <1>5. \A v, w \in vs : v # w => <<v, w>> \in R \/ <<w, v>> \in R
    <2> SUFFICES ASSUME NEW v \in vs, NEW w \in vs, ~RowBefore(v, w), ~RowBefore(w, v)
                 PROVE  v = w
      BY <1>3
    <2>1. v[1] = w[1] /\ v[2] = w[2]
      BY <1>2 DEF RowBefore
    <2> QED BY <1>2, <2>1
  <1>6. \A u, v, w \in vs : <<u, v>> \in R /\ <<v, w>> \in R => <<u, w>> \in R
    <2> SUFFICES ASSUME NEW u \in vs, NEW v \in vs, NEW w \in vs, RowBefore(u, v), RowBefore(v, w)
                 PROVE  RowBefore(u, w)
      BY <1>3
    <2>1. /\ u[1] \in Nat /\ v[1] \in Nat /\ w[1] \in Nat
          /\ u[2] \in Nat /\ v[2] \in Nat /\ w[2] \in Nat
      BY <1>2
    <2> QED BY <2>1 DEF RowBefore
  <1>7. Lists(Ranked(vs, R), vs)
    BY <1>1, <1>4, <1>5, <1>6, RankedLists DEF Orders
  <1> QED BY <1>7 DEF R

\* The keys of a list of validators, each once.
LEMMA KeysListed ==
    ASSUME NEW S \in SUBSET (Clusters \X Keys), NEW vs, Lists(vs, S)
    PROVE  Lists(deduplicatePubkeys(vs), {v[2] : v \in S})
  <1> DEFINE ks == {v[2] : v \in S}
             met == [k \in ks |-> CHOOSE i \in DOMAIN vs :
                        vs[i][2] = k /\ \A j \in DOMAIN vs : vs[j][2] = k => i <= j]
             R == {p \in ks \X ks : met[p[1]] < met[p[2]]}
  <1>1. deduplicatePubkeys(vs) = Ranked(ks, R)
    BY DEF deduplicatePubkeys, Lists
  <1>2. IsFiniteSet(ks)
    <2>1. ks \subseteq Keys
      OBVIOUS
    <2> QED BY <2>1, SizeAssumption, FS_Subset
  <1>3. ASSUME NEW k \in ks PROVE met[k] \in Nat /\ met[k] \in DOMAIN vs /\ vs[met[k]][2] = k
    <2> DEFINE I == {i \in DOMAIN vs : vs[i][2] = k}
    <2>1. I \subseteq Nat /\ I # {}
      <3>1. PICK v \in S : v[2] = k
        OBVIOUS
      <3>2. PICK i \in DOMAIN vs : vs[i] = v
        BY <3>1 DEF Lists, ToSet
      <3> QED BY <3>1, <3>2 DEF Lists
    <2>2. PICK i \in I : \A j \in I : i <= j
      <3> HIDE DEF I
      <3> QED BY <2>1, LeastNatural
    <2>3. \E j \in DOMAIN vs : vs[j][2] = k /\ \A l \in DOMAIN vs : vs[l][2] = k => j <= l
      BY <2>2
    <2>4. met[k] = CHOOSE j \in DOMAIN vs :
                       vs[j][2] = k /\ \A l \in DOMAIN vs : vs[l][2] = k => j <= l
      <3> HIDE DEF ks
      <3> QED OBVIOUS
    <2>5. met[k] \in DOMAIN vs /\ vs[met[k]][2] = k
      <3> HIDE DEF met, ks
      <3> QED BY <2>3, <2>4
    <2> HIDE DEF met, ks
    <2> QED BY <2>5 DEF Lists
  <1>4. \A k, l \in ks : <<k, l>> \in R <=> met[k] < met[l]
    <2> HIDE DEF met, ks
    <2> QED OBVIOUS
  <1> HIDE DEF met, ks, R
  <1>5. Orders(R, ks)
    <2>1. \A k, l \in ks : k # l => met[k] # met[l]
      BY <1>3
    <2> QED BY <1>3, <1>4, <2>1 DEF Orders
  <1>6. Lists(Ranked(ks, R), ks)
    BY <1>2, <1>5, RankedLists
  <1> QED BY <1>1, <1>6 DEF ks

\* Batches cover the keys, and nothing else.
LEMMA BatchesCover ==
    ASSUME NEW K, NEW ks, Lists(ks, K)
    PROVE  LET bs == batchesOf(ks) IN
           /\ Len(bs) \in Nat /\ DOMAIN bs = 1..Len(bs)
           /\ \A k \in K : \E i \in DOMAIN bs : k \in ToSet(bs[i])
           /\ \A i \in DOMAIN bs : ToSet(bs[i]) \subseteq K
  <1> DEFINE bs == batchesOf(ks)
             n == (Len(ks) + BatchSize - 1) \div BatchSize
             lo(i) == (i - 1) * BatchSize + 1
             hi(i) == MinOf(i * BatchSize, Len(ks))
  <1>1. /\ BatchSize \in Nat /\ BatchSize > 0 /\ Len(ks) \in Nat /\ n \in Nat
        /\ DOMAIN ks = 1..Len(ks) /\ ks \in Seq(K)
    BY SizeAssumption DEF Lists
  <1>2. bs = [i \in 1..n |-> SubSeq(ks, lo(i), hi(i))]
    BY DEF batchesOf
  <1>3. ASSUME NEW i \in 1..n
        PROVE  /\ lo(i) \in Nat /\ lo(i) >= 1 /\ lo(i) <= hi(i) + 1
               /\ hi(i) \in Nat /\ hi(i) <= Len(ks)
    <2>1. i \in Nat /\ i >= 1 /\ i - 1 \in Nat
      BY <1>1
    <2>2. (i - 1) * BatchSize \in Nat /\ i * BatchSize = (i - 1) * BatchSize + BatchSize
      BY <1>1, <2>1
    <2>3. (i - 1) * BatchSize <= Len(ks)
      <3>1. n * BatchSize <= Len(ks) + BatchSize - 1
        BY <1>1
      <3>2. i * BatchSize <= n * BatchSize
        BY <1>1
      <3> QED BY <1>1, <2>2, <3>1, <3>2
    <2> QED BY <1>1, <2>1, <2>2, <2>3 DEF MinOf
  <1>4. ASSUME NEW i \in 1..n
        PROVE  /\ \A j \in lo(i)..hi(i) : j \in 1..Len(ks) /\ ks[j] \in ToSet(bs[i])
               /\ ToSet(bs[i]) \subseteq K
    <2> HIDE DEF lo, hi
    <2>1. bs[i] = SubSeq(ks, lo(i), hi(i))
      <3> HIDE DEF n, bs
      <3> QED BY <1>2
    <2> DEFINE a == lo(i)
               b == hi(i)
    <2>2. a \in Nat /\ a >= 1 /\ a <= b + 1 /\ b \in Nat /\ b <= Len(ks)
      BY <1>3
    <2> HIDE DEF a, b
    <2>3. /\ SubSeq(ks, a, b) \in Seq(K) /\ Len(SubSeq(ks, a, b)) = b - a + 1
          /\ \A l \in 1..(b - a + 1) : SubSeq(ks, a, b)[l] = ks[l + a - 1]
      BY <1>1, <2>2
    <2> DEFINE t == SubSeq(ks, a, b)
    <2>4. t \in Seq(K) /\ DOMAIN t = 1..(b - a + 1) /\ b - a + 1 \in Nat
      BY <2>2, <2>3
    <2>5. ASSUME NEW j \in a..b PROVE j \in 1..Len(ks) /\ ks[j] \in ToSet(t)
      <3>1. j - a + 1 \in 1..(b - a + 1) /\ (j - a + 1) + a - 1 = j /\ j \in 1..Len(ks)
        BY <1>1, <2>2
      <3>2. t[j - a + 1] = ks[j]
        BY <2>3, <3>1
      <3> HIDE DEF t
      <3> QED BY <2>4, <3>1, <3>2 DEF ToSet
    <2>6. ToSet(t) \subseteq K
      <3> HIDE DEF t
      <3> QED BY <2>4 DEF ToSet
    <2> QED BY <2>1, <2>5, <2>6 DEF a, b
  <1>5. ASSUME NEW k \in K PROVE \E i \in 1..n : k \in ToSet(bs[i])
    <2>1. PICK j \in 1..Len(ks) : ks[j] = k
      BY <1>1 DEF Lists, ToSet
    <2> DEFINE q == (j - 1) \div BatchSize
               i == q + 1
    <2>2. q \in Nat /\ q * BatchSize + 1 <= j /\ j <= (q + 1) * BatchSize
      BY <1>1
    <2>3. q + 1 <= n
      BY <1>1
    <2> HIDE DEF q
    <2>4. i \in 1..n /\ i - 1 = q
      BY <1>1, <2>2, <2>3
    <2>5. lo(i) <= j /\ j <= hi(i)
      BY <1>1, <2>2, <2>4 DEF MinOf
    <2>6. lo(i) \in Nat /\ hi(i) \in Nat
      BY <1>3, <2>4
    <2> HIDE DEF lo, hi, i, bs
    <2>7. j \in lo(i)..hi(i)
      BY <1>1, <2>5, <2>6
    <2> QED BY <1>4, <2>1, <2>4, <2>7
  <1>6. Len(bs) = n /\ DOMAIN bs = 1..n
    <2> DEFINE E(i) == SubSeq(ks, lo(i), hi(i))
    <2>1. bs = [i \in 1..n |-> E(i)]
      BY <1>2
    <2> HIDE DEF E, bs, n
    <2>2. bs \in Seq({E(i) : i \in 1..n}) /\ DOMAIN bs = 1..n
      BY <1>1, <2>1
    <2> QED BY <1>1, <2>2
  <1> HIDE DEF bs, n
  <1> QED BY <1>1, <1>4, <1>5, <1>6 DEF bs

-----------------------------------------------------------------------------
(* The sum by cluster.                                                     *)

\* The balances received for the validators S are those of the beacon state.
Received(m, bal, S) ==
    \A v \in S : /\ v[2] \in DOMAIN m <=> bal[v[2]] # Absent
                 /\ v[2] \in DOMAIN m => m[v[2]] = bal[v[2]]

\* The keys whose balance is above the floor, and what the keys K count for.
AboveFloor(bal) == {k \in Keys : bal[k] # Absent /\ bal[k] > BalanceFloor}

Worth(bal, K) ==
    BalanceFloor * Cardinality(K \ AboveFloor(bal)) + SumFunctionOnSet(bal, K \cap AboveFloor(bal))

\* The largest balance that a set of validators may be counted with.
CountedBalances == Gwei \cup {BalanceFloor}

\* A validator counts for its balance, or for the floor.
LEMMA CountedIs ==
    ASSUME NEW bal \in [Keys -> Gwei \cup {Absent}], NEW S \in SUBSET (Clusters \X Keys),
           NEW m, Received(m, bal, S), NEW v \in S
    PROVE  /\ Counted(m, v[2]) = IF v[2] \in AboveFloor(bal) THEN bal[v[2]] ELSE BalanceFloor
           /\ Counted(m, v[2]) \in CountedBalances /\ Counted(m, v[2]) \in Nat
           /\ v[2] \in Keys
  <1> DEFINE k == v[2]
  <1>1. k \in Keys /\ bal[k] \in Gwei \cup {Absent}
    OBVIOUS
  <1>2. BalanceFloor \in Nat /\ Gwei \subseteq Nat /\ Absent \notin Gwei /\ BalanceFloor >= 0
    BY SizeAssumption
  <1>3. /\ k \in DOMAIN m <=> bal[k] # Absent
        /\ k \in DOMAIN m => m[k] = bal[k]
    BY DEF Received
  <1> HIDE DEF k
  <1>4. CASE bal[k] = Absent
    BY <1>1, <1>2, <1>3, <1>4 DEF Counted, MaxOf, AboveFloor, CountedBalances, k
  <1>5. CASE bal[k] # Absent
    <2>1. bal[k] \in Gwei /\ bal[k] \in Nat
      BY <1>1, <1>2, <1>5
    <2>2. Counted(m, k) = MaxOf(bal[k], BalanceFloor)
      BY <1>3, <1>5 DEF Counted
    <2>3. k \in AboveFloor(bal) <=> bal[k] > BalanceFloor
      BY <1>1, <1>5 DEF AboveFloor
    <2>4. CASE bal[k] > BalanceFloor
      <3>1. Counted(m, k) = bal[k]
        BY <1>2, <2>1, <2>2, <2>4 DEF MaxOf
      <3> QED BY <1>1, <2>1, <2>3, <2>4, <3>1 DEF CountedBalances, k
    <2>5. CASE ~(bal[k] > BalanceFloor)
      <3>1. Counted(m, k) = BalanceFloor
        BY <1>2, <2>1, <2>2, <2>5 DEF MaxOf
      <3> QED BY <1>1, <1>2, <2>3, <2>5, <3>1 DEF CountedBalances, k
    <2> QED BY <2>4, <2>5
  <1> QED BY <1>4, <1>5

\* One key more is worth its balance, or the floor.
LEMMA WorthAdd ==
    ASSUME NEW bal \in [Keys -> Gwei \cup {Absent}], NEW K \in SUBSET Keys,
           NEW k \in Keys, k \notin K
    PROVE  /\ Worth(bal, K) \in Nat
           /\ Worth(bal, K \cup {k}) =
                  Worth(bal, K) + (IF k \in AboveFloor(bal) THEN bal[k] ELSE BalanceFloor)
  <1> DEFINE A == AboveFloor(bal)
             low == K \ A
             high == K \cap A
  <1>1. IsFiniteSet(low) /\ IsFiniteSet(high) /\ Cardinality(low) \in Nat
    <2>1. IsFiniteSet(K)
      BY SizeAssumption, FS_Subset
    <2>2. low \subseteq K /\ high \subseteq K
      OBVIOUS
    <2> HIDE DEF low, high
    <2> QED BY <2>1, <2>2, FS_Subset, FS_CardinalityType
  <1>2. \A x \in A : bal[x] \in Nat
    <2>1. \A x \in Keys : bal[x] \in Gwei \cup {Absent}
      OBVIOUS
    <2> QED BY <2>1, SizeAssumption DEF AboveFloor
  <1>3. BalanceFloor \in Nat
    BY SizeAssumption
  <1> HIDE DEF A
  <1>4. SumFunctionOnSet(bal, high) \in Nat
    BY <1>1, <1>2, SumAnyOrder
  <1>5. Worth(bal, K) = BalanceFloor * Cardinality(low) + SumFunctionOnSet(bal, high)
    BY DEF Worth, A
  <1>6. BalanceFloor * Cardinality(low) \in Nat
    <2> HIDE DEF low
    <2> QED BY <1>1, <1>3
  <1>7. Worth(bal, K) \in Nat
    <2> HIDE DEF low, high
    <2> QED BY <1>4, <1>5, <1>6
  <1>8. CASE k \in A
    <2>1. (K \cup {k}) \ A = low /\ (K \cup {k}) \cap A = high \cup {k} /\ k \notin high
      BY <1>8
    <2>2. SumFunctionOnSet(bal, high \cup {k}) = SumFunctionOnSet(bal, high) + bal[k]
      <3>1. \A x \in high : bal[x] \in Nat
        BY <1>2
      <3> HIDE DEF high
      <3> QED BY <1>1, <1>2, <1>8, <2>1, <3>1, SumAdd
    <2>3. Worth(bal, K \cup {k}) = BalanceFloor * Cardinality(low) + SumFunctionOnSet(bal, high \cup {k})
      BY <2>1 DEF Worth, A
    <2>4. bal[k] \in Nat
      BY <1>2, <1>8
    <2> HIDE DEF low, high
    <2>5. Worth(bal, K \cup {k}) = Worth(bal, K) + bal[k]
      BY <1>4, <1>5, <1>6, <2>2, <2>3, <2>4
    <2> QED BY <1>7, <1>8, <2>5 DEF A
  <1>9. CASE k \notin A
    <2>1. (K \cup {k}) \ A = low \cup {k} /\ (K \cup {k}) \cap A = high /\ k \notin low
      BY <1>9
    <2>2. Cardinality(low \cup {k}) = Cardinality(low) + 1
      <3> HIDE DEF low
      <3> QED BY <1>1, <2>1, FS_AddElement
    <2>3. Worth(bal, K \cup {k}) = BalanceFloor * Cardinality(low \cup {k}) + SumFunctionOnSet(bal, high)
      BY <2>1 DEF Worth, A
    <2> HIDE DEF low, high
    <2>4. BalanceFloor * (Cardinality(low) + 1) = BalanceFloor * Cardinality(low) + BalanceFloor
      BY <1>1, <1>3
    <2>5. Worth(bal, K \cup {k}) = Worth(bal, K) + BalanceFloor
      BY <1>3, <1>4, <1>5, <1>6, <2>2, <2>3, <2>4
    <2> QED BY <1>7, <1>9, <2>5 DEF A
  <1> QED BY <1>8, <1>9

\* What aggregateByCluster adds up for a cluster; the clusters of the rows S,
\* and the keys of one of them.
CountedSum(vs, m, c) ==
    SumFunctionOnSet([i \in DOMAIN vs |-> Counted(m, vs[i][2])], {i \in DOMAIN vs : vs[i][1] = c})

ClustersIn(S) == {v[1] : v \in S}
KeysIn(S, c) == {k \in Keys : <<c, k>> \in S}

\* The sum over the rows of a cluster is what its keys are worth, and does not
\* exceed what as many keys at one of the balances would be worth.
LEMMA ClusterSum ==
    ASSUME NEW bal \in [Keys -> Gwei \cup {Absent}], NEW S \in SUBSET (Clusters \X Keys),
           NEW vs, Lists(vs, S), NEW m, Received(m, bal, S), NEW c
    PROVE  /\ CountedSum(vs, m, c) = Worth(bal, KeysIn(S, c))
           /\ CountedSum(vs, m, c) \in Nat
           /\ \E g \in CountedBalances : CountedSum(vs, m, c) <= Cardinality(KeysIn(S, c)) * g
  <1> DEFINE h == [i \in DOMAIN vs |-> Counted(m, vs[i][2])]
             N == Len(vs)
             I(n) == {i \in 1..n : vs[i][1] = c}
             K(n) == {vs[i][2] : i \in I(n)}
             Sum(n) == SumFunctionOnSet(h, I(n))
             P(n) == /\ IsFiniteSet(I(n)) /\ Sum(n) = Worth(bal, K(n)) /\ Sum(n) \in Nat
                     /\ \E g \in CountedBalances : Sum(n) <= Cardinality(K(n)) * g
             Bad == {n \in Nat : n <= N /\ ~P(n)}
  <1>1. N \in Nat /\ DOMAIN vs = 1..N /\ \A i \in 1..N : vs[i] \in S
    BY DEF Lists, ToSet
  <1>2. \A i \in 1..N : vs[i][2] \in Keys /\ vs[i] = <<vs[i][1], vs[i][2]>>
    BY <1>1
  <1>3. CountedBalances \subseteq Nat /\ BalanceFloor \in CountedBalances
    BY SizeAssumption DEF CountedBalances
  <1>4. \A n \in Nat : n <= N => K(n) \subseteq Keys
    BY <1>2
  <1>5. Bad = {}
    <2>1. SUFFICES ASSUME Bad # {} PROVE FALSE
      OBVIOUS
    <2>2. PICK n \in Bad : \A y \in Bad : n <= y
      <3>1. Bad \subseteq Nat
        OBVIOUS
      <3> HIDE DEF Bad
      <3> QED BY <2>1, <3>1, LeastNatural
    <2>3. n \in Nat /\ n <= N /\ ~P(n)
      OBVIOUS
    <2>4. CASE n = 0
      <3>1. I(0) = {} /\ K(0) = {}
        OBVIOUS
      <3>2. IsFiniteSet({}) /\ Cardinality({}) = 0
        BY FS_EmptySet
      <3>3. SumFunctionOnSet(h, {}) = 0 /\ SumFunctionOnSet(bal, {}) = 0
        BY <3>2, SumPick
      <3>4. Worth(bal, {}) = 0
        <4>1. {} \ AboveFloor(bal) = {} /\ {} \cap AboveFloor(bal) = {}
          OBVIOUS
        <4>2. Worth(bal, {}) = BalanceFloor * 0 + 0
          BY <3>2, <3>3, <4>1 DEF Worth
        <4> QED BY <4>2, <1>3
      <3>5. BalanceFloor \in Nat /\ 0 \in Nat
        BY <1>3
      <3>6. 0 <= 0 * BalanceFloor
        BY <3>5
      <3>7. IsFiniteSet(I(0)) /\ Sum(0) = Worth(bal, K(0)) /\ Sum(0) = 0 /\ Cardinality(K(0)) = 0
        <4> HIDE DEF I, K
        <4> QED BY <3>1, <3>2, <3>3, <3>4
      <3>8. Sum(0) <= Cardinality(K(0)) * BalanceFloor
        <4> HIDE DEF Sum, K
        <4> QED BY <3>6, <3>7
      <3>9. P(0)
        <4> HIDE DEF Sum, K, I
        <4> QED BY <1>3, <3>5, <3>7, <3>8
      <3> HIDE DEF P
      <3> QED BY <2>3, <2>4, <3>9
    <2>5. CASE n # 0
      <3>1. n - 1 \in Nat /\ n - 1 <= N /\ n - 1 \notin Bad /\ n \in 1..N
        <4>1. n \in Nat /\ n <= N /\ n # 0 /\ N \in Nat
          BY <1>1, <2>3, <2>5
        <4> HIDE DEF N, P, Bad
        <4>2. n - 1 \in Nat /\ n - 1 <= N /\ n \in 1..N /\ ~(n <= n - 1)
          BY <4>1
        <4> QED BY <2>2, <4>2
      <3>2. P(n - 1)
        BY <3>1
      <3>3. 1..n = (1..(n - 1)) \cup {n} /\ n \notin 1..(n - 1) /\ 1..(n - 1) \subseteq 1..N
        BY <1>1, <2>3, <2>5
      <3>4. CASE vs[n][1] # c
        <4>1. I(n) = I(n - 1)
          BY <3>3, <3>4
        <4>2. P(n)
          BY <3>2, <4>1
        <4> QED BY <2>3, <4>2
      <3>5. CASE vs[n][1] = c
        <4> DEFINE k == vs[n][2]
                   J == I(n - 1)
                   L == K(n - 1)
        <4>1. I(n) = J \cup {n} /\ n \notin J
          BY <3>3, <3>5
        <4>2. K(n) = L \cup {k}
          BY <4>1
        <4>3. k \notin L
          <5>1. SUFFICES ASSUME NEW i \in J, vs[i][2] = k PROVE FALSE
            OBVIOUS
          <5>2. i \in 1..N /\ vs[i][1] = c /\ i # n
            BY <3>3
          <5>3. vs[i] = vs[n]
            BY <1>2, <3>1, <3>5, <5>1, <5>2
          <5> QED BY <3>1, <5>2, <5>3 DEF Lists
        <4>4. /\ h[n] = Counted(m, k) /\ h[n] \in Nat /\ h[n] \in CountedBalances
              /\ h[n] = IF k \in AboveFloor(bal) THEN bal[k] ELSE BalanceFloor
          <5>1. vs[n] \in S /\ n \in DOMAIN vs
            BY <1>1, <3>1
          <5>2. h[n] = Counted(m, vs[n][2])
            BY <5>1
          <5> QED BY <5>1, <5>2, CountedIs
        <4>5. \A i \in J : h[i] \in Nat
          <5>1. ASSUME NEW i \in J PROVE h[i] \in Nat
            <6>1. i \in 1..N
              BY <3>3
            <6>2. vs[i] \in S /\ i \in DOMAIN vs
              BY <1>1, <6>1
            <6>3. h[i] = Counted(m, vs[i][2])
              BY <6>2
            <6> QED BY <6>2, <6>3, CountedIs
          <5> QED BY <5>1
        <4>6. IsFiniteSet(J) /\ IsFiniteSet(I(n))
          <5>1. IsFiniteSet(J)
            BY <3>2
          <5> HIDE DEF J
          <5> QED BY <4>1, <5>1, FS_AddElement
        <4>7. SumFunctionOnSet(h, J \cup {n}) = SumFunctionOnSet(h, J) + h[n]
          <5> HIDE DEF J
          <5> QED BY <4>1, <4>4, <4>5, <4>6, SumAdd
        <4>8. L \in SUBSET Keys /\ k \in Keys
          BY <1>2, <1>4, <3>1
        <4>9. Worth(bal, L \cup {k}) = Worth(bal, L) + h[n] /\ Worth(bal, L) \in Nat
          <5> HIDE DEF L, k
          <5> QED BY <4>3, <4>4, <4>8, WorthAdd
        <4>10. Sum(n - 1) = Worth(bal, L) /\ Sum(n - 1) \in Nat
          BY <3>2
        <4>11. Sum(n) = Worth(bal, K(n)) /\ Sum(n) \in Nat /\ Sum(n) = Sum(n - 1) + h[n]
          <5>1. Sum(n) = SumFunctionOnSet(h, J) + h[n]
            BY <4>1, <4>7
          <5>2. Sum(n - 1) = SumFunctionOnSet(h, J)
            OBVIOUS
          <5>3. Worth(bal, K(n)) = Worth(bal, L) + h[n]
            BY <4>2, <4>9
          <5> HIDE DEF Sum, J, L, K
          <5> QED BY <4>4, <4>9, <4>10, <5>1, <5>2, <5>3
        <4>12. Cardinality(K(n)) = Cardinality(L) + 1 /\ Cardinality(L) \in Nat
          <5>1. IsFiniteSet(L)
            BY <4>8, SizeAssumption, FS_Subset
          <5> HIDE DEF L, k
          <5> QED BY <4>2, <4>3, <5>1, FS_AddElement, FS_CardinalityType
        <4>13. \E g \in CountedBalances : Sum(n) <= Cardinality(K(n)) * g
          <5>1. PICK g \in CountedBalances : Sum(n - 1) <= Cardinality(L) * g
            BY <3>2
          <5> DEFINE x == h[n]
                     z == IF g <= x THEN x ELSE g
                     a == Cardinality(L)
                     u == Sum(n - 1)
          <5>2. /\ g \in Nat /\ x \in Nat /\ a \in Nat /\ u \in Nat /\ z \in CountedBalances
                /\ z \in Nat /\ g <= z /\ x <= z /\ u <= a * g
            <6>1. g \in Nat /\ x \in Nat
              BY <1>3, <4>4
            <6>2. z \in CountedBalances
              BY <4>4
            <6>3. a \in Nat /\ u \in Nat /\ u <= a * g
              BY <4>10, <4>12, <5>1
            <6> HIDE DEF x, a, u
            <6>4. z \in Nat /\ g <= z /\ x <= z
              BY <6>1
            <6> QED BY <6>1, <6>2, <6>3, <6>4
          <5> HIDE DEF x, z, a, u
          <5>3. a * g <= a * z /\ (a + 1) * z = a * z + z /\ a * g \in Nat /\ a * z \in Nat
            BY <5>2
          <5>4. u + x <= (a + 1) * z
            BY <5>2, <5>3
          <5>5. Sum(n) = u + x /\ Cardinality(K(n)) = a + 1
            BY <4>11, <4>12 DEF u, x, a
          <5>6. Sum(n) <= Cardinality(K(n)) * z
            <6> HIDE DEF Sum, K
            <6> QED BY <5>4, <5>5
          <5> QED BY <5>2, <5>6
        <4>14. P(n)
          BY <4>6, <4>11, <4>13
        <4> QED BY <2>3, <4>14
      <3> QED BY <3>4, <3>5
    <2> QED BY <2>4, <2>5
  <1>6. P(N)
    <2> HIDE DEF P
    <2> QED BY <1>1, <1>5
  <1>7. I(N) = {i \in DOMAIN vs : vs[i][1] = c}
    BY <1>1
  <1>8. K(N) = {k \in Keys : <<c, k>> \in S}
    <2>1. ASSUME NEW i \in I(N) PROVE vs[i][2] \in {k \in Keys : <<c, k>> \in S}
      <3>1. i \in 1..N /\ vs[i][1] = c
        OBVIOUS
      <3> QED BY <1>1, <1>2, <3>1
    <2>2. ASSUME NEW k \in Keys, <<c, k>> \in S PROVE k \in K(N)
      <3>1. PICK i \in DOMAIN vs : vs[i] = <<c, k>>
        BY <2>2 DEF Lists, ToSet
      <3>2. vs[i][1] = c /\ vs[i][2] = k /\ i \in 1..N
        BY <1>1, <3>1
      <3> QED BY <3>2
    <2> QED BY <2>1, <2>2
  <1> HIDE DEF I, K
  <1>9. CountedSum(vs, m, c) = Sum(N) /\ KeysIn(S, c) = K(N)
    <2> HIDE DEF I, K, N
    <2> QED BY <1>7, <1>8 DEF CountedSum, KeysIn
  <1> HIDE DEF Sum, K, I, N
  <1> QED BY <1>6, <1>9

\* The conversion keeps the sum: aggregateByCluster reports each cluster that
\* has a validator with what its keys are worth.
LEMMA AggregateExact ==
    ASSUME NEW bal \in [Keys -> Gwei \cup {Absent}], NEW S \in SUBSET (Clusters \X Keys),
           NEW vs, Lists(vs, S), NEW m, Received(m, bal, S)
    PROVE  LET r == aggregateByCluster(vs, m) IN
           /\ DOMAIN r = ClustersIn(S)
           /\ \A c \in DOMAIN r : r[c] = Worth(bal, KeysIn(S, c)) \div GweiPerETH
  <1> DEFINE K(c) == KeysIn(S, c)
             Sum(c) == CountedSum(vs, m, c)
             r == aggregateByCluster(vs, m)
             C == ClustersIn(S)
  <1>1. r = [c \in C |-> (Sum(c) \div GweiPerETH) % Modulus]
    BY DEF aggregateByCluster, Lists, CountedSum, ClustersIn
  <1>2. ASSUME NEW c PROVE (Sum(c) \div GweiPerETH) % Modulus = Worth(bal, K(c)) \div GweiPerETH
    <2>1. /\ Sum(c) = Worth(bal, K(c)) /\ Sum(c) \in Nat
          /\ \E g \in CountedBalances : Sum(c) <= Cardinality(K(c)) * g
      BY ClusterSum
    <2>2. PICK g \in CountedBalances : Sum(c) <= Cardinality(K(c)) * g
      BY <2>1
    <2>3. /\ Cardinality(K(c)) \in Nat /\ Cardinality(Keys) \in Nat
          /\ Cardinality(K(c)) <= Cardinality(Keys)
      <3>1. K(c) \subseteq Keys /\ IsFiniteSet(Keys)
        BY SizeAssumption DEF KeysIn
      <3> HIDE DEF K
      <3> QED BY <3>1, FS_Subset, FS_CardinalityType
    <2>4. g \in Nat /\ GweiPerETH \in Nat /\ GweiPerETH > 0
      BY SizeAssumption DEF CountedBalances
    <2>5. Modulus \in Nat /\ (Cardinality(Keys) * g) \div GweiPerETH < Modulus
      BY WidthAssumption DEF CountedBalances
    <2> DEFINE w == Sum(c)
               a == Cardinality(K(c))
               b == Cardinality(Keys)
               q == w \div GweiPerETH
    <2>6. w \in Nat /\ a \in Nat /\ b \in Nat /\ a <= b /\ w <= a * g
      BY <2>1, <2>2, <2>3
    <2>7. b * g \in Nat /\ (b * g) \div GweiPerETH < Modulus
      <3>1. (b * g) \div GweiPerETH < Modulus
        BY <2>5
      <3> HIDE DEF b
      <3> QED BY <2>4, <2>6, <3>1
    <2> HIDE DEF w, a, b
    <2>8. a * g <= b * g
      BY <2>4, <2>6
    <2>9. w <= b * g
      <3>1. a * g \in Nat
        BY <2>4, <2>6
      <3> QED BY <2>6, <2>7, <2>8, <3>1
    <2>10. q \in Nat /\ q < Modulus
      <3> DEFINE z == b * g
      <3>1. z \in Nat /\ w <= z /\ z \div GweiPerETH < Modulus
        BY <2>7, <2>9
      <3> HIDE DEF z
      <3>2. w \div GweiPerETH <= z \div GweiPerETH
        BY <2>4, <2>6, <3>1
      <3>3. w \div GweiPerETH \in Nat /\ z \div GweiPerETH \in Nat
        BY <2>4, <2>6, <3>1
      <3> QED BY <2>5, <3>1, <3>2, <3>3
    <2> HIDE DEF q
    <2>11. q % Modulus = q
      BY <2>5, <2>10
    <2> QED BY <2>1, <2>11 DEF q, w
  <1> HIDE DEF Sum, K, C, r
  <1>3. DOMAIN r = C /\ \A c \in C : r[c] = (Sum(c) \div GweiPerETH) % Modulus
    BY <1>1
  <1>4. \A c \in C : r[c] = Worth(bal, K(c)) \div GweiPerETH
    BY <1>2, <1>3
  <1> QED BY <1>3, <1>4 DEF C, K, r

-----------------------------------------------------------------------------
(* The inductive invariant of a fetch.                                     *)

Rows == {v \in registered : v[1] \in active}

TablesTyped ==
    /\ registered \in SUBSET (Clusters \X Keys)
    /\ active \in SUBSET Clusters
    /\ beacon \in [Keys -> Gwei \cup {Absent}]

\* Between fetches nothing is left of the last one.
FetchLeavesNothing ==
    pc # "fetch" => /\ validators = <<>> /\ batches = <<>> /\ started = 0
                    /\ worker = <<>> /\ attempt = <<>> /\ merged = <<>>

\* Every validator of an active cluster is in some batch.
BatchesHoldAll ==
    pc = "fetch" => /\ Lists(validators, Rows)
                    /\ Len(batches) \in Nat /\ DOMAIN batches = 1..Len(batches)
                    /\ \A v \in Rows : \E i \in DOMAIN batches : v[2] \in ToSet(batches[i])

\* The batches up to started have been handed out, and no other.
HandedOut == \A i \in DOMAIN batches : worker[i] = "queued" <=> started < i

\* Some answered batch holds the key k.
Answered(k) == \E i \in DOMAIN batches : worker[i] = "ok" /\ k \in ToSet(batches[i])

\* What was received is the beacon state of the keys of the answered batches.
MergedIsAnswered ==
    \A k \in Keys : /\ k \in DOMAIN merged <=> beacon[k] # Absent /\ Answered(k)
                    /\ k \in DOMAIN merged => merged[k] = beacon[k]

BalancesInv ==
    /\ TablesTyped /\ BalancesTypeOK /\ FetchLeavesNothing /\ BatchesHoldAll
    /\ HandedOut /\ MergedIsAnswered /\ BalancesExact

LEMMA EmptyTuple ==
    /\ DOMAIN <<>> = {} /\ Len(<<>>) = 0 /\ ToSet(<<>>) = {}
    /\ \A S : <<>> \in Seq(S)
  BY DEF ToSet

\* A list is empty exactly when there is nothing to list.
LEMMA EmptyList ==
    ASSUME NEW S, NEW s, Lists(s, S)
    PROVE  s = <<>> <=> S = {}
  <1>1. ASSUME s = <<>> PROVE S = {}
    BY <1>1, EmptyTuple DEF Lists
  <1>2. ASSUME S = {} PROVE s = <<>>
    <2>1. Len(s) \in Nat /\ DOMAIN s = 1..Len(s) /\ s \in Seq(S) /\ ToSet(s) = {}
      BY <1>2 DEF Lists
    <2>2. Len(s) = 0
      <3>1. SUFFICES ASSUME Len(s) # 0 PROVE FALSE
        OBVIOUS
      <3>2. s[1] \in ToSet(s)
        BY <2>1, <3>1 DEF ToSet
      <3> QED BY <2>1, <3>2
    <2> QED BY <2>1, <2>2
  <1> QED BY <1>1, <1>2

\* Nothing is in flight when there is no fetch.
LEMMA NothingLeft ==
    ASSUME BalancesInv, pc # "fetch"
    PROVE  /\ DOMAIN batches = {} /\ DOMAIN worker = {} /\ DOMAIN merged = {} /\ Running = {}
           /\ \A k : ~Answered(k)
  BY EmptyTuple DEF BalancesInv, FetchLeavesNothing, Running, Answered

LEMMA BalancesInitInv == BalancesInit => BalancesInv
  <1> SUFFICES ASSUME BalancesInit PROVE BalancesInv
    OBVIOUS
  <1>1. TablesTyped
    BY DEF BalancesInit, TablesTyped
  <1>2. DOMAIN batches = {} /\ DOMAIN worker = {} /\ DOMAIN merged = {} /\ Running = {}
    BY EmptyTuple DEF BalancesInit, Running
  <1>3. BalancesTypeOK
    <2>1. Cardinality(Running) = 0 /\ Concurrency \in Nat
      BY <1>2, FS_EmptySet, SizeAssumption
    <2>2. Cardinality(Running) <= Concurrency
      BY <2>1
    <2>3. pc = "idle" /\ started = 0 /\ DOMAIN attempt = {} /\ DOMAIN balances = {} /\ Len(batches) = 0
          /\ validators \in Seq(registered)
      BY EmptyTuple DEF BalancesInit
    <2> QED BY <1>2, <2>2, <2>3 DEF BalancesTypeOK
  <1>4. pc = "idle"
    BY DEF BalancesInit
  <1>5. FetchLeavesNothing /\ BatchesHoldAll /\ BalancesExact
    BY <1>4 DEF BalancesInit, FetchLeavesNothing, BatchesHoldAll, BalancesExact
  <1>6. HandedOut /\ MergedIsAnswered
    BY <1>2 DEF HandedOut, MergedIsAnswered, Answered
  <1> QED BY <1>1, <1>3, <1>5, <1>6 DEF BalancesInv

\* Steps that leave the tables alone keep their types and what is to be listed.
LEMMA TablesKept ==
    ASSUME TablesTyped, UNCHANGED tables
    PROVE  /\ TablesTyped' /\ Rows' = Rows
           /\ registered' = registered /\ active' = active /\ beacon' = beacon
  BY DEF TablesTyped, tables, Rows

\* A fetch that ends or starts empty leaves the invariant's other parts.
LEMMA NoFetchInv ==
    ASSUME TablesTyped, UNCHANGED tables, NoFetch, pc' \in {"idle", "done", "error"},
           DOMAIN balances' \subseteq Clusters, BalancesExact'
    PROVE  BalancesInv'
  <1>1. TablesTyped'
    BY TablesKept
  <1>2. /\ DOMAIN batches' = {} /\ DOMAIN worker' = {} /\ DOMAIN merged' = {} /\ Running' = {}
        /\ DOMAIN attempt' = {} /\ Len(batches') = 0 /\ started' = 0
        /\ validators' \in Seq(registered')
    BY EmptyTuple DEF NoFetch, Running
  <1>3. BalancesTypeOK'
    <2>1. Cardinality(Running') = 0 /\ Concurrency \in Nat
      BY <1>2, FS_EmptySet, SizeAssumption
    <2>2. Cardinality(Running') <= Concurrency
      BY <2>1
    <2> QED BY <1>2, <2>2 DEF BalancesTypeOK
  <1>4. FetchLeavesNothing' /\ BatchesHoldAll'
    BY DEF NoFetch, FetchLeavesNothing, BatchesHoldAll
  <1>5. HandedOut' /\ MergedIsAnswered'
    BY <1>2 DEF HandedOut, MergedIsAnswered, Answered
  <1> QED BY <1>1, <1>3, <1>4, <1>5 DEF BalancesInv

\* With the balances of all its validators, each active cluster is reported
\* with its true balance, and no other cluster is.
LEMMA ReportExact ==
    ASSUME TablesTyped, NEW vs, Lists(vs, Rows), NEW m, Received(m, beacon, Rows)
    PROVE  LET r == aggregateByCluster(vs, m) IN
           /\ DOMAIN r = {c \in active : \E k \in Keys : <<c, k>> \in registered}
           /\ \A c \in DOMAIN r : r[c] = TrueBalance(c)
  <1> DEFINE r == aggregateByCluster(vs, m)
             C == ClustersIn(Rows)
  <1>1. Rows \in SUBSET (Clusters \X Keys) /\ beacon \in [Keys -> Gwei \cup {Absent}]
    BY DEF TablesTyped, Rows
  <1>2. DOMAIN r = C /\ \A c \in DOMAIN r : r[c] = Worth(beacon, KeysIn(Rows, c)) \div GweiPerETH
    BY <1>1, AggregateExact
  <1>3. C = {c \in active : \E k \in Keys : <<c, k>> \in registered}
    <2>1. ASSUME NEW v \in Rows
          PROVE  v[1] \in active /\ \E k \in Keys : <<v[1], k>> \in registered
      <3>1. v \in Clusters \X Keys /\ v \in registered /\ v[1] \in active
        BY <1>1 DEF Rows
      <3>2. v = <<v[1], v[2]>> /\ v[2] \in Keys
        BY <3>1
      <3> QED BY <3>1, <3>2
    <2>2. ASSUME NEW c \in active, NEW k \in Keys, <<c, k>> \in registered PROVE c \in C
      <3>1. <<c, k>> \in Rows /\ <<c, k>>[1] = c
        BY <2>2 DEF Rows
      <3> QED BY <3>1 DEF ClustersIn
    <2> QED BY <2>1, <2>2 DEF ClustersIn
  <1>4. ASSUME NEW c \in active
        PROVE  Worth(beacon, KeysIn(Rows, c)) \div GweiPerETH = TrueBalance(c)
    <2> DEFINE keys == {k \in Keys : <<c, k>> \in registered}
               above == {k \in {k \in keys : beacon[k] # Absent} : beacon[k] > BalanceFloor}
    <2>1. KeysIn(Rows, c) = keys
      BY DEF KeysIn, Rows
    <2>2. keys \ AboveFloor(beacon) = keys \ above /\ keys \cap AboveFloor(beacon) = above
      BY DEF AboveFloor
    <2>3. TrueBalance(c) = (BalanceFloor * Cardinality(keys \ above) + SumFunctionOnSet(beacon, above))
                               \div GweiPerETH
      BY DEF TrueBalance
    <2> HIDE DEF keys, above
    <2> QED BY <2>1, <2>2, <2>3 DEF Worth
  <1> HIDE DEF r, C
  <1>5. \A c \in DOMAIN r : r[c] = TrueBalance(c)
    BY <1>2, <1>3, <1>4
  <1> QED BY <1>2, <1>3, <1>5 DEF r

LEMMA BeginInv == BalancesInv /\ Begin => BalancesInv'
  <1> SUFFICES ASSUME BalancesInv, Begin PROVE BalancesInv'
    OBVIOUS
  <1>1. TablesTyped /\ UNCHANGED tables /\ pc = "idle"
    BY DEF BalancesInv, Begin
  <1>2. /\ TablesTyped' /\ Rows' = Rows
        /\ registered' = registered /\ active' = active /\ beacon' = beacon
    BY <1>1, TablesKept
  <1>3. Lists(GetActiveValidators, Rows) /\ Rows \in SUBSET (Clusters \X Keys)
    <2>1. Rows \in SUBSET (Clusters \X Keys)
      BY <1>1 DEF TablesTyped, Rows
    <2>2. GetActiveValidators = Ranked(Rows, {p \in Rows \X Rows : RowBefore(p[1], p[2])})
      BY DEF GetActiveValidators, Rows
    <2> QED BY <2>1, <2>2, RowsListed
  <1>4. CASE GetActiveValidators = <<>>
    <2>1. Rows = {}
      BY <1>3, <1>4, EmptyList
    <2>2. NoFetch /\ pc' = "done" /\ balances' = <<>> /\ DOMAIN balances' = {}
      BY <1>4, EmptyTuple DEF Begin
    <2>3. \A c \in active, k \in Keys : <<c, k>> \notin registered
      <3>1. ASSUME NEW c \in active, NEW k \in Keys, <<c, k>> \in registered PROVE FALSE
        <4>1. <<c, k>> \in Rows
          BY <3>1 DEF Rows
        <4> QED BY <2>1, <4>1
      <3> QED BY <3>1
    <2>4. BalancesExact'
      BY <1>2, <2>2, <2>3 DEF BalancesExact
    <2> QED BY <1>1, <2>2, <2>4, NoFetchInv
  <1>5. CASE GetActiveValidators # <<>>
    <2>1. /\ pc' = "fetch" /\ validators' = GetActiveValidators
          /\ batches' = batchesOf(deduplicatePubkeys(validators'))
          /\ worker' = [i \in DOMAIN batches' |-> "queued"]
          /\ attempt' = [i \in DOMAIN batches' |-> 0]
          /\ started' = 0 /\ merged' = <<>> /\ balances' = balances
      BY <1>5 DEF Begin
    <2> DEFINE ks == deduplicatePubkeys(validators')
               K == {v[2] : v \in Rows}
    <2>2. Lists(ks, K)
      BY <1>3, <2>1, KeysListed
    <2>3. /\ Len(batches') \in Nat /\ DOMAIN batches' = 1..Len(batches')
          /\ \A k \in K : \E i \in DOMAIN batches' : k \in ToSet(batches'[i])
          /\ \A i \in DOMAIN batches' : ToSet(batches'[i]) \subseteq K
      <3> HIDE DEF ks, K
      <3>1. batches' = batchesOf(ks)
        BY <2>1 DEF ks
      <3> QED BY <2>2, <3>1, BatchesCover
    <2>4. K \subseteq Keys /\ \A v \in Rows : v[2] \in K
      BY <1>3
    <2>5. BatchesHoldAll'
      <3>1. Lists(validators', Rows')
        BY <1>2, <1>3, <2>1
      <3>2. \A v \in Rows' : \E i \in DOMAIN batches' : v[2] \in ToSet(batches'[i])
        BY <1>2, <2>3, <2>4
      <3> QED BY <2>3, <3>1, <3>2 DEF BatchesHoldAll
    <2>6. DOMAIN merged' = {} /\ \A i \in DOMAIN batches' : worker'[i] = "queued" /\ attempt'[i] = 0
      BY <2>1, EmptyTuple
    <2>7. FetchLeavesNothing' /\ BalancesExact'
      BY <2>1 DEF FetchLeavesNothing, BalancesExact
    <2>8. HandedOut'
      BY <2>1, <2>3, <2>6 DEF HandedOut
    <2>9. MergedIsAnswered'
      BY <2>6 DEF MergedIsAnswered, Answered
    <2>10. BalancesTypeOK'
      <3>1. Running' = {}
        BY <2>1 DEF Running
      <3>2. Cardinality(Running') <= Concurrency
        <4>1. Cardinality(Running') = 0 /\ Concurrency \in Nat
          BY <3>1, FS_EmptySet, SizeAssumption
        <4> QED BY <4>1
      <3>3. validators' \in Seq(registered')
        <4>1. GetActiveValidators \in Seq(Rows) /\ Rows \subseteq registered
          BY <1>3 DEF Lists, Rows
        <4> QED BY <1>2, <2>1, <4>1
      <3>4. \A i \in DOMAIN batches' : ToSet(batches'[i]) \subseteq Keys
        BY <2>3, <2>4
      <3>5. DOMAIN worker' = DOMAIN batches' /\ DOMAIN attempt' = DOMAIN batches'
        BY <2>1
      <3>6. DOMAIN balances' \subseteq Clusters
        BY <2>1 DEF BalancesInv, BalancesTypeOK
      <3>7. 0 \in 0..BatchRetries /\ started' \in 0..Len(batches')
        BY <2>1, <2>3, SizeAssumption
      <3> QED BY <2>1, <2>6, <3>2, <3>3, <3>4, <3>5, <3>6, <3>7 DEF BalancesTypeOK
    <2> QED BY <1>2, <2>5, <2>7, <2>8, <2>9, <2>10 DEF BalancesInv
  <1> QED BY <1>4, <1>5

\* What the steps of a fetch start from: a batch in flight, a fetch under way.
LEMMA InFlight ==
    ASSUME BalancesInv, NEW i \in Running
    PROVE  /\ pc = "fetch" /\ i \in DOMAIN batches /\ worker[i] = "running" /\ i \in Nat
           /\ ~(started < i) /\ DOMAIN worker = DOMAIN batches /\ IsFiniteSet(Running)
  <1>1. pc = "fetch"
    BY NothingLeft
  <1>2. /\ DOMAIN worker = DOMAIN batches /\ DOMAIN batches = 1..Len(batches) /\ Len(batches) \in Nat
        /\ HandedOut
    BY <1>1 DEF BalancesInv, BalancesTypeOK, BatchesHoldAll
  <1>3. i \in DOMAIN batches /\ worker[i] = "running" /\ Running \subseteq 1..Len(batches)
    BY <1>2 DEF Running
  <1>4. IsFiniteSet(Running)
    <2>1. 1 \in Int /\ Len(batches) \in Int
      BY <1>2
    <2>2. IsFiniteSet(1..Len(batches))
      BY <2>1, FS_Interval
    <2> QED BY <1>3, <2>2, FS_Subset
  <1> QED BY <1>1, <1>2, <1>3, <1>4 DEF HandedOut

\* The parts that no step of a fetch disturbs.
LEMMA FetchFrame ==
    ASSUME BalancesInv, pc = "fetch", UNCHANGED <<tables, pc, validators, batches, balances>>
    PROVE  /\ TablesTyped' /\ FetchLeavesNothing' /\ BatchesHoldAll' /\ BalancesExact'
           /\ registered' = registered /\ beacon' = beacon /\ pc' = "fetch"
           /\ batches' = batches /\ validators' = validators /\ balances' = balances
  <1>1. /\ TablesTyped /\ FetchLeavesNothing /\ BatchesHoldAll /\ UNCHANGED tables
        /\ pc' = pc /\ validators' = validators /\ batches' = batches /\ balances' = balances
    BY DEF BalancesInv
  <1>2. /\ TablesTyped' /\ Rows' = Rows
        /\ registered' = registered /\ active' = active /\ beacon' = beacon
    BY <1>1, TablesKept
  <1>3. FetchLeavesNothing' /\ BalancesExact'
    BY <1>1 DEF FetchLeavesNothing, BalancesExact
  <1>4. BatchesHoldAll'
    BY <1>1, <1>2 DEF BatchesHoldAll
  <1> QED BY <1>1, <1>2, <1>3, <1>4

\* A batch that leaves flight makes room for another.
LEMMA OneLessRunning ==
    ASSUME BalancesInv, NEW i \in Running, NEW w, w # "running",
           worker' = [worker EXCEPT ![i] = w]
    PROVE  Cardinality(Running') <= Concurrency
  <1>1. IsFiniteSet(Running) /\ Cardinality(Running) <= Concurrency
    BY InFlight DEF BalancesInv, BalancesTypeOK
  <1>2. Running' \subseteq Running
    BY DEF Running
  <1>3. /\ Cardinality(Running) \in Nat /\ Cardinality(Running') \in Nat
        /\ Cardinality(Running') <= Cardinality(Running)
    BY <1>1, <1>2, FS_Subset, FS_CardinalityType
  <1>4. Concurrency \in Nat
    BY SizeAssumption
  <1> QED BY <1>1, <1>3, <1>4

LEMMA StartBatchInv == BalancesInv /\ StartBatch => BalancesInv'
  <1> SUFFICES ASSUME BalancesInv, StartBatch PROVE BalancesInv'
    OBVIOUS
  <1>1. /\ pc = "fetch" /\ started < Len(batches) /\ Cardinality(Running) < Concurrency
        /\ started' = started + 1 /\ worker' = [worker EXCEPT ![started + 1] = "running"]
        /\ UNCHANGED <<tables, pc, validators, batches, balances>>
        /\ attempt' = attempt /\ merged' = merged
    BY DEF StartBatch
  <1>2. /\ TablesTyped' /\ FetchLeavesNothing' /\ BatchesHoldAll' /\ BalancesExact'
        /\ registered' = registered /\ beacon' = beacon /\ pc' = "fetch"
        /\ batches' = batches /\ validators' = validators /\ balances' = balances
    BY <1>1, FetchFrame
  <1>3. /\ Len(batches) \in Nat /\ DOMAIN batches = 1..Len(batches) /\ started \in 0..Len(batches)
        /\ DOMAIN worker = DOMAIN batches
    BY <1>1 DEF BalancesInv, BatchesHoldAll, BalancesTypeOK
  <1> DEFINE n == started + 1
  <1>4. n \in DOMAIN batches /\ n \in Nat /\ started < n /\ started \in Nat
    BY <1>1, <1>3
  <1>5. worker[n] = "queued"
    BY <1>4 DEF BalancesInv, HandedOut
  <1>6. /\ DOMAIN worker' = DOMAIN batches /\ worker'[n] = "running"
        /\ \A i \in DOMAIN batches : i # n => worker'[i] = worker[i]
    BY <1>1, <1>3, <1>4
  <1>7. HandedOut'
    <2>1. ASSUME NEW i \in DOMAIN batches PROVE worker'[i] = "queued" <=> started' < i
      <3>1. worker[i] = "queued" <=> started < i
        BY DEF BalancesInv, HandedOut
      <3>2. i \in Nat
        BY <1>3
      <3>3. CASE i = n
        BY <1>1, <1>4, <1>6, <3>3
      <3>4. CASE i # n
        BY <1>1, <1>4, <1>6, <3>1, <3>2, <3>4
      <3> QED BY <3>3, <3>4
    <2> QED BY <1>2, <2>1 DEF HandedOut
  <1>8. \A i \in DOMAIN batches : worker'[i] = "ok" <=> worker[i] = "ok"
    BY <1>5, <1>6
  <1>9. MergedIsAnswered'
    BY <1>1, <1>2, <1>8 DEF BalancesInv, MergedIsAnswered, Answered
  <1>10. Cardinality(Running') <= Concurrency
    <2>1. Running' = Running \cup {n} /\ n \notin Running
      BY <1>2, <1>3, <1>4, <1>5, <1>6 DEF Running
    <2>2. Running \subseteq 1..Len(batches)
      BY <1>3 DEF Running
    <2>3. IsFiniteSet(Running)
      <3>1. 1 \in Int /\ Len(batches) \in Int
        BY <1>3
      <3>2. IsFiniteSet(1..Len(batches))
        BY <3>1, FS_Interval
      <3> QED BY <2>2, <3>2, FS_Subset
    <2>4. Cardinality(Running') = Cardinality(Running) + 1 /\ Cardinality(Running) \in Nat
      BY <2>1, <2>3, FS_AddElement, FS_CardinalityType
    <2>5. Concurrency \in Nat
      BY SizeAssumption
    <2> QED BY <1>1, <2>4, <2>5
  <1>11. BalancesTypeOK'
    <2>1. started' \in 0..Len(batches)
      BY <1>1, <1>3
    <2>2. \A i \in DOMAIN batches : worker'[i] \in {"queued", "running", "ok", "failed"}
      BY <1>6 DEF BalancesInv, BalancesTypeOK
    <2> QED BY <1>1, <1>2, <1>6, <1>10, <2>1, <2>2 DEF BalancesInv, BalancesTypeOK
  <1> QED BY <1>2, <1>7, <1>9, <1>11 DEF BalancesInv

LEMMA AnswerBatchInv == BalancesInv /\ AnswerBatch => BalancesInv'
  <1> SUFFICES ASSUME BalancesInv, AnswerBatch PROVE BalancesInv'
    OBVIOUS
  <1>1. PICK i \in Running :
          /\ merged' = [k \in DOMAIN merged \cup
                              {k \in ToSet(batches[i]) : beacon[k] # Absent} |->
                            IF k \in ToSet(batches[i]) THEN beacon[k] ELSE merged[k]]
          /\ worker' = [worker EXCEPT ![i] = "ok"]
    BY DEF AnswerBatch
  <1>2. /\ UNCHANGED <<tables, pc, validators, batches, balances>>
        /\ started' = started /\ attempt' = attempt
    BY DEF AnswerBatch
  <1>3. /\ pc = "fetch" /\ i \in DOMAIN batches /\ worker[i] = "running"
        /\ ~(started < i) /\ DOMAIN worker = DOMAIN batches
    BY InFlight
  <1>4. /\ TablesTyped' /\ FetchLeavesNothing' /\ BatchesHoldAll' /\ BalancesExact'
        /\ registered' = registered /\ beacon' = beacon /\ pc' = "fetch"
        /\ batches' = batches /\ validators' = validators /\ balances' = balances
    BY <1>2, <1>3, FetchFrame
  <1>5. /\ DOMAIN worker' = DOMAIN batches /\ worker'[i] = "ok"
        /\ \A j \in DOMAIN batches : j # i => worker'[j] = worker[j]
    BY <1>1, <1>3
  <1>6. HandedOut'
    BY <1>2, <1>3, <1>4, <1>5 DEF BalancesInv, HandedOut
  <1>7. \A k : Answered(k)' <=> Answered(k) \/ k \in ToSet(batches[i])
    BY <1>3, <1>4, <1>5 DEF Answered
  <1>8. /\ DOMAIN merged' = DOMAIN merged \cup {k \in ToSet(batches[i]) : beacon[k] # Absent}
        /\ \A k \in DOMAIN merged' :
              merged'[k] = IF k \in ToSet(batches[i]) THEN beacon[k] ELSE merged[k]
    BY <1>1
  <1>9. MergedIsAnswered'
    <2>1. ASSUME NEW k \in Keys
          PROVE  /\ k \in DOMAIN merged' <=> beacon[k] # Absent /\ Answered(k)'
                 /\ k \in DOMAIN merged' => merged'[k] = beacon[k]
      <3>1. /\ k \in DOMAIN merged <=> beacon[k] # Absent /\ Answered(k)
            /\ k \in DOMAIN merged => merged[k] = beacon[k]
        BY DEF BalancesInv, MergedIsAnswered
      <3> QED BY <1>7, <1>8, <3>1
    <2> QED BY <1>4, <2>1 DEF MergedIsAnswered
  <1>10. Cardinality(Running') <= Concurrency
    BY <1>1, OneLessRunning
  <1>11. BalancesTypeOK'
    <2>1. \A j \in DOMAIN batches : worker'[j] \in {"queued", "running", "ok", "failed"}
      BY <1>5 DEF BalancesInv, BalancesTypeOK
    <2>2. DOMAIN merged' \subseteq Keys
      BY <1>3, <1>8 DEF BalancesInv, BalancesTypeOK
    <2> QED BY <1>2, <1>4, <1>5, <1>10, <2>1, <2>2 DEF BalancesInv, BalancesTypeOK
  <1> QED BY <1>4, <1>6, <1>9, <1>11 DEF BalancesInv

LEMMA RetryBatchInv == BalancesInv /\ RetryBatch => BalancesInv'
  <1> SUFFICES ASSUME BalancesInv, RetryBatch PROVE BalancesInv'
    OBVIOUS
  <1>1. PICK i \in Running :
          attempt[i] < BatchRetries /\ attempt' = [attempt EXCEPT ![i] = @ + 1]
    BY DEF RetryBatch
  <1>2. /\ UNCHANGED <<tables, pc, validators, batches, balances>>
        /\ started' = started /\ worker' = worker /\ merged' = merged
    BY DEF RetryBatch
  <1>3. pc = "fetch" /\ i \in DOMAIN batches
    BY InFlight
  <1>4. /\ TablesTyped' /\ FetchLeavesNothing' /\ BatchesHoldAll' /\ BalancesExact'
        /\ registered' = registered /\ beacon' = beacon /\ pc' = "fetch"
        /\ batches' = batches /\ validators' = validators /\ balances' = balances
    BY <1>2, <1>3, FetchFrame
  <1>5. HandedOut' /\ MergedIsAnswered'
    BY <1>2, <1>4 DEF BalancesInv, HandedOut, MergedIsAnswered, Answered
  <1>6. Running' = Running
    BY <1>2 DEF Running
  <1>7. DOMAIN attempt' = DOMAIN batches /\ \A j \in DOMAIN batches : attempt'[j] \in 0..BatchRetries
    <2>1. DOMAIN attempt = DOMAIN batches /\ \A j \in DOMAIN batches : attempt[j] \in 0..BatchRetries
      BY DEF BalancesInv, BalancesTypeOK
    <2>2. BatchRetries \in Nat
      BY SizeAssumption
    <2> QED BY <1>1, <1>3, <2>1, <2>2
  <1>8. BalancesTypeOK'
    BY <1>2, <1>4, <1>6, <1>7 DEF BalancesInv, BalancesTypeOK
  <1> QED BY <1>4, <1>5, <1>8 DEF BalancesInv

LEMMA FailBatchInv == BalancesInv /\ FailBatch => BalancesInv'
  <1> SUFFICES ASSUME BalancesInv, FailBatch PROVE BalancesInv'
    OBVIOUS
  <1>1. PICK i \in Running : worker' = [worker EXCEPT ![i] = "failed"]
    BY DEF FailBatch
  <1>2. /\ UNCHANGED <<tables, pc, validators, batches, balances>>
        /\ started' = started /\ attempt' = attempt /\ merged' = merged
    BY DEF FailBatch
  <1>3. /\ pc = "fetch" /\ i \in DOMAIN batches /\ worker[i] = "running"
        /\ ~(started < i) /\ DOMAIN worker = DOMAIN batches
    BY InFlight
  <1>4. /\ TablesTyped' /\ FetchLeavesNothing' /\ BatchesHoldAll' /\ BalancesExact'
        /\ registered' = registered /\ beacon' = beacon /\ pc' = "fetch"
        /\ batches' = batches /\ validators' = validators /\ balances' = balances
    BY <1>2, <1>3, FetchFrame
  <1>5. /\ DOMAIN worker' = DOMAIN batches /\ worker'[i] = "failed"
        /\ \A j \in DOMAIN batches : j # i => worker'[j] = worker[j]
    BY <1>1, <1>3
  <1>6. HandedOut'
    BY <1>2, <1>3, <1>4, <1>5 DEF BalancesInv, HandedOut
  <1>7. \A j \in DOMAIN batches : worker'[j] = "ok" <=> worker[j] = "ok"
    BY <1>3, <1>5
  <1>8. MergedIsAnswered'
    BY <1>2, <1>4, <1>7 DEF BalancesInv, MergedIsAnswered, Answered
  <1>9. Cardinality(Running') <= Concurrency
    BY <1>1, OneLessRunning
  <1>10. BalancesTypeOK'
    <2>1. \A j \in DOMAIN batches : worker'[j] \in {"queued", "running", "ok", "failed"}
      BY <1>5 DEF BalancesInv, BalancesTypeOK
    <2> QED BY <1>2, <1>4, <1>5, <1>9, <2>1 DEF BalancesInv, BalancesTypeOK
  <1> QED BY <1>4, <1>6, <1>8, <1>10 DEF BalancesInv

\* When g.Wait returns without an error every batch was answered, so nothing is
\* missing from what the sum is taken of.
LEMMA WaitInv == BalancesInv /\ Wait => BalancesInv'
  <1> SUFFICES ASSUME BalancesInv, Wait PROVE BalancesInv'
    OBVIOUS
  <1>1. /\ pc = "fetch" /\ started = Len(batches) /\ Running = {}
        /\ NoFetch /\ UNCHANGED tables /\ TablesTyped
    BY DEF Wait, BalancesInv
  <1>2. /\ Rows' = Rows /\ registered' = registered /\ active' = active /\ beacon' = beacon
    BY <1>1, TablesKept
  <1>3. CASE Failed # {}
    <2>1. pc' = "error" /\ balances' = <<>>
      BY <1>3 DEF Wait
    <2>2. DOMAIN balances' \subseteq Clusters /\ BalancesExact'
      BY <2>1, EmptyTuple DEF BalancesExact
    <2> QED BY <1>1, <2>1, <2>2, NoFetchInv
  <1>4. CASE Failed = {}
    <2>1. pc' = "done" /\ balances' = aggregateByCluster(validators, merged)
      BY <1>4 DEF Wait
    <2>2. /\ Lists(validators, Rows) /\ Len(batches) \in Nat /\ DOMAIN batches = 1..Len(batches)
          /\ \A v \in Rows : \E i \in DOMAIN batches : v[2] \in ToSet(batches[i])
      BY <1>1 DEF BalancesInv, BatchesHoldAll
    <2>3. \A i \in DOMAIN batches : worker[i] = "ok"
      <3>1. ASSUME NEW i \in DOMAIN batches PROVE worker[i] = "ok"
        <4>1. i \in DOMAIN worker /\ worker[i] \in {"queued", "running", "ok", "failed"}
          BY DEF BalancesInv, BalancesTypeOK
        <4>2. worker[i] # "queued"
          <5>1. ~(started < i)
            BY <1>1, <2>2
          <5> QED BY <5>1 DEF BalancesInv, HandedOut
        <4>3. worker[i] # "running" /\ worker[i] # "failed"
          BY <1>1, <1>4, <4>1 DEF Running, Failed
        <4> QED BY <4>1, <4>2, <4>3
      <3> QED BY <3>1
    <2>4. \A v \in Rows : v[2] \in Keys /\ Answered(v[2])
      <3>1. \A v \in Rows : v[2] \in Keys
        BY <1>1 DEF TablesTyped, Rows
      <3> QED BY <2>2, <2>3, <3>1 DEF Answered
    <2>5. Received(merged, beacon, Rows)
      BY <2>4 DEF BalancesInv, MergedIsAnswered, Received
    <2>6. /\ DOMAIN balances' = {c \in active : \E k \in Keys : <<c, k>> \in registered}
          /\ \A c \in DOMAIN balances' : balances'[c] = TrueBalance(c)
      BY <1>1, <2>1, <2>2, <2>5, ReportExact
    <2>7. \A c : TrueBalance(c)' = TrueBalance(c)
      BY <1>2 DEF TrueBalance
    <2>8. BalancesExact'
      BY <1>2, <2>6, <2>7 DEF BalancesExact
    <2>9. DOMAIN balances' \subseteq Clusters
      BY <1>1, <2>6 DEF TablesTyped
    <2> QED BY <1>1, <2>1, <2>8, <2>9, NoFetchInv
  <1> QED BY <1>3, <1>4

LEMMA AgainInv == BalancesInv /\ Again => BalancesInv'
  <1> SUFFICES ASSUME BalancesInv, Again PROVE BalancesInv'
    OBVIOUS
  <1>1. /\ pc # "fetch" /\ pc' = "idle" /\ balances' = <<>> /\ UNCHANGED tables /\ TablesTyped
        /\ UNCHANGED <<validators, batches, started, worker, attempt, merged>>
    BY DEF Again, BalancesInv
  <1>2. NoFetch
    BY <1>1 DEF BalancesInv, FetchLeavesNothing, NoFetch
  <1>3. DOMAIN balances' \subseteq Clusters /\ BalancesExact'
    BY <1>1, EmptyTuple DEF BalancesExact
  <1> QED BY <1>1, <1>2, <1>3, NoFetchInv

LEMMA BalancesNextInv == BalancesInv /\ [BalancesNext]_balanceVars => BalancesInv'
  <1> SUFFICES ASSUME BalancesInv, [BalancesNext]_balanceVars PROVE BalancesInv'
    OBVIOUS
  <1>1. CASE Begin
    BY <1>1, BeginInv
  <1>2. CASE StartBatch
    BY <1>2, StartBatchInv
  <1>3. CASE AnswerBatch
    BY <1>3, AnswerBatchInv
  <1>4. CASE RetryBatch
    BY <1>4, RetryBatchInv
  <1>5. CASE FailBatch
    BY <1>5, FailBatchInv
  <1>6. CASE Wait
    BY <1>6, WaitInv
  <1>7. CASE Again
    BY <1>7, AgainInv
  <1>8. CASE UNCHANGED balanceVars
    <2>1. /\ registered' = registered /\ active' = active /\ beacon' = beacon /\ pc' = pc
          /\ validators' = validators /\ batches' = batches /\ started' = started
          /\ worker' = worker /\ attempt' = attempt /\ merged' = merged /\ balances' = balances
      BY <1>8 DEF balanceVars
    <2>2. Rows' = Rows /\ Running' = Running /\ \A c : TrueBalance(c)' = TrueBalance(c)
      BY <2>1 DEF Rows, Running, TrueBalance
    <2>3. TablesTyped' /\ BalancesTypeOK' /\ FetchLeavesNothing'
      BY <2>1, <2>2 DEF BalancesInv, TablesTyped, BalancesTypeOK, FetchLeavesNothing
    <2>4. BatchesHoldAll' /\ HandedOut' /\ MergedIsAnswered'
      BY <2>1, <2>2 DEF BalancesInv, BatchesHoldAll, HandedOut, MergedIsAnswered, Answered
    <2>5. BalancesExact'
      BY <2>1, <2>2 DEF BalancesInv, BalancesExact
    <2> QED BY <2>3, <2>4, <2>5 DEF BalancesInv
  <1> QED BY <1>1, <1>2, <1>3, <1>4, <1>5, <1>6, <1>7, <1>8 DEF BalancesNext

\* The invariant of a fetch: every validator of an active cluster is in a
\* batch, and what was received is the beacon state of the answered batches
\* (GetValidatorBalances).
THEOREM BalancesInvariant == BalancesSpec => []BalancesInv
  <1>1. BalancesInit => BalancesInv
    BY BalancesInitInv
  <1>2. BalancesInv /\ [BalancesNext]_balanceVars => BalancesInv'
    BY BalancesNextInv
  <1> QED BY <1>1, <1>2, PTL DEF BalancesSpec

\* Never more than balanceFetchConcurrency requests are in flight, no batch is
\* retried more than MaxRetries times (GetValidatorBalances, WithRetry).
THEOREM BalancesTypeCorrect == BalancesSpec => []BalancesTypeOK
  <1>1. BalancesInv => BalancesTypeOK
    BY DEF BalancesInv
  <1> QED BY <1>1, BalancesInvariant, PTL

\* For any tables, beacon state, batch size and concurrency: the balances a
\* commit is built from are the floored sum of all the validators of each
\* active cluster, and of no other cluster (fetchBalances, aggregateByCluster).
THEOREM BalancesAreExact == BalancesSpec => []BalancesExact
  <1>1. BalancesInv => BalancesExact
    BY DEF BalancesInv
  <1> QED BY <1>1, BalancesInvariant, PTL

=============================================================================
