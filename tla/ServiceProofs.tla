---------------------------- MODULE ServiceProofs ---------------------------
(***************************************************************************)
(* The database is bound to one chain, the services are waited for, and a  *)
(* failure is reported, for every set of chains.  Each is inductive only   *)
(* together with what the start has established when the services run      *)
(* (ChainBound) and with where the first error comes from (ErrorsBacked).  *)
(***************************************************************************)
EXTENDS Service, TLAPS

\* The inductive invariant of the process.
IInv == TypeOK /\ RowsOfOneChain /\ ChainBound /\ ErrorsBacked /\ FailureIsReported

LEMMA InitIInv == Init => IInv
<1> SUFFICES ASSUME Init PROVE IInv
    OBVIOUS
<1>1. TypeOK
      BY DEF Init, TypeOK, AllOff, NoFlags, Services, Tables
<1>2. RowsOfOneChain
      BY DEF Init, RowsOfOneChain
<1>3. Running = {}
      BY DEF Init, Running, AllOff
<1>4. ChainBound /\ ErrorsBacked /\ FailureIsReported
      BY <1>3 DEF Init, ChainBound, ErrorsBacked, FailureIsReported, AllOff
<1>5. QED
      BY <1>1, <1>2, <1>4 DEF IInv

-----------------------------------------------------------------------------
(* The start of the process.                                               *)

LEMMA StartStep == IInv /\ Start => IInv'
<1> SUFFICES ASSUME IInv, Start PROVE IInv'
    OBVIOUS
<1>1. PICK f \in BOOLEAN, u \in BOOLEAN, n \in Chains :
          /\ flags' = [fresh |-> f, updater |-> u, node |-> n]
          /\ pc' = IF f THEN "fresh" ELSE "validate"
      BY DEF Start
<1>2. Running' = {}
      BY DEF Start, Running, AllOff
<1>3. TypeOK'
      BY <1>1 DEF Start, IInv, TypeOK, AllOff, Services, Tables
<1>4. RowsOfOneChain'
      BY DEF Start, IInv, RowsOfOneChain
<1>5. ChainBound'
      BY <1>1, ChainsAssumption DEF Start, ChainBound
<1>6. ErrorsBacked' /\ FailureIsReported'
      BY <1>1, <1>2 DEF Start, ErrorsBacked, FailureIsReported, AllOff
<1>7. QED
      BY <1>3, <1>4, <1>5, <1>6 DEF IInv

\* An exit keeps the tables, and claims success only after a signal.
LEMMA ExitStep ==
    ASSUME IInv, NEW e \in {"ok", "error"}, Exit(e), UNCHANGED <<chainId, data>>,
           Running = {}, e = "ok" => signalled
    PROVE  IInv'
BY DEF Exit, IInv, TypeOK, RowsOfOneChain, ChainBound, ErrorsBacked,
   FailureIsReported, Running, Services, Tables

LEMMA StartFailsStep == IInv /\ StartFails => IInv'
<1> SUFFICES ASSUME IInv, StartFails PROVE IInv'
    OBVIOUS
<1>1. Running = {}
      BY DEF IInv, ErrorsBacked, StartFails
<1>2. QED
      BY <1>1, ExitStep DEF StartFails

LEMMA ClearAllStateStep == IInv /\ ClearAllState => IInv'
BY ChainsAssumption DEF ClearAllState, IInv, TypeOK, RowsOfOneChain, ChainBound, ErrorsBacked,
   FailureIsReported, Running, Services, Tables

\* Storing the chain id is safe because a database without one is empty.
LEMMA ValidateStep == IInv /\ validateChainID => IInv'
<1> SUFFICES ASSUME IInv, validateChainID PROVE IInv'
    OBVIOUS
<1>1. CASE pc = "validate" /\ chainId \notin {NoChain, flags.node}
  <2>1. Running = {}
        BY <1>1 DEF IInv, ErrorsBacked
  <2>2. Exit("error") /\ UNCHANGED <<chainId, data>>
        BY <1>1 DEF validateChainID
  <2>3. QED
        BY <2>1, <2>2, ExitStep
<1>2. CASE pc = "validate" /\ chainId \in {NoChain, flags.node}
      BY <1>2, ChainsAssumption DEF validateChainID, IInv, TypeOK, RowsOfOneChain,
         ChainBound, ErrorsBacked, FailureIsReported, Running, Services, Tables
<1>3. CASE pc = "setChain"
  <2>1. \A t \in Tables : data[t] = {}
        BY <1>3, ChainsAssumption DEF IInv, TypeOK, RowsOfOneChain, ChainBound
  <2>2. QED
        BY <1>3, <2>1 DEF validateChainID, IInv, TypeOK, RowsOfOneChain,
           ChainBound, ErrorsBacked, FailureIsReported, Running, Services, Tables
<1>4. QED
      BY <1>1, <1>2, <1>3 DEF validateChainID

LEMMA StartGroupStep == IInv /\ StartGroup => IInv'
<1> SUFFICES ASSUME IInv, StartGroup PROVE IInv'
    OBVIOUS
<1>1. TypeOK'
      BY DEF StartGroup, IInv, TypeOK
<1>2. RowsOfOneChain' /\ ChainBound' /\ FailureIsReported'
      BY DEF StartGroup, IInv, RowsOfOneChain, ChainBound, FailureIsReported
<1>3. /\ svc'["api"] = "running"
      /\ \A s \in Services : svc'[s] # "stopping"
      BY DEF StartGroup, Services, Servers
<1>4. ErrorsBacked'
      BY <1>3 DEF StartGroup, IInv, ErrorsBacked
<1>5. QED
      BY <1>1, <1>2, <1>4 DEF IInv

-----------------------------------------------------------------------------
(* The services.                                                           *)

\* A service that returns: with a failure, or with the error of a context
\* that is done.
LEMMA ReturnStep ==
    ASSUME IInv, NEW s \in Services, NEW err \in {"canceled", "deadline", "failure"},
           pc = "group", svc[s] \in {"running", "stopping"}, Return(s, err),
           err = "canceled" => cancelled, Same, UNCHANGED data
    PROVE  IInv'
BY DEF Return, Same, IInv, TypeOK, RowsOfOneChain, ChainBound, ErrorsBacked,
   FailureIsReported, Running, Services, Tables

LEMMA ServerFailsStep ==
    ASSUME IInv, NEW s \in Services, ServerFails(s) PROVE IInv'
<1>1. pc = "group"
      BY DEF ServerFails, IInv, ErrorsBacked, Running
<1>2. QED
      BY <1>1, ReturnStep DEF ServerFails

LEMMA ServerStopsStep ==
    ASSUME IInv, NEW s \in Services, ServerStops(s) PROVE IInv'
<1>1. pc = "group"
      BY DEF ServerStops, IInv, ErrorsBacked, Running
<1>2. CASE svc[s] = "running"
  <2>1. /\ cancelled /\ svc' = [svc EXCEPT ![s] = "stopping"]
        /\ UNCHANGED <<gErr, cancelled, data>> /\ Same
        BY <1>2 DEF ServerStops
  <2>2. TypeOK'
        BY <2>1 DEF Same, IInv, TypeOK
  <2>3. RowsOfOneChain' /\ ChainBound' /\ FailureIsReported'
        BY <2>1 DEF Same, IInv, RowsOfOneChain, ChainBound, FailureIsReported
  <2>4. ErrorsBacked'
        BY <1>1, <1>2, <2>1 DEF Same, IInv, TypeOK, ErrorsBacked
  <2>5. QED
        BY <2>2, <2>3, <2>4 DEF IInv
<1>3. CASE svc[s] = "stopping"
  <2>1. cancelled
        BY <1>3 DEF IInv, ErrorsBacked
  <2>2. QED
        BY <1>1, <1>3, <2>1, ReturnStep DEF ServerStops
<1>4. QED
      BY <1>2, <1>3 DEF ServerStops

\* A row is written while the group runs, so of the chain that is stored.
LEMMA WriteStep ==
    ASSUME IInv, NEW s \in Services, Write(s) PROVE IInv'
<1>1. pc = "group"
      BY DEF Write, IInv, ErrorsBacked, Running
<1>2. flags.node = chainId /\ chainId \in Chains
      BY <1>1 DEF IInv, TypeOK, ChainBound
<1>3. PICK t \in Tables : data' = [data EXCEPT ![t] = @ \cup {chainId}]
      BY <1>2 DEF Write, Tables
<1>4. TypeOK' /\ RowsOfOneChain'
  <2>1. data \in [Tables -> SUBSET Chains] /\ \A u \in Tables : data[u] \subseteq {chainId}
        BY DEF IInv, TypeOK, RowsOfOneChain
  <2>2. data' \in [Tables -> SUBSET Chains]
        BY <1>2, <1>3, <2>1
  <2>3. \A u \in Tables : data'[u] \subseteq {chainId}
        BY <1>3, <2>1
  <2>4. TypeOK'
        BY <2>2 DEF Write, Same, IInv, TypeOK
  <2>5. RowsOfOneChain'
        BY <2>3 DEF Write, Same, RowsOfOneChain
  <2>6. QED
        BY <2>4, <2>5
<1>5. ChainBound' /\ ErrorsBacked' /\ FailureIsReported'
      BY DEF Write, Same, IInv, ChainBound, ErrorsBacked, FailureIsReported, Running
<1>6. QED
      BY <1>4, <1>5 DEF IInv

LEMMA LoopFailsStep ==
    ASSUME IInv, NEW s \in Services, LoopFails(s) PROVE IInv'
<1>1. pc = "group"
      BY DEF LoopFails, IInv, ErrorsBacked, Running
<1>2. QED
      BY <1>1, ReturnStep DEF LoopFails

LEMMA LoopStopsStep ==
    ASSUME IInv, NEW s \in Services, LoopStops(s) PROVE IInv'
<1>1. pc = "group"
      BY DEF LoopStops, IInv, ErrorsBacked, Running
<1>2. QED
      BY <1>1, ReturnStep DEF LoopStops

LEMMA SyncDoneStep == IInv /\ SyncDone => IInv'
<1> SUFFICES ASSUME IInv, SyncDone PROVE IInv'
    OBVIOUS
<1>1. pc = "group"
      BY DEF SyncDone, IInv, ErrorsBacked, Running, Services
<1>2. TypeOK'
      BY DEF SyncDone, Same, IInv, TypeOK, Services
<1>3. RowsOfOneChain' /\ ChainBound' /\ FailureIsReported'
      BY DEF SyncDone, Same, IInv, RowsOfOneChain, ChainBound, FailureIsReported
<1>4. svc'["api"] = svc["api"]
      BY DEF SyncDone, IInv, TypeOK, Services
<1>5. \A s \in Services : svc'[s] = "stopping" => svc[s] = "stopping"
      BY DEF SyncDone, IInv, TypeOK, Services
<1>6. ErrorsBacked'
      BY <1>1, <1>4, <1>5 DEF SyncDone, Same, IInv, ErrorsBacked
<1>7. QED
      BY <1>2, <1>3, <1>6 DEF IInv

LEMMA SignalStep == IInv /\ Signal => IInv'
<1> SUFFICES ASSUME IInv, Signal PROVE IInv'
    OBVIOUS
<1>1. TypeOK'
      BY DEF Signal, IInv, TypeOK
<1>2. RowsOfOneChain' /\ ChainBound' /\ FailureIsReported'
      BY DEF Signal, IInv, RowsOfOneChain, ChainBound, FailureIsReported
<1>3. ErrorsBacked'
      BY DEF Signal, IInv, ErrorsBacked, Running
<1>4. QED
      BY <1>1, <1>2, <1>3 DEF IInv

\* The API server has returned, so there is a first error; it is that of a
\* done context only after a signal.
LEMMA WaitStep == IInv /\ Wait => IInv'
<1> SUFFICES ASSUME IInv, Wait PROVE IInv'
    OBVIOUS
<1>1. svc["api"] = "returned"
      BY DEF Wait, IInv, TypeOK, ErrorsBacked, Running, Services
<1>2. ExitStatus = "ok" => signalled
      BY <1>1 DEF Wait, IInv, ErrorsBacked, ExitStatus
<1>3. ExitStatus \in {"ok", "error"}
      BY DEF ExitStatus
<1>4. QED
      BY <1>2, <1>3, ExitStep DEF Wait

LEMMA KillStep == IInv /\ Kill => IInv'
<1> SUFFICES ASSUME IInv, Kill PROVE IInv'
    OBVIOUS
<1>1. Running' = {}
      BY DEF Kill, Running, AllOff
<1>2. TypeOK'
      BY DEF Kill, IInv, TypeOK, AllOff, Services
<1>3. RowsOfOneChain' /\ ChainBound' /\ FailureIsReported'
      BY DEF Kill, IInv, RowsOfOneChain, ChainBound, FailureIsReported
<1>4. ErrorsBacked'
      BY <1>1 DEF Kill, ErrorsBacked, AllOff
<1>5. QED
      BY <1>2, <1>3, <1>4 DEF IInv

LEMMA StutterStep == IInv /\ UNCHANGED vars => IInv'
BY DEF vars, IInv, TypeOK, RowsOfOneChain, ChainBound, ErrorsBacked, FailureIsReported, Running

-----------------------------------------------------------------------------
LEMMA NextIInv == IInv /\ [Next]_vars => IInv'
<1> SUFFICES ASSUME IInv, [Next]_vars PROVE IInv'
    OBVIOUS
<1>1. CASE Start \/ StartFails \/ ClearAllState \/ validateChainID \/ StartGroup
      BY <1>1, StartStep, StartFailsStep, ClearAllStateStep, ValidateStep, StartGroupStep
<1>2. CASE SyncDone \/ Signal \/ Wait \/ Kill
      BY <1>2, SyncDoneStep, SignalStep, WaitStep, KillStep
<1>3. ASSUME NEW s \in Services, Service(s) PROVE IInv'
      BY <1>3, ServerFailsStep, ServerStopsStep, WriteStep, LoopFailsStep, LoopStopsStep
      DEF Service
<1>4. QED
      BY <1>1, <1>2, <1>3, StutterStep DEF Next

LEMMA ServiceInvariant == Spec => []IInv
BY InitIInv, NextIInv, PTL DEF Spec

\* All rows of the database are of the chain whose id it stores, over kills,
\* restarts, --fresh and nodes of other chains (validateChainID,
\* ClearAllState).
THEOREM DatabaseOfOneChain == Spec => []RowsOfOneChain
<1>1. IInv => RowsOfOneChain
      BY DEF IInv
<1>2. QED
      BY <1>1, ServiceInvariant, PTL

\* Services run only against the node whose chain id is stored.
THEOREM ServicesOnStoredChain == Spec => []ChainBound
<1>1. IInv => ChainBound
      BY DEF IInv
<1>2. QED
      BY <1>1, ServiceInvariant, PTL

\* The database is not closed under a running service (runServices).
THEOREM StoreClosedLast == Spec => []StoreOutlivesServices
<1>1. IInv => StoreOutlivesServices
      BY DEF IInv, ErrorsBacked, StoreOutlivesServices
<1>2. QED
      BY <1>1, ServiceInvariant, PTL

\* The process ends without an error only after a signal (run).
THEOREM StopsAreReported == Spec => []FailureIsReported
<1>1. IInv => FailureIsReported
      BY DEF IInv
<1>2. QED
      BY <1>1, ServiceInvariant, PTL

=============================================================================
