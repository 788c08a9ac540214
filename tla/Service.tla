------------------------------- MODULE Service ------------------------------
(***************************************************************************)
(* The process: "oracle run" from its start to its exit                    *)
(* (cmd/oracle/commands/run.go, with Run of api/api.go).  The database is  *)
(* opened, cleared on --fresh and bound to the chain of the node; then the *)
(* services run in one errgroup: the two HTTP servers, the initial sync,   *)
(* and the oracle and the updater it starts.  The first error cancels the  *)
(* others.  The process may be killed at any step and started again,       *)
(* against a node of another chain.                                        *)
(***************************************************************************)
EXTENDS Integers, FiniteSets

CONSTANTS Chains,   \* chains the operator may point the process at
          NoChain   \* chain_id is NULL

ASSUME ChainsAssumption == NoChain \notin Chains

Services == {"metrics", "api", "sync", "oracle", "updater"}
Servers  == {"metrics", "api"}
Tables   == {"events", "commits"}   \* what the syncer and the oracle write

VARIABLES
    chainId,    \* sync_progress.chain_id
    data,       \* the chains whose rows each table holds
    store,      \* the process has the database open
    pc,         \* where run is
    flags,      \* --fresh, --updater, and the chain of the configured node
    svc,        \* each service: off, running, stopping or returned
    gErr,       \* first error of the group
    cancelled,  \* gCtx is done
    signalled,  \* SIGINT or SIGTERM
    exit        \* how the last process ended

vars == <<chainId, data, store, pc, flags, svc, gErr, cancelled, signalled, exit>>

AllOff == [s \in Services |-> "off"]
NoFlags == [fresh |-> FALSE, updater |-> FALSE, node |-> NoChain]

TypeOK ==
    /\ chainId \in Chains \cup {NoChain}
    /\ data \in [Tables -> SUBSET Chains]
    /\ flags \in [fresh : BOOLEAN, updater : BOOLEAN, node : Chains \cup {NoChain}]
    /\ pc \in {"down", "fresh", "validate", "setChain", "clients", "group"}
    /\ svc \in [Services -> {"off", "running", "stopping", "returned"}]
    /\ gErr \in {"none", "canceled", "deadline", "failure"}
    /\ exit \in {"none", "ok", "error", "killed"}
    /\ store \in BOOLEAN /\ cancelled \in BOOLEAN /\ signalled \in BOOLEAN

Init ==
    /\ chainId = NoChain /\ data = [t \in Tables |-> {}]
    /\ store = FALSE /\ pc = "down" /\ flags = NoFlags
    /\ svc = AllOff /\ gErr = "none" /\ cancelled = FALSE
    /\ signalled = FALSE /\ exit = "none"

-----------------------------------------------------------------------------
(* run, up to the services.                                                *)

\* The configuration is loaded and the database opened.
Start ==
    /\ pc = "down"
    /\ \E f, u \in BOOLEAN, n \in Chains :
          /\ flags' = [fresh |-> f, updater |-> u, node |-> n]
          /\ pc' = IF f THEN "fresh" ELSE "validate"
    /\ store' = TRUE
    /\ svc' = AllOff /\ gErr' = "none" /\ cancelled' = FALSE
    /\ signalled' = FALSE /\ exit' = "none"
    /\ UNCHANGED <<chainId, data>>

\* The process ends and its deferred calls close the database.
Exit(e) ==
    /\ pc' = "down" /\ store' = FALSE /\ exit' = e
    /\ UNCHANGED <<flags, svc, gErr, cancelled, signalled>>

\* A step of the start fails: the database, the node, a client, a signal.
StartFails ==
    /\ pc \in {"fresh", "validate", "setChain", "clients"}
    /\ Exit("error")
    /\ UNCHANGED <<chainId, data>>

\* Mutant: the commits are kept.
ClearAllStateKeepsCommits ==
    /\ pc = "fresh" /\ pc' = "validate"
    /\ chainId' = NoChain /\ data' = [data EXCEPT !["events"] = {}]
    /\ UNCHANGED <<store, flags, svc, gErr, cancelled, signalled, exit>>

\* Every table and the chain id in one transaction.
ClearAllState ==
    /\ pc = "fresh" /\ pc' = "validate"
    /\ chainId' = NoChain /\ data' = [t \in Tables |-> {}]
    /\ UNCHANGED <<store, flags, svc, gErr, cancelled, signalled, exit>>

\* Mutant: a database of another chain is taken over.
validateChainIDTakesOver ==
    /\ pc \in {"validate", "setChain"}
    /\ chainId' = IF chainId = NoChain THEN flags.node ELSE chainId
    /\ pc' = "clients"
    /\ UNCHANGED <<data, store, flags, svc, gErr, cancelled, signalled, exit>>

\* The node's chain id against the stored one: the first start stores it, in
\* a step of its own; another chain ends the process.
validateChainID ==
    \/ /\ pc = "validate"
       /\ \/ chainId = NoChain /\ pc' = "setChain" /\ UNCHANGED <<store, flags, svc, gErr, cancelled, signalled, exit>>
          \/ chainId = flags.node /\ pc' = "clients" /\ UNCHANGED <<store, flags, svc, gErr, cancelled, signalled, exit>>
          \/ chainId \notin {NoChain, flags.node} /\ Exit("error")
       /\ UNCHANGED <<chainId, data>>
    \/ /\ pc = "setChain"
       /\ chainId' = flags.node /\ pc' = "clients"
       /\ UNCHANGED <<data, store, flags, svc, gErr, cancelled, signalled, exit>>

\* The beacon and contract clients are made and the group is started.
StartGroup ==
    /\ pc = "clients" /\ pc' = "group"
    /\ svc' = [s \in Services |-> IF s \in Servers \cup {"sync"} THEN "running" ELSE "off"]
    /\ cancelled' = signalled
    /\ UNCHANGED <<chainId, data, store, flags, gErr, signalled, exit>>

-----------------------------------------------------------------------------
(* The services.                                                           *)

\* Mutant: the group does not cancel its context.
ReturnAlone(s, err) ==
    /\ svc' = [svc EXCEPT ![s] = "returned"]
    /\ gErr' = IF gErr = "none" THEN err ELSE gErr
    /\ UNCHANGED cancelled

\* Mutant: the last error is kept.
ReturnLast(s, err) ==
    /\ svc' = [svc EXCEPT ![s] = "returned"]
    /\ gErr' = err
    /\ cancelled' = TRUE

\* A service returns an error; the first is kept and cancels the others.
Return(s, err) ==
    /\ svc' = [svc EXCEPT ![s] = "returned"]
    /\ gErr' = IF gErr = "none" THEN err ELSE gErr
    /\ cancelled' = TRUE

Same == UNCHANGED <<chainId, store, pc, flags, signalled, exit>>

\* ListenAndServe fails: the address is in use.
ServerFails(s) ==
    /\ s \in Servers /\ svc[s] = "running"
    /\ Return(s, "failure")
    /\ Same /\ UNCHANGED data

\* Shutdown waits for the requests in progress, five seconds at most.
ServerStops(s) ==
    /\ s \in Servers
    /\ \/ /\ svc[s] = "running" /\ cancelled
          /\ svc' = [svc EXCEPT ![s] = "stopping"] /\ UNCHANGED <<gErr, cancelled>>
       \/ svc[s] = "stopping" /\ Return(s, "canceled")
       \/ svc[s] = "stopping" /\ s = "api" /\ Return(s, "deadline")
    /\ Same /\ UNCHANGED data

\* Batches of the syncer, in the initial sync and before every commit; the
\* oracle's rows.
Write(s) ==
    /\ s \in {"sync", "oracle"} /\ svc[s] = "running" /\ store
    /\ \E t \in IF s = "sync" THEN {"events"} ELSE Tables :
          data' = [data EXCEPT ![t] = @ \cup {flags.node}]
    /\ Same /\ UNCHANGED <<svc, gErr, cancelled>>

\* The initial sync is complete: it starts the others and returns nil.
SyncDone ==
    /\ svc["sync"] = "running"
    /\ svc' = [svc EXCEPT !["sync"] = "returned", !["oracle"] = "running",
                          !["updater"] = IF flags.updater THEN "running" ELSE "off"]
    /\ Same /\ UNCHANGED <<data, gErr, cancelled>>

\* The initial sync or the oracle's subscription fails.  The updater never
\* fails: it subscribes again.
LoopFails(s) ==
    /\ s \in {"sync", "oracle"} /\ svc[s] = "running"
    /\ Return(s, "failure")
    /\ Same /\ UNCHANGED data

\* A loop sees that the context is done.
LoopStops(s) ==
    /\ s \in Services \ Servers /\ svc[s] = "running" /\ cancelled
    /\ Return(s, "canceled")
    /\ Same /\ UNCHANGED data

Signal ==
    /\ pc # "down" /\ ~signalled
    /\ signalled' = TRUE
    /\ cancelled' = (pc = "group" \/ cancelled)
    /\ UNCHANGED <<chainId, data, store, pc, flags, svc, gErr, exit>>

Running == {s \in Services : svc[s] \in {"running", "stopping"}}

ExitStatus == IF gErr \in {"none", "canceled"} THEN "ok" ELSE "error"

\* Mutant: the process does not wait for the services that still run.
WaitFirst ==
    /\ pc = "group" /\ (gErr # "none" \/ Running = {})
    /\ Exit(ExitStatus)
    /\ UNCHANGED <<chainId, data>>

\* g.Wait returns, and run with it.
Wait ==
    /\ pc = "group" /\ Running = {}
    /\ Exit(ExitStatus)
    /\ UNCHANGED <<chainId, data>>

\* The process is killed.
Kill ==
    /\ pc # "down"
    /\ pc' = "down" /\ store' = FALSE /\ exit' = "killed" /\ svc' = AllOff
    /\ UNCHANGED <<chainId, data, flags, gErr, cancelled, signalled>>

Service(s) == ServerFails(s) \/ ServerStops(s) \/ Write(s) \/ LoopFails(s) \/ LoopStops(s)

Next ==
    \/ Start \/ StartFails \/ ClearAllState \/ validateChainID \/ StartGroup
    \/ SyncDone \/ Signal \/ Wait \/ Kill
    \/ \E s \in Services : Service(s)

Spec == Init /\ [][Next]_vars

(***************************************************************************)
(* Every service looks at its context again and again: it stops once the   *)
(* context is done (Shutdown is limited to five seconds, the loops select  *)
(* on the context and pass it to every call); run waits for all of them.   *)
(***************************************************************************)
FairSpec ==
    /\ Spec
    /\ \A s \in Services : WF_vars(ServerStops(s)) /\ WF_vars(LoopStops(s))
    /\ WF_vars(Wait)

-----------------------------------------------------------------------------
(* Properties.                                                             *)

\* All rows are of the chain whose id is stored, over kills between any two
\* steps, starts with and without --fresh, and nodes of other chains: the
\* oracle never builds a root from the events of two chains (validateChainID,
\* ClearAllState).
RowsOfOneChain == \A t \in Tables : data[t] \subseteq {chainId}

\* Once the start is past validateChainID, the stored chain id is that of the
\* node the services read from and vote on; while it is still to be stored,
\* there is none.
ChainBound ==
    /\ pc \in {"clients", "group"} => chainId = flags.node /\ chainId # NoChain
    /\ pc = "setChain" => chainId = NoChain /\ flags.node # NoChain
    /\ pc \in {"fresh", "validate"} => flags.node # NoChain

\* The database is open as long as a service runs: run waits for the services
\* that the initial sync starts, too, before its deferred calls close it
\* (runServices).
StoreOutlivesServices == Running # {} => store

\* A process that stops without a signal reports an error: the errors of the
\* services that the first failure cancels do not hide it (runServices, and
\* the test for context.Canceled at the end of run).
FailureIsReported == exit = "ok" => signalled

\* Why the first error tells a failure from a shutdown: the HTTP servers return
\* no nil error, and a context is done without a signal only after an error.
ErrorsBacked ==
    /\ pc = "group" => svc["api"] # "off" /\ (svc["api"] = "returned" => gErr # "none")
    /\ pc \notin {"group", "down"} => gErr = "none"
    /\ pc = "group" /\ cancelled /\ gErr = "none" => signalled
    /\ pc = "group" /\ gErr = "canceled" => signalled
    /\ pc # "group" => Running = {}
    /\ pc # "down" => store
    /\ \A s \in Services : svc[s] = "stopping" => cancelled

\* A failed service, or a signal, ends the process: no service is left
\* running alone (errgroup.WithContext).
GroupStops ==
    /\ (pc = "group" /\ signalled) ~> pc = "down"
    /\ (pc = "group" /\ gErr = "failure") ~> pc = "down"

=============================================================================
