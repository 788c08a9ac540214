-------------------------- MODULE MaterializedView --------------------------
(***************************************************************************)
(* What the event syncer promises its callers: a cursor into the chain and *)
(* tables that are, at every instant, the chain's events up to the cursor. *)
(* Fetching, batching, prefetching and transactions do not show.           *)
(***************************************************************************)
EXTENDS EventLog

VARIABLES
    view,       \* the tables clusters, validators, contract_events
    lastSynced  \* sync_progress.last_synced_block; 0 means never synced

vars == <<view, lastSynced>>

Init == view = EmptyView /\ lastSynced = 0

\* The cursor moves forward and the tables follow it in the same step.  It
\* never passes a handled event that could not be decoded.
Advance ==
    \E b \in 0..MaxBlock :
        /\ b > lastSynced
        /\ \A i \in Upto(b) : Log[i].kind # "Malformed"
        /\ lastSynced' = b
        /\ view' = ViewOf(Upto(b))

\* A start with --fresh.
Clear == view' = EmptyView /\ lastSynced' = 0

Next == Advance \/ Clear

Spec == Init /\ [][Next]_vars

=============================================================================
