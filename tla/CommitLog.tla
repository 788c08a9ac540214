------------------------------ MODULE CommitLog -----------------------------
(***************************************************************************)
(* What the oracle promises of the table oracle_commits to those who read  *)
(* it, the HTTP API and the cluster updater: a log that grows at its end   *)
(* only, in which a row changes once, while it is the last, and a stored   *)
(* root is that of the state at its block.                                 *)
(***************************************************************************)
EXTENDS Integers

CONSTANTS Targets,  \* target epochs
          Blocks,   \* reference blocks
          RootOf,   \* the root of the state at each block
          NoRow     \* no row for the target

ASSUME CommitLogAssumption == Targets \subseteq Nat /\ Blocks \subseteq Nat

VARIABLE rows

Stored == {t \in Targets : rows[t] # NoRow}

\* The last target that has a row.
IsLast(t) == t \in Stored /\ \A s \in Stored : s <= t

Init == rows = [t \in Targets |-> NoRow]

\* A row for a target, and a block, beyond all stored ones.
Insert ==
    \E t \in {u \in Targets : \A s \in Stored : s < u}, b \in Blocks :
        /\ \A s \in Stored : rows[s].block < b
        /\ rows' = [rows EXCEPT ![t] = [block |-> b, root |-> RootOf[b],
                                        status |-> "pending", hash |-> FALSE]]

\* The outcome of the last row.
Resolve ==
    \E t \in Targets : \E s \in {"confirmed", "failed"}, h \in BOOLEAN :
        /\ IsLast(t) /\ rows[t].status = "pending"
        /\ rows' = [rows EXCEPT ![t] = [block |-> @.block, root |-> @.root,
                                        status |-> s, hash |-> h]]

\* A start with --fresh.
Clear == rows' = [t \in Targets |-> NoRow]

Next == Insert \/ Resolve \/ Clear

Spec == Init /\ [][Next]_rows

=============================================================================
