--------------------------- MODULE MCOracleCommit ---------------------------
(* A schedule of two phases, with targets 1, 3, 4, ..., and a chain in which *)
(* an epoch has no block of its own, so that two targets share a reference   *)
(* block.                                                                    *)
EXTENDS OracleCommit

MCSchedule == << [StartEpoch |-> 1, Interval |-> 2],
                 [StartEpoch |-> 3, Interval |-> 1] >>

\* Epoch 5 has no block: its checkpoint is the block of epoch 4.
MCBlockOf == [e \in 0..MaxEpoch |-> IF e < 5 THEN e + 1 ELSE e]

=============================================================================
