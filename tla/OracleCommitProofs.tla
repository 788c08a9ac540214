------------------------- MODULE OracleCommitProofs -------------------------
(***************************************************************************)
(* The oracle's commits, for every schedule, every assignment of blocks to *)
(* epochs and any number of checkpoints, restarts and failing calls; first *)
(* what the next target is, for every schedule that Validate accepts.      *)
(***************************************************************************)
EXTENDS OracleCommit, BasicFacts, TLAPS

-----------------------------------------------------------------------------
(* The schedule.                                                           *)

\* Division as NextTarget uses it.
LEMMA DivisionBounds ==
    ASSUME NEW a \in Nat, NEW d \in Nat \ {0}
    PROVE  /\ a \div d \in Nat
           /\ d * (a \div d) <= a
           /\ a < d * ((a \div d) + 1)
  OBVIOUS

\* A multiple of d that is greater than a is at least the next one after a.
LEMMA NextMultiple ==
    ASSUME NEW a \in Nat, NEW d \in Nat \ {0}, NEW b \in Nat,
           b % d = 0, a < b
    PROVE  d * ((a \div d) + 1) <= b
  <1>1. d * (a \div d) <= a /\ a \div d \in Nat
    BY DivisionBounds
  <1>2. b = d * (b \div d) /\ b \div d \in Nat
    OBVIOUS
  <1>3. (a \div d) < (b \div d)
    BY <1>1, <1>2
  <1>4. (a \div d) + 1 <= b \div d
    BY <1>1, <1>2, <1>3
  <1>5. \A x, y \in Nat : x <= y => d * x <= d * y
    OBVIOUS
  <1> QED
    BY <1>1, <1>2, <1>4, <1>5

LEMMA MultipleIsDivisible ==
    ASSUME NEW d \in Nat \ {0}, NEW a \in Nat
    PROVE  (d * a) % d = 0
  OBVIOUS

\* Validate compares neighbours only; the starts are sorted all the same.
LEMMA StartsAreSorted ==
    ASSUME NEW s \in Seq(CommitPhase), Validate(s),
           NEW i \in 1..Len(s), NEW j \in 1..Len(s), i < j
    PROVE  s[i].StartEpoch < s[j].StartEpoch
  <1> DEFINE Bad == {k \in 1..Len(s) : i < k /\ ~(s[i].StartEpoch < s[k].StartEpoch)}
  <1>1. SUFFICES ASSUME Bad # {} PROVE FALSE
    OBVIOUS
  <1>2. PICK k \in Bad : \A m \in Bad : k <= m
    <2>1. Bad \subseteq Nat
      OBVIOUS
    <2> HIDE DEF Bad
    <2> QED BY <1>1, <2>1, LeastNatural
  <1>3. /\ k - 1 \in 1..Len(s) /\ i <= k - 1
        /\ s[k - 1].StartEpoch \in Nat /\ s[k].StartEpoch \in Nat
        /\ s[i].StartEpoch \in Nat
    <2>1. k \in 1..Len(s) /\ i < k /\ k - 1 \in 1..Len(s) /\ i <= k - 1
      BY <1>2
    <2>2. s[k - 1] \in CommitPhase /\ s[k] \in CommitPhase /\ s[i] \in CommitPhase
      BY <2>1
    <2> QED BY <2>1, <2>2 DEF CommitPhase
  <1>4. s[k - 1].StartEpoch < s[k].StartEpoch
    BY <1>2, <1>3 DEF Validate
  <1>5. k - 1 \notin Bad
    BY <1>2, <1>3
  <1>6. i = k - 1 \/ s[i].StartEpoch < s[k - 1].StartEpoch
    BY <1>3, <1>5
  <1> QED
    BY <1>2, <1>3, <1>4, <1>6

\* The next target after an epoch is the nearest target of the schedule: it
\* lies strictly later and no target is skipped, across phase changes too
\* (phase.go NextTarget under a schedule accepted by Validate).
THEOREM NextTargetIsNearest ==
    ASSUME NEW s \in Seq(CommitPhase), Validate(s), NEW e \in Nat
    PROVE  /\ NextTarget(s, e) \in Nat
           /\ e < NextTarget(s, e)
           /\ IsTarget(s, NextTarget(s, e))
           /\ \A x \in (e + 1)..(NextTarget(s, e) - 1) : ~IsTarget(s, x)
  <1> DEFINE t == NextTarget(s, e)
  <1>1. Len(s) \in Nat \ {0} /\ 1 \in 1..Len(s)
    BY DEF Validate
  <1>2. ASSUME NEW i \in 1..Len(s)
        PROVE  /\ s[i].StartEpoch \in Nat
               /\ s[i].Interval \in Nat \ {0}
    <2>1. s[i] \in CommitPhase
      BY <1>2
    <2>2. s[i].StartEpoch \in Nat /\ s[i].Interval \in Nat
      BY <2>1 DEF CommitPhase
    <2>3. s[i].Interval > 0
      BY <1>2 DEF Validate
    <2> QED BY <2>2, <2>3
  <1>3. CASE Begun(s, e) = {}
    <2>1. t = s[1].StartEpoch /\ e < t
      BY <1>1, <1>2, <1>3 DEF NextTarget, PhaseAt, Begun
    <2>2. LiesIn(s, 1, t)
      BY <1>1, <1>2, <2>1, StartsAreSorted DEF LiesIn
    <2>3. (t - s[1].StartEpoch) % s[1].Interval = 0
      BY <1>1, <1>2, <2>1
    <2>4. IsTarget(s, t)
      BY <1>1, <2>2, <2>3 DEF IsTarget
    <2>5. ASSUME NEW x \in (e + 1)..(t - 1), NEW j \in 1..Len(s), LiesIn(s, j, x)
          PROVE  FALSE
      <3>1. s[j].StartEpoch <= x /\ x < s[1].StartEpoch
        BY <1>1, <1>2, <2>1, <2>5 DEF LiesIn
      <3>2. j = 1 \/ s[1].StartEpoch < s[j].StartEpoch
        BY <1>1, StartsAreSorted
      <3> QED BY <1>1, <1>2, <3>1, <3>2, <2>1
    <2> QED
      BY <1>1, <1>2, <2>1, <2>4, <2>5 DEF IsTarget
  <1>4. CASE Begun(s, e) # {}
    <2> DEFINE i  == CHOOSE i \in Begun(s, e) : \A j \in Begun(s, e) : j <= i
               st == s[i].StartEpoch
               d  == s[i].Interval
               q  == (e - st) \div d
    <2>1. i \in Begun(s, e) /\ \A j \in Begun(s, e) : j <= i
      <3>1. /\ Begun(s, e) \subseteq Nat
            /\ \A x \in Begun(s, e) : x <= Len(s)
        BY <1>1 DEF Begun
      <3>2. \E k \in Begun(s, e) : \A j \in Begun(s, e) : j <= k
        BY <1>1, <1>4, <3>1, GreatestNatural
      <3> QED BY <3>2
    <2>2. i \in 1..Len(s) /\ st \in Nat /\ st <= e /\ d \in Nat \ {0}
      BY <1>2, <2>1 DEF Begun
    <2>3. t = st + (q + 1) * d
      BY <1>4, <2>2 DEF NextTarget, PhaseAt, TargetAt
    <2> HIDE DEF i
    <2>4. q \in Nat /\ d * q <= e - st /\ e - st < d * (q + 1)
      <3>1. e - st \in Nat /\ d \in Nat \ {0}
        BY <2>2
      <3> HIDE DEF st, d
      <3> QED BY <3>1, DivisionBounds
    <2>5. t \in Nat /\ e < t /\ t - st = d * (q + 1)
      BY <2>2, <2>3, <2>4
    <2>6. ASSUME i < Len(s)
          PROVE  /\ i + 1 \in 1..Len(s)
                 /\ e < s[i + 1].StartEpoch
                 /\ t <= s[i + 1].StartEpoch
      <3>1. i + 1 \in 1..Len(s) /\ s[i + 1].StartEpoch \in Nat
        BY <1>2, <2>2, <2>6
      <3>2. e < s[i + 1].StartEpoch
        BY <2>1, <2>2, <3>1 DEF Begun
      <3>3. (s[i + 1].StartEpoch - st) % d = 0
        BY <2>2, <3>1 DEF Validate
      <3>4. d * (q + 1) <= s[i + 1].StartEpoch - st
        <4>1. /\ e - st \in Nat /\ d \in Nat \ {0}
              /\ s[i + 1].StartEpoch - st \in Nat
              /\ e - st < s[i + 1].StartEpoch - st
          BY <2>2, <3>1, <3>2
        <4> HIDE DEF st, d
        <4> QED BY <3>3, <4>1, NextMultiple
      <3> QED BY <2>2, <2>5, <3>1, <3>2, <3>4
    <2>7. IsTarget(s, t)
      <3>1. CASE i < Len(s) /\ t = s[i + 1].StartEpoch
        <4>1. LiesIn(s, i + 1, t)
          BY <1>2, <2>2, <2>6, <3>1, StartsAreSorted DEF LiesIn
        <4>2. (t - s[i + 1].StartEpoch) % s[i + 1].Interval = 0
          BY <1>2, <2>6, <3>1
        <4> QED BY <2>6, <3>1, <4>1, <4>2 DEF IsTarget
      <3>2. CASE ~(i < Len(s) /\ t = s[i + 1].StartEpoch)
        <4>1. LiesIn(s, i, t)
          BY <1>2, <2>2, <2>5, <2>6, <3>2 DEF LiesIn
        <4>2. (t - st) % d = 0
          <5>1. (d * (q + 1)) % d = 0
            <6>1. d \in Nat \ {0} /\ q + 1 \in Nat
              BY <2>2, <2>4
            <6> HIDE DEF d, q
            <6> QED BY <6>1, MultipleIsDivisible
          <5> QED BY <2>5, <5>1
        <4> QED BY <2>2, <4>1, <4>2 DEF IsTarget
      <3> QED BY <3>1, <3>2
    <2>8. ASSUME NEW x \in (e + 1)..(t - 1), NEW j \in 1..Len(s), LiesIn(s, j, x),
                 (x - s[j].StartEpoch) % s[j].Interval = 0
          PROVE  FALSE
      <3>1. x \in Nat /\ e < x /\ x < t /\ st <= x /\ s[j].StartEpoch <= x
        BY <1>2, <2>2, <2>5, <2>8 DEF LiesIn
      <3>2. CASE j < i
        <4>1. j + 1 \in 1..Len(s) /\ x < s[j + 1].StartEpoch
          BY <2>2, <2>8, <3>2 DEF LiesIn
        <4>2. j + 1 = i \/ s[j + 1].StartEpoch < st
          BY <2>2, <3>2, <4>1, StartsAreSorted
        <4> QED BY <1>2, <2>2, <3>1, <4>1, <4>2
      <3>3. CASE j > i
        <4>1. i < Len(s)
          BY <2>2, <3>3
        <4>2. i + 1 = j \/ s[i + 1].StartEpoch < s[j].StartEpoch
          BY <2>2, <2>6, <3>3, <4>1, StartsAreSorted
        <4> QED BY <1>2, <2>5, <2>6, <3>1, <4>1, <4>2
      <3>4. CASE j = i
        <4>1. (x - st) % d = 0 /\ e - st < x - st /\ x - st \in Nat /\ e - st \in Nat
          BY <2>2, <2>8, <3>1, <3>4
        <4>2. d * (q + 1) <= x - st
          BY <2>2, <4>1, NextMultiple
        <4> QED BY <2>2, <2>5, <3>1, <4>2
      <3> QED BY <2>2, <3>2, <3>3, <3>4
    <2> QED
      BY <2>5, <2>7, <2>8 DEF IsTarget
  <1> QED
    BY <1>3, <1>4

-----------------------------------------------------------------------------
(* The inductive invariant.                                                *)

\* Oracle.Run has its target.
Running == {"wait"} \cup CommitSteps

\* The steps after the row was written, and those after the submission.
StoredSteps == {"check", "send", "await", "confirm", "fail", "revert", "conflict", "matching"}
SentSteps   == {"await", "confirm", "fail", "revert"}

\* Every checkpoint on its way to the oracle, or in its hands, is one the
\* beacon node has finalized; those it has not are later, in order.
CheckpointsArePast ==
    /\ \A i \in 1..Len(events) : events[i] <= beaconFinal
    /\ \A i \in 1..Len(checkpointCh) : checkpointCh[i] <= beaconFinal
    /\ \A i \in 1..Len(unseen) : beaconFinal < unseen[i]
    /\ \A i, j \in 1..Len(unseen) : i < j => unseen[i] < unseen[j]

\* A commit is under way only for the target its checkpoint finalizes.
TargetInHand == pc \in CommitSteps => cp <= beaconFinal /\ nextTarget = cp - 1

\* The target t was left behind, or is in hand at one of the steps S.
Handled(t, S) == /\ t < beaconFinal
                 /\ pc \in Running => t < nextTarget \/ (t = nextTarget /\ pc \in S)

\* A target with a row, or a submission, does not come up again, not even
\* after a restart.
HandledOnce == \A t \in Epochs : /\ rows[t] # NoRow => Handled(t, StoredSteps)
                                 /\ submits[t] > 0 => Handled(t, SentSteps)

\* From the insertion to the outcome the row is the one that was inserted.
RowInHand == pc \in StoredSteps => rows[Target] = Row(RefBlock, OurRoot)

\* What the last steps have seen on the chain.
OutcomeSeen == /\ pc = "confirm"  => OurTx \in votes
               /\ pc = "revert"   => OurTx \in reverted
               /\ pc = "matching" => committed[RefBlock] = OurRoot

IInv == /\ TypeOK
        /\ CheckpointsArePast
        /\ TargetInHand
        /\ NoTargetSkipped
        /\ HandledOnce
        /\ RowInHand
        /\ OutcomeSeen
        /\ RowMatchesTarget
        /\ OutcomeIsBacked
        /\ SubmittedOnce

-----------------------------------------------------------------------------
(* When the root is of one instant: balances fetched while finality stands *)
(* still, and at most one checkpoint that only the execution node has.     *)

Prompt == ~SlowFetch /\ MaxLag <= 1

\* The tables are not ahead of epoch e, should its checkpoint be committed.
NotAhead(e) == e > nextTarget => lastSynced <= BlockOf[e]

\* The tables are not ahead of any checkpoint that may still be committed.
TablesNotAhead ==
    /\ Len(unseen) <= MaxLag
    /\ lastSynced <= BlockOf[ChainFinal]
    /\ pc \in Running => /\ \A i \in 1..Len(events) : NotAhead(events[i])
                         /\ \A i \in 1..Len(checkpointCh) : NotAhead(checkpointCh[i])
                         /\ \A i \in 1..Len(unseen) : NotAhead(unseen[i])
                         /\ NotAhead(beaconFinal)
    /\ pc \in CommitSteps => lastSynced <= RefBlock

\* Validators and balances in hand are those of the reference block.
OneInstant ==
    /\ pc \notin CommitSteps \ {"sync", "read", "verify"} => bals = {}
    /\ pc = "read" => lastSynced = RefBlock
    /\ pc \in CommitSteps \ {"sync", "read"} => vals = RefBlock
    /\ pc = "balances" => /\ BlockOf[beaconFinal] = RefBlock
                          /\ left > 0 /\ bals \subseteq {RefBlock}
    /\ pc \in {"insert"} \cup StoredSteps => bals = {RefBlock}

PInv == TablesNotAhead /\ OneInstant /\ RootIsPointInTime

-----------------------------------------------------------------------------
(* Facts about epochs, blocks and targets.                                 *)

LEMMA EpochFacts ==
    /\ \A e \in Epochs : e \in Nat
    /\ 0 \in Epochs
    /\ \A e \in Epochs : BlockOf[e] \in Blocks
    /\ \A b \in Blocks : b \in Nat \ {0}
    /\ \A d, e \in Epochs : d <= e => BlockOf[d] <= BlockOf[e]
  BY BlockAssumption DEF Epochs, Blocks

\* NextTarget on the oracle's schedule.
LEMMA NextTargetFacts ==
    ASSUME NEW e \in Nat
    PROVE  /\ NextTarget(Schedule, e) \in Nat
           /\ e < NextTarget(Schedule, e)
           /\ IsTarget(Schedule, NextTarget(Schedule, e))
           /\ \A x \in Nat : e < x /\ IsTarget(Schedule, x) => NextTarget(Schedule, e) <= x
  <1> DEFINE t == NextTarget(Schedule, e)
  <1>1. /\ t \in Nat /\ e < t /\ IsTarget(Schedule, t)
        /\ \A x \in (e + 1)..(t - 1) : ~IsTarget(Schedule, x)
    BY ScheduleAssumption, NextTargetIsNearest
  <1> HIDE DEF t
  <1>2. ASSUME NEW x \in Nat, e < x, IsTarget(Schedule, x), ~(t <= x) PROVE FALSE
    <2>1. x \in (e + 1)..(t - 1)
      BY <1>1, <1>2
    <2> QED BY <1>1, <1>2, <2>1
  <1>3. \A x \in Nat : e < x /\ IsTarget(Schedule, x) => t <= x
    BY <1>2
  <1> QED BY <1>1, <1>3 DEF t

\* The commit in hand.
LEMMA InHandFacts ==
    ASSUME IInv, pc \in CommitSteps
    PROVE  /\ cp \in Epochs /\ cp - 1 \in Nat /\ cp - 1 \in Epochs
           /\ nextTarget = cp - 1 /\ nextTarget \in Epochs /\ nextTarget + 1 = cp
           /\ nextTarget < beaconFinal
           /\ IsTarget(Schedule, nextTarget)
           /\ RefBlock \in Blocks /\ OurRoot \in Roots /\ OurTx \in TxType
  <1>1. /\ cp \in Epochs /\ nextTarget \in Nat /\ nextTarget = cp - 1
        /\ cp <= beaconFinal /\ beaconFinal \in Epochs
    BY DEF IInv, TypeOK, TargetInHand
  <1>2. /\ cp - 1 \in Nat /\ cp - 1 \in Epochs /\ nextTarget + 1 = cp
        /\ nextTarget < beaconFinal
    BY <1>1, BlockAssumption DEF Epochs
  <1>3. IsTarget(Schedule, nextTarget)
    BY DEF IInv, NoTargetSkipped
  <1>4. RefBlock \in Blocks
    BY <1>1, EpochFacts DEF RefBlock
  <1>5. OurRoot \in Roots
    BY DEF IInv, TypeOK, OurRoot, Root, Roots
  <1> QED BY <1>1, <1>2, <1>3, <1>4, <1>5 DEF OurTx, TxType

LEMMA RowIsRow ==
    ASSUME NEW b \in Blocks, NEW r \in Roots
    PROVE  Row(b, r) \in RowType /\ Row(b, r) # NoRow
  <1>1. Row(b, r) \in RowType
    BY DEF Row, RowType
  <1> QED BY <1>1, NoRowAssumption

-----------------------------------------------------------------------------
(* Groups of steps.                                                        *)

\* The chain, the contract and the event stream leave the oracle alone.
LEMMA OracleUntouched ==
    ASSUME IInv,
           UNCHANGED <<rows, pc, nextTarget, cp, vals, bals, submits>>,
           beaconFinal' \in Epochs, beaconFinal <= beaconFinal',
           votes \subseteq votes', reverted \subseteq reverted',
           \A b \in Blocks : committed[b] # NoRow => committed'[b] = committed[b]
    PROVE  /\ TargetInHand' /\ NoTargetSkipped' /\ HandledOnce' /\ RowInHand'
           /\ OutcomeSeen' /\ RowMatchesTarget' /\ OutcomeIsBacked' /\ SubmittedOnce'
  <1> USE EpochFacts DEF IInv
  <1>0. beaconFinal \in Nat /\ beaconFinal' \in Nat /\ cp \in Nat /\ nextTarget \in Nat
    BY DEF TypeOK
  <1>1. TargetInHand'
    BY <1>0 DEF TargetInHand
  <1>2. NoTargetSkipped'
    BY <1>0 DEF NoTargetSkipped
  <1>3. HandledOnce'
    BY <1>0 DEF HandledOnce, Handled
  <1>4. RowInHand'
    BY DEF RowInHand, Target, RefBlock, OurRoot
  <1>5. OutcomeSeen'
    <2>1. pc = "matching" => committed'[RefBlock] = OurRoot
      <3>1. SUFFICES ASSUME pc = "matching" PROVE committed'[RefBlock] = OurRoot
        OBVIOUS
      <3>2. RefBlock \in Blocks /\ OurRoot \in Roots
        BY <3>1, InHandFacts DEF CommitSteps
      <3> QED BY <3>1, <3>2, NoRowAssumption DEF OutcomeSeen
    <2> QED BY <2>1 DEF OutcomeSeen, OurTx, OurRoot, RefBlock
  <1>6. RowMatchesTarget' /\ SubmittedOnce'
    BY DEF RowMatchesTarget, SubmittedOnce
  <1>7. OutcomeIsBacked'
    <2> SUFFICES ASSUME NEW t \in Epochs, rows[t] # NoRow
                 PROVE  /\ (rows[t].status = "confirmed" /\ rows[t].hash)
                              => <<rows[t].block, rows[t].root>> \in votes'
                        /\ (rows[t].status = "confirmed" /\ ~rows[t].hash)
                              => committed'[rows[t].block] = rows[t].root
                        /\ (rows[t].status = "failed" /\ rows[t].hash)
                              => <<rows[t].block, rows[t].root>> \in reverted'
      BY DEF OutcomeIsBacked
    <2>1. rows[t] \in RowType
      BY DEF TypeOK
    <2>2. rows[t].block \in Blocks /\ rows[t].root \in Roots
      BY <2>1 DEF RowType
    <2> QED BY <2>2, NoRowAssumption DEF OutcomeIsBacked
  <1> QED BY <1>1, <1>2, <1>3, <1>4, <1>5, <1>6, <1>7


\* The elements of an extended and of a shortened sequence satisfy what those
\* of the sequence do.
LEMMA AppendAll ==
    ASSUME NEW s \in Seq(Epochs), NEW e \in Epochs, NEW n \in Nat,
           \A i \in 1..Len(s) : s[i] <= n, e <= n
    PROVE  /\ Append(s, e) \in Seq(Epochs)
           /\ \A i \in 1..Len(Append(s, e)) : Append(s, e)[i] <= n
  <1>1. /\ Append(s, e) \in Seq(Epochs) /\ Len(Append(s, e)) = Len(s) + 1
        /\ \A k \in 1..Len(s) : Append(s, e)[k] = s[k]
        /\ Append(s, e)[Len(s) + 1] = e
    BY AppendFacts
  <1>2. Len(s) \in Nat
    OBVIOUS
  <1>3. ASSUME NEW i \in 1..Len(Append(s, e)) PROVE Append(s, e)[i] <= n
    <2>1. i \in 1..Len(s) \/ i = Len(s) + 1
      BY <1>1, <1>2
    <2> QED BY <1>1, <2>1
  <1> QED BY <1>1, <1>3

LEMMA TailAll ==
    ASSUME NEW s \in Seq(Epochs), s # <<>>, NEW n \in Nat,
           \A i \in 1..Len(s) : s[i] <= n
    PROVE  /\ Tail(s) \in Seq(Epochs) /\ Head(s) \in Epochs /\ Head(s) <= n
           /\ \A i \in 1..Len(Tail(s)) : Tail(s)[i] <= n
  <1>1. /\ Tail(s) \in Seq(Epochs) /\ Len(s) \in Nat /\ Len(s) >= 1
        /\ Len(Tail(s)) = Len(s) - 1
        /\ \A k \in 1..(Len(s) - 1) : Tail(s)[k] = s[k + 1]
        /\ Head(s) = s[1] /\ s[1] \in Epochs
    BY TailFacts
  <1>2. ASSUME NEW i \in 1..Len(Tail(s)) PROVE Tail(s)[i] <= n
    <2>1. i \in 1..(Len(s) - 1) /\ i + 1 \in 1..Len(s)
      BY <1>1
    <2> QED BY <1>1, <2>1
  <1>3. Head(s) <= n
    BY <1>1
  <1> QED BY <1>1, <1>2, <1>3

\* The latest finalized checkpoint is not before any other.
LEMMA ChainFinalFacts ==
    ASSUME IInv
    PROVE  /\ ChainFinal \in Epochs /\ beaconFinal <= ChainFinal
           /\ \A i \in 1..Len(unseen) : unseen[i] <= ChainFinal
  <1> USE EpochFacts DEF IInv
  <1>1. unseen \in Seq(Epochs) /\ beaconFinal \in Epochs
    BY DEF TypeOK
  <1>2. CASE unseen = <<>>
    BY <1>1, <1>2 DEF ChainFinal
  <1>3. CASE unseen # <<>>
    <2>1. Len(unseen) \in 1..Len(unseen) /\ ChainFinal = unseen[Len(unseen)]
      BY <1>1, <1>3 DEF ChainFinal
    <2>2. ChainFinal \in Epochs
      BY <1>1, <2>1
    <2>3. beaconFinal < ChainFinal
      BY <2>1 DEF CheckpointsArePast
    <2>4. ASSUME NEW i \in 1..Len(unseen) PROVE unseen[i] <= ChainFinal
      <3>1. i < Len(unseen) \/ i = Len(unseen)
        BY <1>1
      <3>2. unseen[i] \in Nat /\ ChainFinal \in Nat
        BY <1>1, <2>2
      <3> QED BY <2>1, <3>1, <3>2 DEF CheckpointsArePast
    <2> QED BY <1>1, <2>2, <2>3, <2>4
  <1> QED BY <1>2, <1>3

-----------------------------------------------------------------------------
(* The environment.                                                        *)

LEMMA FinalizeStep == IInv /\ Finalize => IInv'
  <1> SUFFICES ASSUME IInv, Finalize PROVE IInv'
    OBVIOUS
  <1> USE EpochFacts DEF IInv
  <1>0. /\ ChainFinal \in Nat /\ beaconFinal <= ChainFinal
        /\ \A i \in 1..Len(unseen) : unseen[i] <= ChainFinal
    BY ChainFinalFacts
  <1>1. PICK e \in {ChainFinal + 1, ChainFinal + 2} : e <= MaxEpoch /\ unseen' = Append(unseen, e)
    BY DEF Finalize
  <1>2. UNCHANGED <<beaconFinal, events, contract, mempool, rows, lastSynced, pc,
                    checkpointCh, nextTarget, local, submits>>
    BY DEF Finalize
  <1>3. /\ unseen \in Seq(Epochs) /\ Len(unseen) \in Nat /\ beaconFinal \in Epochs
    BY DEF TypeOK
  <1>4. e \in Epochs /\ e \in Nat /\ ChainFinal < e
    BY <1>1, <1>0, BlockAssumption DEF Epochs
  <1>5. /\ unseen' \in Seq(Epochs) /\ Len(unseen') = Len(unseen) + 1
        /\ \A k \in 1..Len(unseen) : unseen'[k] = unseen[k]
        /\ unseen'[Len(unseen) + 1] = e
    BY <1>1, <1>3, <1>4, AppendFacts
  <1>6. TypeOK'
    BY <1>2, <1>5 DEF TypeOK, contract, local
  <1>7. CheckpointsArePast'
    <2>0. \A i \in 1..Len(unseen) : unseen[i] \in Nat
      BY <1>3
    <2>1. \A i \in 1..Len(unseen) : beaconFinal < unseen[i] /\ unseen[i] < e
      BY <1>0, <1>4, <2>0 DEF CheckpointsArePast
    <2>2. beaconFinal < e /\ beaconFinal \in Nat /\ e \in Nat
      BY <1>0, <1>3, <1>4
    <2>3. \A i \in 1..Len(unseen') : i \in 1..Len(unseen) \/ i = Len(unseen) + 1
      BY <1>3, <1>5
    <2>4. \A i \in 1..Len(unseen') : beaconFinal < unseen'[i]
      BY <1>5, <2>1, <2>2, <2>3
    <2>5. ASSUME NEW i \in 1..Len(unseen'), NEW j \in 1..Len(unseen'), i < j
          PROVE  unseen'[i] < unseen'[j]
      <3>1. i \in 1..Len(unseen)
        BY <1>3, <1>5, <2>5
      <3> QED BY <1>3, <1>5, <2>1, <2>3, <2>5, <3>1 DEF CheckpointsArePast
    <2> QED BY <1>2, <2>4, <2>5 DEF CheckpointsArePast
  <1> QED BY <1>2, <1>3, <1>6, <1>7, OracleUntouched DEF contract, local

LEMMA BeaconFinalizeStep == IInv /\ BeaconFinalize => IInv'
  <1> SUFFICES ASSUME IInv, BeaconFinalize PROVE IInv'
    OBVIOUS
  <1> USE EpochFacts DEF IInv
  <1>1. /\ unseen # <<>> /\ beaconFinal' = Head(unseen) /\ unseen' = Tail(unseen)
        /\ events' = IF Subscribed THEN Append(events, Head(unseen)) ELSE events
        /\ UNCHANGED <<contract, mempool, rows, lastSynced, pc, checkpointCh, nextTarget,
                       local, submits>>
    BY DEF BeaconFinalize
  <1>2. /\ unseen \in Seq(Epochs) /\ events \in Seq(Epochs) /\ checkpointCh \in Seq(Epochs)
        /\ beaconFinal \in Nat
    BY DEF TypeOK
  <1>3. /\ Tail(unseen) \in Seq(Epochs) /\ Len(unseen) \in Nat /\ Len(unseen) >= 1
        /\ Len(Tail(unseen)) = Len(unseen) - 1
        /\ \A k \in 1..(Len(unseen) - 1) : Tail(unseen)[k] = unseen[k + 1]
        /\ Head(unseen) = unseen[1] /\ unseen[1] \in Epochs
    BY <1>1, <1>2, TailFacts
  <1>4. beaconFinal' \in Epochs /\ beaconFinal' \in Nat /\ beaconFinal < beaconFinal'
    BY <1>1, <1>3 DEF CheckpointsArePast
  <1>5. \A i \in 1..Len(events) : events[i] <= beaconFinal'
    <2>1. \A i \in 1..Len(events) : events[i] \in Nat /\ events[i] <= beaconFinal
      BY <1>2 DEF CheckpointsArePast
    <2> QED BY <1>2, <1>4, <2>1
  <1>6. events' \in Seq(Epochs) /\ \A i \in 1..Len(events') : events'[i] <= beaconFinal'
    <2>1. CASE Subscribed
      <3>1. events' = Append(events, beaconFinal')
        BY <1>1, <2>1
      <3> QED BY <1>2, <1>4, <1>5, <3>1, AppendAll
    <2>2. CASE ~Subscribed
      BY <1>1, <1>2, <1>5, <2>2
    <2> QED BY <2>1, <2>2
  <1>7. \A i \in 1..Len(checkpointCh') : checkpointCh'[i] <= beaconFinal'
    <2>1. \A i \in 1..Len(checkpointCh) : checkpointCh[i] \in Nat /\ checkpointCh[i] <= beaconFinal
      BY <1>2 DEF CheckpointsArePast
    <2> QED BY <1>1, <1>2, <1>4, <2>1
  <1>8. TypeOK'
    BY <1>1, <1>3, <1>4, <1>6 DEF TypeOK, contract, local
  <1>9. CheckpointsArePast'
    <2>1. \A i \in 1..Len(unseen') : /\ i \in 1..Len(unseen) /\ i + 1 \in 1..Len(unseen)
                                     /\ unseen'[i] = unseen[i + 1]
      BY <1>1, <1>3
    <2>2. \A i \in 1..Len(unseen') : beaconFinal' < unseen'[i]
      BY <1>1, <1>3, <2>1 DEF CheckpointsArePast
    <2>3. \A i, j \in 1..Len(unseen') : i < j => unseen'[i] < unseen'[j]
      BY <1>1, <1>3, <2>1 DEF CheckpointsArePast
    <2> QED BY <1>6, <1>7, <2>2, <2>3 DEF CheckpointsArePast
  <1> QED BY <1>1, <1>2, <1>4, <1>8, <1>9, OracleUntouched DEF contract, local

LEMMA StreamStep == IInv /\ (RepeatEvent \/ DeliverCheckpoint \/ LoseCheckpoint) => IInv'
  <1> SUFFICES ASSUME IInv, RepeatEvent \/ DeliverCheckpoint \/ LoseCheckpoint PROVE IInv'
    OBVIOUS
  <1> USE EpochFacts DEF IInv
  <1>1. UNCHANGED <<beaconFinal, unseen, contract, mempool, rows, lastSynced, pc,
                    nextTarget, local, submits>>
    BY DEF RepeatEvent, DeliverCheckpoint, LoseCheckpoint, node
  <1>2. /\ events \in Seq(Epochs) /\ checkpointCh \in Seq(Epochs) /\ Len(checkpointCh) <= 1
        /\ beaconFinal \in Epochs /\ beaconFinal \in Nat
        /\ \A i \in 1..Len(events) : events[i] <= beaconFinal
        /\ \A i \in 1..Len(checkpointCh) : checkpointCh[i] <= beaconFinal
    BY DEF TypeOK, CheckpointsArePast
  <1>3. /\ events' \in Seq(Epochs) /\ checkpointCh' \in Seq(Epochs) /\ Len(checkpointCh') <= 1
        /\ \A i \in 1..Len(events') : events'[i] <= beaconFinal
        /\ \A i \in 1..Len(checkpointCh') : checkpointCh'[i] <= beaconFinal
    <2>1. CASE RepeatEvent
      <3>1. events' = Append(events, beaconFinal) /\ checkpointCh' = checkpointCh
        BY <2>1 DEF RepeatEvent
      <3> QED BY <1>2, <3>1, AppendAll
    <2>2. CASE DeliverCheckpoint
      <3>1. /\ events # <<>> /\ events' = Tail(events)
            /\ checkpointCh' = IF checkpointCh = <<>> THEN <<Head(events)>> ELSE checkpointCh
        BY <2>2 DEF DeliverCheckpoint
      <3>2. /\ events' \in Seq(Epochs) /\ Head(events) \in Epochs /\ Head(events) <= beaconFinal
            /\ \A i \in 1..Len(events') : events'[i] <= beaconFinal
        BY <1>2, <3>1, TailAll
      <3>3. CASE checkpointCh = <<>>
        BY <3>1, <3>2, <3>3
      <3>4. CASE checkpointCh # <<>>
        BY <1>2, <3>1, <3>2, <3>4
      <3> QED BY <3>3, <3>4
    <2>3. CASE LoseCheckpoint
      <3>1. events # <<>> /\ events' = Tail(events) /\ checkpointCh' = checkpointCh
        BY <2>3 DEF LoseCheckpoint
      <3> QED BY <1>2, <3>1, TailAll
    <2> QED BY <2>1, <2>2, <2>3
  <1>4. TypeOK'
    BY <1>1, <1>3 DEF TypeOK, contract, local
  <1>5. CheckpointsArePast'
    BY <1>1, <1>3 DEF CheckpointsArePast
  <1> QED BY <1>1, <1>2, <1>4, <1>5, OracleUntouched DEF contract, local

\* A root once committed stays: only a block without one is commitable.
LEMMA ContractStep == IInv /\ (OthersCommit \/ Mine) => IInv'
  <1> SUFFICES ASSUME IInv, OthersCommit \/ Mine PROVE IInv'
    OBVIOUS
  <1> USE EpochFacts DEF IInv
  <1>1. UNCHANGED <<beaconFinal, unseen, events, rows, lastSynced, pc, checkpointCh,
                    nextTarget, local, submits>>
    BY DEF OthersCommit, Mine, node
  <1>2. /\ votes \subseteq TxType /\ reverted \subseteq TxType /\ mempool \subseteq TxType
        /\ committed \in [Blocks -> Roots \cup {NoRow}]
        /\ beaconFinal \in Epochs /\ beaconFinal \in Nat
    BY DEF TypeOK
  <1>3. /\ votes' \subseteq TxType /\ reverted' \subseteq TxType /\ mempool' \subseteq TxType
        /\ committed' \in [Blocks -> Roots \cup {NoRow}]
        /\ votes \subseteq votes' /\ reverted \subseteq reverted'
        /\ \A b \in Blocks : committed[b] # NoRow => committed'[b] = committed[b]
    <2>1. CASE OthersCommit
      <3>1. PICK e \in 1..ChainFinal :
               /\ Commitable(BlockOf[e])
               /\ \E r \in {TrueRoot(BlockOf[e]), OddRoot} :
                     committed' = [committed EXCEPT ![BlockOf[e]] = r]
        BY <2>1 DEF OthersCommit
      <3>2. PICK r \in {TrueRoot(BlockOf[e]), OddRoot} :
               committed' = [committed EXCEPT ![BlockOf[e]] = r]
        BY <3>1
      <3>3. e \in Epochs /\ BlockOf[e] \in Blocks
        BY ChainFinalFacts, BlockAssumption DEF Epochs
      <3>4. r \in Roots
        BY <3>3 DEF TrueRoot, OddRoot, Root, Roots
      <3>5. committed[BlockOf[e]] = NoRow
        BY <3>1, <3>3 DEF Commitable
      <3> QED BY <1>2, <2>1, <3>2, <3>3, <3>4, <3>5 DEF OthersCommit
    <2>2. CASE Mine
      <3>1. PICK tx \in mempool :
               /\ mempool' = mempool \ {tx}
               /\ IF Commitable(tx[1])
                  THEN /\ votes' = votes \cup {tx}
                       /\ \/ committed' = [committed EXCEPT ![tx[1]] = tx[2]]
                          \/ UNCHANGED committed
                       /\ UNCHANGED reverted
                  ELSE reverted' = reverted \cup {tx} /\ UNCHANGED <<votes, committed>>
        BY <2>2 DEF Mine
      <3>2. tx \in TxType /\ tx[1] \in Blocks /\ tx[2] \in Roots
        BY <1>2 DEF TxType
      <3>3. CASE Commitable(tx[1])
        <4>1. committed[tx[1]] = NoRow
          BY <3>2, <3>3 DEF Commitable
        <4>2. CASE committed' = [committed EXCEPT ![tx[1]] = tx[2]]
          BY <1>2, <3>1, <3>2, <3>3, <4>1, <4>2
        <4>3. CASE UNCHANGED committed
          BY <1>2, <3>1, <3>2, <3>3, <4>3
        <4> QED BY <3>1, <3>3, <4>2, <4>3
      <3>4. CASE ~Commitable(tx[1])
        BY <1>2, <3>1, <3>2, <3>4
      <3> QED BY <3>3, <3>4
    <2> QED BY <2>1, <2>2
  <1>4. TypeOK'
    BY <1>1, <1>3 DEF TypeOK, local
  <1>5. CheckpointsArePast'
    BY <1>1 DEF CheckpointsArePast
  <1> QED BY <1>1, <1>2, <1>3, <1>4, <1>5, OracleUntouched DEF local

-----------------------------------------------------------------------------
(* The process and Oracle.Run.                                             *)

\* The oracle does not run: what is stored or submitted stays in the past, a
\* cleared table included.
LEMMA NotRunning ==
    ASSUME IInv, pc' \notin Running,
           UNCHANGED <<beaconFinal, unseen, contract, submits>>,
           UNCHANGED rows \/ rows' = [t \in Epochs |-> NoRow],
           TypeOK', CheckpointsArePast'
    PROVE  IInv'
  <1> USE EpochFacts DEF IInv
  <1>1. TargetInHand' /\ NoTargetSkipped'
    BY DEF TargetInHand, NoTargetSkipped, Running
  <1>2. RowInHand' /\ OutcomeSeen'
    BY DEF RowInHand, OutcomeSeen, Running, CommitSteps, StoredSteps
  <1>3. SubmittedOnce'
    BY DEF SubmittedOnce
  <1>4. \A t \in Epochs : rows'[t] # NoRow => rows[t] # NoRow /\ rows'[t] = rows[t]
    OBVIOUS
  <1>5. HandledOnce'
    BY <1>4 DEF HandledOnce, Handled
  <1>6. RowMatchesTarget'
    BY <1>4 DEF RowMatchesTarget
  <1>7. OutcomeIsBacked'
    BY <1>4 DEF OutcomeIsBacked, contract
  <1> QED BY <1>1, <1>2, <1>3, <1>5, <1>6, <1>7

LEMMA HaltFacts ==
    ASSUME IInv, Halt,
           UNCHANGED <<beaconFinal, unseen, contract, mempool, rows, lastSynced, submits>>
    PROVE  IInv'
  <1> USE EpochFacts DEF IInv
  <1>1. pc' \notin Running
    BY DEF Halt, Running, CommitSteps
  <1>2. TypeOK'
    BY ParameterAssumption DEF TypeOK, Halt, contract
  <1>3. CheckpointsArePast'
    BY DEF CheckpointsArePast, Halt
  <1> QED BY <1>1, <1>2, <1>3, NotRunning

LEMMA StopStep == IInv /\ Stop => IInv'
  BY HaltFacts DEF Stop, node

LEMMA BootStep == IInv /\ (Start \/ InitialSync \/ Subscribe) => IInv'
  <1> SUFFICES ASSUME IInv, Start \/ InitialSync \/ Subscribe PROVE IInv'
    OBVIOUS
  <1> USE EpochFacts DEF IInv
  <1>1. /\ UNCHANGED <<beaconFinal, unseen, contract, submits, events, checkpointCh,
                       mempool, nextTarget, local>>
        /\ pc' \in {"boot", "subscribe", "epoch"}
        /\ UNCHANGED rows \/ rows' = [t \in Epochs |-> NoRow]
    BY DEF Start, InitialSync, Subscribe, node
  <1>2. pc' \notin Running
    BY <1>1 DEF Running, CommitSteps
  <1>3. lastSynced' \in Blocks \cup {0}
    BY ChainFinalFacts DEF Start, InitialSync, Subscribe, TypeOK, MaxOf
  <1>4. TypeOK'
    BY <1>1, <1>3 DEF TypeOK, contract, local
  <1>5. CheckpointsArePast'
    BY <1>1 DEF CheckpointsArePast
  <1> QED BY <1>1, <1>2, <1>4, <1>5, NotRunning

\* The oracle waits for a target that lies beyond everything handled: the next
\* one after an epoch before the finalized one.
LEMMA NewTarget ==
    ASSUME IInv, pc' = "wait",
           NEW e \in Nat, nextTarget' = NextTarget(Schedule, e), e < beaconFinal,
           UNCHANGED <<beaconFinal, contract, submits>>,
           \A t \in Epochs : /\ rows'[t] # NoRow => t <= e
                             /\ submits[t] > 0 => t <= e
    PROVE  /\ TargetInHand' /\ NoTargetSkipped' /\ HandledOnce' /\ RowInHand'
           /\ OutcomeSeen' /\ SubmittedOnce'
  <1> USE EpochFacts DEF IInv
  <1>0. pc' \in Running /\ pc' \notin CommitSteps /\ pc' \notin StoredSteps
    BY DEF Running, CommitSteps, StoredSteps
  <1>1. TargetInHand' /\ RowInHand' /\ OutcomeSeen'
    BY <1>0 DEF TargetInHand, RowInHand, OutcomeSeen
  <1>2. beaconFinal \in Nat /\ nextTarget' \in Nat /\ e < nextTarget'
    BY NextTargetFacts DEF TypeOK
  <1>3. IsTarget(Schedule, nextTarget')
    BY NextTargetFacts
  <1>4. ASSUME NEW x \in Epochs, x >= beaconFinal, IsTarget(Schedule, x)
        PROVE  nextTarget' <= x
    <2>1. x \in Nat /\ e < x
      BY <1>2, <1>4
    <2> QED BY <1>4, <2>1, NextTargetFacts
  <1>5. NoTargetSkipped'
    BY <1>3, <1>4 DEF NoTargetSkipped
  <1>6. ASSUME NEW t \in Epochs, t <= e PROVE t < beaconFinal /\ t < nextTarget'
    BY <1>2, <1>6
  <1>7. HandledOnce'
    BY <1>6 DEF HandledOnce, Handled
  <1>8. SubmittedOnce'
    BY DEF SubmittedOnce
  <1> QED BY <1>1, <1>5, <1>7, <1>8

LEMMA FirstTargetStep == IInv /\ FirstTarget => IInv'
  <1> SUFFICES ASSUME IInv, FirstTarget PROVE IInv'
    OBVIOUS
  <1> USE EpochFacts DEF IInv
  <1>1. UNCHANGED <<beaconFinal, unseen, contract, mempool, rows, lastSynced, submits>>
    BY DEF FirstTarget, node
  <1>2. CASE beaconFinal = 0
    BY <1>1, <1>2, HaltFacts DEF FirstTarget
  <1>3. CASE beaconFinal # 0
    <2>1. /\ nextTarget' = NextTarget(Schedule, beaconFinal - 1) /\ pc' = "wait"
          /\ UNCHANGED <<events, checkpointCh, local>>
      BY <1>3 DEF FirstTarget
    <2>2. beaconFinal \in Nat /\ beaconFinal - 1 \in Nat
      BY <1>3 DEF TypeOK
    <2>3. nextTarget' \in Nat
      BY <2>1, <2>2, NextTargetFacts
    <2>4. TypeOK'
      BY <1>1, <2>1, <2>3 DEF TypeOK, contract, local
    <2>5. CheckpointsArePast'
      BY <1>1, <2>1 DEF CheckpointsArePast
    <2>6. \A t \in Epochs : /\ rows'[t] # NoRow => t <= beaconFinal - 1
                            /\ submits[t] > 0 => t <= beaconFinal - 1
      BY <1>1, <2>2 DEF HandledOnce, Handled
    <2>7. RowMatchesTarget' /\ OutcomeIsBacked'
      BY <1>1 DEF RowMatchesTarget, OutcomeIsBacked, contract
    <2>8. beaconFinal - 1 < beaconFinal
      BY <2>2
    <2> QED BY <1>1, <2>1, <2>2, <2>4, <2>5, <2>6, <2>7, <2>8, NewTarget
  <1> QED BY <1>2, <1>3

LEMMA ReceiveCheckpointStep == IInv /\ ReceiveCheckpoint => IInv'
  <1> SUFFICES ASSUME IInv, ReceiveCheckpoint PROVE IInv'
    OBVIOUS
  <1> USE EpochFacts DEF IInv
  <1> DEFINE h == Head(checkpointCh)
  <1>1. /\ pc = "wait" /\ checkpointCh # <<>> /\ checkpointCh' = Tail(checkpointCh)
        /\ UNCHANGED <<beaconFinal, unseen, events, contract, mempool, rows, lastSynced, submits>>
    BY DEF ReceiveCheckpoint, node
  <1>2. /\ checkpointCh \in Seq(Epochs) /\ Len(checkpointCh) <= 1
        /\ beaconFinal \in Nat /\ nextTarget \in Nat
        /\ \A i \in 1..Len(checkpointCh) : checkpointCh[i] <= beaconFinal
    BY DEF TypeOK, CheckpointsArePast
  <1>3. /\ checkpointCh' \in Seq(Epochs) /\ h \in Epochs /\ h \in Nat /\ h <= beaconFinal
        /\ \A i \in 1..Len(checkpointCh') : checkpointCh'[i] <= beaconFinal
    BY <1>1, <1>2, TailAll
  <1>4. Len(checkpointCh') <= 1
    BY <1>1, <1>2
  <1>5. CheckpointsArePast'
    BY <1>1, <1>3 DEF CheckpointsArePast
  <1>6. RowMatchesTarget' /\ OutcomeIsBacked' /\ SubmittedOnce'
    BY <1>1 DEF RowMatchesTarget, OutcomeIsBacked, SubmittedOnce, contract
  <1>7. \A t \in Epochs : /\ rows[t] # NoRow => t < nextTarget
                          /\ submits[t] > 0 => t < nextTarget
    BY <1>1 DEF HandledOnce, Handled, Running, StoredSteps, SentSteps
  <1> HIDE DEF h
  <1>8. CASE h - 1 < nextTarget
    <2>1. UNCHANGED <<pc, nextTarget, local>>
      BY <1>8 DEF ReceiveCheckpoint, h
    <2>2. TypeOK'
      BY <1>1, <1>3, <1>4, <2>1 DEF TypeOK, contract, local
    <2> QED BY <1>1, <1>2, <1>5, <2>1, <2>2, OracleUntouched DEF contract, local, TypeOK
  <1>9. CASE h - 1 > nextTarget
    <2>1. /\ nextTarget' = NextTarget(Schedule, h - 1) /\ UNCHANGED <<pc, local>>
      BY <1>2, <1>3, <1>9 DEF ReceiveCheckpoint, h
    <2>2. h - 1 \in Nat /\ h - 1 < beaconFinal
      BY <1>2, <1>3, <1>9
    <2>3. nextTarget' \in Nat
      BY <2>1, <2>2, NextTargetFacts
    <2>4. TypeOK'
      BY <1>1, <1>3, <1>4, <2>1, <2>3 DEF TypeOK, contract, local
    <2>5. \A t \in Epochs : /\ rows'[t] # NoRow => t <= h - 1
                            /\ submits[t] > 0 => t <= h - 1
      BY <1>1, <1>2, <1>3, <1>7, <1>9
    <2> QED BY <1>1, <1>5, <1>6, <2>1, <2>2, <2>4, <2>5, NewTarget
  <1>10. CASE h - 1 = nextTarget
    <2>1. pc' = "sync" /\ cp' = h /\ UNCHANGED <<nextTarget, vals, bals, left>>
      BY <1>2, <1>3, <1>10 DEF ReceiveCheckpoint, h
    <2>2. TypeOK'
      BY <1>1, <1>3, <1>4, <2>1 DEF TypeOK, contract, CommitSteps
    <2>3. TargetInHand' /\ RowInHand' /\ OutcomeSeen'
      BY <1>1, <1>3, <1>10, <2>1 DEF TargetInHand, RowInHand, OutcomeSeen, StoredSteps
    <2>4. NoTargetSkipped'
      BY <1>1, <2>1 DEF NoTargetSkipped
    <2>5. HandledOnce'
      BY <1>1, <1>7, <2>1 DEF HandledOnce, Handled
    <2> QED BY <1>5, <1>6, <2>2, <2>3, <2>4, <2>5
  <1> QED BY <1>2, <1>3, <1>8, <1>9, <1>10

-----------------------------------------------------------------------------
(* Oracle.commit.                                                          *)

\* A step inside a commit that stores and submits nothing.
LEMMA CommitMoves ==
    ASSUME IInv, pc \in CommitSteps, pc' \in CommitSteps,
           UNCHANGED <<beaconFinal, unseen, events, contract, rows, checkpointCh, nextTarget,
                       cp, submits>>,
           pc' \in StoredSteps <=> pc \in StoredSteps,
           pc \in StoredSteps => UNCHANGED <<vals, bals>>,
           pc \in SentSteps => pc' \in SentSteps,
           TypeOK', OutcomeSeen'
    PROVE  IInv'
  <1> USE EpochFacts DEF IInv
  <1>1. CheckpointsArePast'
    BY DEF CheckpointsArePast
  <1>2. TargetInHand'
    BY DEF TargetInHand
  <1>3. NoTargetSkipped'
    BY DEF NoTargetSkipped
  <1>4. HandledOnce'
    BY DEF HandledOnce, Handled, Running
  <1>5. RowInHand'
    BY DEF RowInHand, Target, RefBlock, OurRoot
  <1>6. RowMatchesTarget' /\ OutcomeIsBacked' /\ SubmittedOnce'
    BY DEF RowMatchesTarget, OutcomeIsBacked, SubmittedOnce, contract
  <1> QED BY <1>1, <1>2, <1>3, <1>4, <1>5, <1>6

LEMMA PrepareStep ==
    IInv /\ (SyncToBlock \/ ReadValidators \/ VerifyFinalizedBlockRoot \/ FetchBalances) => IInv'
  <1> SUFFICES ASSUME IInv,
                      SyncToBlock \/ ReadValidators \/ VerifyFinalizedBlockRoot \/ FetchBalances
               PROVE  IInv'
    OBVIOUS
  <1> USE EpochFacts DEF IInv
  <1>1. /\ pc \in {"sync", "read", "verify", "balances"}
        /\ pc' \in {"read", "verify", "balances", "insert"}
        /\ UNCHANGED <<beaconFinal, unseen, events, contract, mempool, rows, checkpointCh,
                       nextTarget, cp, submits>>
    BY DEF SyncToBlock, ReadValidators, VerifyFinalizedBlockRoot, FetchBalances, node, local
  <1>2. /\ pc \in CommitSteps /\ pc' \in CommitSteps
        /\ pc \notin StoredSteps /\ pc' \notin StoredSteps /\ pc \notin SentSteps
    BY <1>1 DEF CommitSteps, StoredSteps, SentSteps
  <1>3. lastSynced' \in Blocks \cup {0}
    BY <1>2, InHandFacts DEF SyncToBlock, ReadValidators, VerifyFinalizedBlockRoot,
                             FetchBalances, TypeOK, MaxOf
  <1>4. vals' \in Blocks \cup {0}
    BY DEF SyncToBlock, ReadValidators, VerifyFinalizedBlockRoot, FetchBalances, TypeOK, local
  <1>5. bals' \subseteq Blocks
    BY DEF SyncToBlock, ReadValidators, VerifyFinalizedBlockRoot, FetchBalances, TypeOK, local
  <1>6. left' \in 0..NumBatches
    <2>1. left \in 0..NumBatches /\ NumBatches \in Nat
      BY ParameterAssumption DEF TypeOK
    <2> QED BY <2>1 DEF SyncToBlock, ReadValidators, VerifyFinalizedBlockRoot, FetchBalances, local
  <1>7. TypeOK'
    BY <1>1, <1>2, <1>3, <1>4, <1>5, <1>6 DEF TypeOK, contract
  <1>8. OutcomeSeen'
    BY <1>2 DEF OutcomeSeen, StoredSteps
  <1> QED BY <1>1, <1>2, <1>7, <1>8, CommitMoves

\* No row of the target is there before: it is inserted, not found.
LEMMA NoRowBefore ==
    ASSUME IInv, pc \in CommitSteps \ StoredSteps
    PROVE  rows[nextTarget] = NoRow
  <1>1. nextTarget \in Epochs /\ nextTarget \in Nat
    BY InHandFacts DEF IInv, TypeOK
  <1> QED BY <1>1 DEF IInv, HandledOnce, Handled, Running

LEMMA StorePendingStep == IInv /\ StorePending => IInv'
  <1> SUFFICES ASSUME IInv, StorePending PROVE IInv'
    OBVIOUS
  <1> USE EpochFacts
  <1>1. /\ pc = "insert" /\ pc' = "check"
        /\ UNCHANGED <<beaconFinal, unseen, events, contract, mempool, lastSynced,
                       checkpointCh, nextTarget, local, submits>>
    BY DEF StorePending, node
  <1>2. pc \in CommitSteps \ StoredSteps
    BY <1>1 DEF CommitSteps, StoredSteps
  <1>3. /\ nextTarget \in Epochs /\ nextTarget \in Nat /\ cp = nextTarget + 1 /\ cp \in Epochs
        /\ IsTarget(Schedule, nextTarget) /\ nextTarget < beaconFinal
        /\ RefBlock \in Blocks /\ OurRoot \in Roots
    BY <1>2, InHandFacts DEF IInv, TypeOK
  <1>4. rows' = [rows EXCEPT ![nextTarget] = Row(RefBlock, OurRoot)]
    BY <1>2, NoRowBefore DEF StorePending, InsertPendingCommit, Target
  <1>5. Row(RefBlock, OurRoot) \in RowType
    BY <1>3, RowIsRow
  <1> USE DEF IInv
  <1>6. rows \in [Epochs -> RowType \cup {NoRow}]
    BY DEF TypeOK
  <1>7. /\ rows' \in [Epochs -> RowType \cup {NoRow}]
        /\ rows'[nextTarget] = Row(RefBlock, OurRoot)
        /\ \A t \in Epochs : t # nextTarget => rows'[t] = rows[t]
    BY <1>3, <1>4, <1>5, <1>6
  <1>8. TypeOK'
    BY <1>1, <1>7 DEF TypeOK, contract, local, CommitSteps
  <1>9. CheckpointsArePast' /\ TargetInHand' /\ NoTargetSkipped' /\ SubmittedOnce'
    BY <1>1, <1>2 DEF CheckpointsArePast, TargetInHand, NoTargetSkipped, SubmittedOnce,
                      local, CommitSteps
  <1>10. HandledOnce'
    <2>1. pc \in Running /\ pc' \in Running /\ pc' \in StoredSteps /\ pc \notin SentSteps
      BY <1>1 DEF Running, CommitSteps, StoredSteps, SentSteps
    <2> QED BY <1>1, <1>2, <1>3, <1>7, <2>1 DEF HandledOnce, Handled
  <1>11. RowInHand' /\ OutcomeSeen'
    BY <1>1, <1>7 DEF RowInHand, OutcomeSeen, Target, RefBlock, OurRoot, local
  <1>12. RowMatchesTarget'
    <2>1. rows'[nextTarget].block = BlockOf[nextTarget + 1]
      BY <1>3, <1>7 DEF Row, RefBlock
    <2> QED BY <1>3, <1>7, <2>1 DEF RowMatchesTarget
  <1>13. OutcomeIsBacked'
    <2>1. rows'[nextTarget].status = "pending"
      BY <1>7 DEF Row
    <2> QED BY <1>1, <1>7, <2>1 DEF OutcomeIsBacked, contract
  <1> QED BY <1>8, <1>9, <1>10, <1>11, <1>12, <1>13

LEMMA CheckStep ==
    IInv /\ (CheckCommittedRoot \/ SubmitFails \/ ReceiveReceipt \/ GiveUp) => IInv'
  <1> SUFFICES ASSUME IInv, CheckCommittedRoot \/ SubmitFails \/ ReceiveReceipt \/ GiveUp
               PROVE  IInv'
    OBVIOUS
  <1> USE EpochFacts DEF IInv
  <1>1. /\ pc \in {"check", "send", "await"}
        /\ pc' \in {"send", "matching", "conflict", "fail", "confirm", "revert"}
        /\ pc = "await" => pc' \in {"fail", "confirm", "revert"}
        /\ UNCHANGED <<beaconFinal, unseen, events, contract, rows, lastSynced, checkpointCh,
                       nextTarget, local, submits>>
        /\ mempool' \subseteq mempool
    BY DEF CheckCommittedRoot, SubmitFails, ReceiveReceipt, GiveUp, node
  <1>2. /\ pc \in CommitSteps /\ pc' \in CommitSteps
        /\ pc \in StoredSteps /\ pc' \in StoredSteps
        /\ pc \in SentSteps => pc' \in SentSteps
    BY <1>1 DEF CommitSteps, StoredSteps, SentSteps
  <1>3. TypeOK'
    BY <1>1, <1>2 DEF TypeOK, contract, local
  <1>4. OutcomeSeen'
    <2>1. pc' = "matching" => committed[RefBlock] = OurRoot
      BY DEF CheckCommittedRoot, SubmitFails, ReceiveReceipt, GiveUp
    <2>2. pc' = "confirm" => OurTx \in votes
      BY DEF CheckCommittedRoot, SubmitFails, ReceiveReceipt, GiveUp
    <2>3. pc' = "revert" => OurTx \in reverted
      BY DEF CheckCommittedRoot, SubmitFails, ReceiveReceipt, GiveUp
    <2> QED BY <1>1, <2>1, <2>2, <2>3 DEF OutcomeSeen, OurTx, OurRoot, RefBlock, contract, local
  <1> QED BY <1>1, <1>2, <1>3, <1>4, CommitMoves DEF local

\* The target in hand has not been submitted before.
LEMMA SubmitRootStep == IInv /\ SubmitRoot => IInv'
  <1> SUFFICES ASSUME IInv, SubmitRoot PROVE IInv'
    OBVIOUS
  <1> USE EpochFacts
  <1>1. /\ pc = "send" /\ pc' \in {"await", "fail"}
        /\ UNCHANGED <<beaconFinal, unseen, events, contract, rows, lastSynced, checkpointCh,
                       nextTarget, local>>
    BY DEF SubmitRoot, node
  <1>2. /\ pc \in CommitSteps /\ pc' \in CommitSteps /\ pc \in Running /\ pc' \in Running
        /\ pc \in StoredSteps /\ pc' \in StoredSteps /\ pc \notin SentSteps /\ pc' \in SentSteps
    BY <1>1 DEF CommitSteps, Running, StoredSteps, SentSteps
  <1>3. /\ nextTarget \in Epochs /\ nextTarget \in Nat /\ nextTarget < beaconFinal
        /\ OurTx \in TxType
    BY <1>2, InHandFacts DEF IInv, TypeOK
  <1> USE DEF IInv
  <1>4. submits \in [Epochs -> 0..2] /\ mempool \subseteq TxType
    BY DEF TypeOK
  <1>5. submits[nextTarget] = 0
    BY <1>2, <1>3, <1>4 DEF HandledOnce, Handled
  <1>6. /\ submits' \in [Epochs -> 0..2] /\ mempool' \subseteq TxType
        /\ submits'[nextTarget] <= 1
        /\ \A t \in Epochs : t # nextTarget => submits'[t] = submits[t]
    BY <1>3, <1>4, <1>5 DEF SubmitRoot, Target
  <1>7. TypeOK'
    BY <1>1, <1>2, <1>6 DEF TypeOK, contract, local
  <1>8. SubmittedOnce'
    BY <1>6 DEF SubmittedOnce
  <1>9. HandledOnce'
    BY <1>1, <1>2, <1>3, <1>6 DEF HandledOnce, Handled
  <1>10. CheckpointsArePast' /\ TargetInHand' /\ NoTargetSkipped'
    BY <1>1, <1>2 DEF CheckpointsArePast, TargetInHand, NoTargetSkipped, local
  <1>11. RowInHand' /\ OutcomeSeen'
    BY <1>1, <1>2 DEF RowInHand, OutcomeSeen, Target, RefBlock, OurRoot, local
  <1>12. RowMatchesTarget' /\ OutcomeIsBacked'
    BY <1>1 DEF RowMatchesTarget, OutcomeIsBacked, contract
  <1> QED BY <1>7, <1>8, <1>9, <1>10, <1>11, <1>12

\* commit returns: on to the next target.
LEMMA FinishFacts ==
    ASSUME IInv, pc \in CommitSteps, Finish,
           UNCHANGED <<beaconFinal, unseen, events, contract, mempool, checkpointCh, submits>>,
           lastSynced' \in Blocks \cup {0},
           rows' \in [Epochs -> RowType \cup {NoRow}],
           \A t \in Epochs : rows[t] = NoRow => rows'[t] = NoRow,
           RowMatchesTarget', OutcomeIsBacked'
    PROVE  IInv'
  <1> USE EpochFacts DEF IInv
  <1>1. /\ cp - 1 \in Nat /\ cp - 1 = nextTarget /\ nextTarget < beaconFinal
    BY InHandFacts
  <1>2. pc' = "wait" /\ nextTarget' = NextTarget(Schedule, cp - 1)
    BY DEF Finish
  <1>3. nextTarget' \in Nat
    BY <1>1, <1>2, NextTargetFacts
  <1>4. TypeOK'
    BY <1>2, <1>3, ParameterAssumption DEF TypeOK, contract, Finish
  <1>5. CheckpointsArePast'
    BY DEF CheckpointsArePast
  <1>6. \A t \in Epochs : /\ rows'[t] # NoRow => t <= cp - 1
                          /\ submits[t] > 0 => t <= cp - 1
    BY <1>1 DEF HandledOnce, Handled, Running
  <1> QED BY <1>1, <1>2, <1>4, <1>5, <1>6, NewTarget

LEMMA CommitFailsStep == IInv /\ CommitFails => IInv'
  <1> SUFFICES ASSUME IInv, CommitFails PROVE IInv'
    OBVIOUS
  <1>1. /\ pc \in CommitSteps /\ Finish
        /\ UNCHANGED <<beaconFinal, unseen, events, contract, mempool, rows, checkpointCh, submits>>
    BY DEF CommitFails, CommitSteps, node
  <1>2. lastSynced' \in Blocks \cup {0}
    BY DEF CommitFails, IInv, TypeOK
  <1>3. RowMatchesTarget' /\ OutcomeIsBacked' /\ rows' \in [Epochs -> RowType \cup {NoRow}]
    BY <1>1 DEF IInv, TypeOK, RowMatchesTarget, OutcomeIsBacked, contract
  <1> QED BY <1>1, <1>2, <1>3, FinishFacts

\* What RecordOutcome writes, if it writes: the row that was inserted, with an
\* outcome.
LEMMA OutcomeWritten ==
    ASSUME IInv, RecordOutcome
    PROVE  /\ nextTarget \in Epochs
           /\ rows[nextTarget] = Row(RefBlock, OurRoot) /\ rows[nextTarget] # NoRow
           /\ Outcome[1] \in {"confirmed", "failed"} /\ Outcome[2] \in BOOLEAN
           /\ \/ UNCHANGED rows
              \/ rows' = [rows EXCEPT ![nextTarget] = [block |-> RefBlock, root |-> OurRoot,
                                                       status |-> Outcome[1],
                                                       hash |-> Outcome[2]]]
  <1>1. pc \in {"confirm", "matching", "revert", "fail", "conflict"}
    BY DEF RecordOutcome
  <1>2. pc \in CommitSteps /\ pc \in StoredSteps
    BY <1>1 DEF CommitSteps, StoredSteps
  <1>3. nextTarget \in Epochs /\ RefBlock \in Blocks /\ OurRoot \in Roots
    BY <1>2, InHandFacts
  <1>4. rows[nextTarget] = Row(RefBlock, OurRoot)
    BY <1>2 DEF IInv, RowInHand, Target
  <1>5. rows[nextTarget] # NoRow /\ rows[nextTarget].status = "pending"
    BY <1>3, <1>4, RowIsRow DEF Row
  <1>6. Outcome[1] \in {"confirmed", "failed"} /\ Outcome[2] \in BOOLEAN
    BY <1>1 DEF Outcome
  <1>7. UpdateCommitStatus(Outcome[1], Outcome[2]) \/ UNCHANGED rows
    BY DEF RecordOutcome
  <1> HIDE DEF Outcome
  <1>8. Resolved(rows[nextTarget], Outcome[1], Outcome[2])
           = [block |-> RefBlock, root |-> OurRoot, status |-> Outcome[1], hash |-> Outcome[2]]
    BY <1>4, <1>6 DEF Resolved, Row
  <1>9. UpdateCommitStatus(Outcome[1], Outcome[2]) =>
           rows' = [rows EXCEPT ![nextTarget] = [block |-> RefBlock, root |-> OurRoot,
                                                 status |-> Outcome[1], hash |-> Outcome[2]]]
    BY <1>5, <1>8 DEF UpdateCommitStatus, Target
  <1> QED BY <1>3, <1>4, <1>5, <1>6, <1>7, <1>9

\* The outcome goes to the row that was inserted, and is what was seen.
LEMMA RecordOutcomeStep == IInv /\ RecordOutcome => IInv'
  <1> SUFFICES ASSUME IInv, RecordOutcome PROVE IInv'
    OBVIOUS
  <1> USE EpochFacts
  <1>1. /\ pc \in {"confirm", "matching", "revert", "fail", "conflict"} /\ Finish
        /\ UNCHANGED <<beaconFinal, unseen, events, contract, mempool, lastSynced,
                       checkpointCh, submits>>
    BY DEF RecordOutcome, node
  <1>2. pc \in CommitSteps /\ pc \in StoredSteps
    BY <1>1 DEF CommitSteps, StoredSteps
  <1>3. /\ nextTarget \in Epochs /\ RefBlock \in Blocks /\ OurRoot \in Roots
    BY <1>2, InHandFacts
  <1>4. /\ rows \in [Epochs -> RowType \cup {NoRow}] /\ lastSynced \in Blocks \cup {0}
    BY DEF IInv, TypeOK
  <1>5. CASE UNCHANGED rows
    <2>1. RowMatchesTarget' /\ OutcomeIsBacked'
      BY <1>1, <1>5 DEF IInv, RowMatchesTarget, OutcomeIsBacked, contract
    <2> QED BY <1>1, <1>2, <1>4, <1>5, <2>1, FinishFacts
  <1>6. CASE ~(UNCHANGED rows)
    <2> DEFINE new == [block |-> RefBlock, root |-> OurRoot,
                       status |-> Outcome[1], hash |-> Outcome[2]]
    <2>1. Outcome[1] \in {"confirmed", "failed"} /\ Outcome[2] \in BOOLEAN
      BY OutcomeWritten
    <2>2. rows[nextTarget] # NoRow /\ rows[nextTarget] = Row(RefBlock, OurRoot)
      BY OutcomeWritten
    <2>3. rows' = [rows EXCEPT ![nextTarget] = new]
      BY <1>6, OutcomeWritten
    <2>4. new \in RowType /\ new # NoRow
      BY <1>3, <2>1, NoRowAssumption DEF RowType
    <2>5. /\ rows' \in [Epochs -> RowType \cup {NoRow}]
          /\ rows'[nextTarget] = new
          /\ \A t \in Epochs : t # nextTarget => rows'[t] = rows[t]
      BY <1>3, <1>4, <2>3, <2>4
    <2>6. \A t \in Epochs : rows[t] = NoRow => rows'[t] = NoRow
      BY <2>2, <2>5
    <2>7. RowMatchesTarget'
      <3>1. rows'[nextTarget].block = rows[nextTarget].block
        BY <2>2, <2>5 DEF Row
      <3> QED BY <2>2, <2>5, <2>6, <3>1 DEF IInv, RowMatchesTarget
    <2>8. OutcomeIsBacked'
      <3>1. /\ pc = "confirm" => <<RefBlock, OurRoot>> \in votes
            /\ pc = "revert" => <<RefBlock, OurRoot>> \in reverted
            /\ pc = "matching" => committed[RefBlock] = OurRoot
        BY DEF IInv, OutcomeSeen, OurTx
      <3>2. /\ Outcome[1] = "confirmed" /\ Outcome[2] => pc = "confirm"
            /\ Outcome[1] = "confirmed" /\ ~Outcome[2] => pc = "matching"
            /\ Outcome[1] = "failed" /\ Outcome[2] => pc = "revert"
        BY <1>1 DEF Outcome
      <3> HIDE DEF Outcome
      <3>3. /\ new.status = Outcome[1] /\ new.hash = Outcome[2]
            /\ new.block = RefBlock /\ new.root = OurRoot
        OBVIOUS
      <3> HIDE DEF new
      <3>4. ASSUME NEW t \in Epochs, rows'[t] # NoRow
            PROVE  /\ (rows'[t].status = "confirmed" /\ rows'[t].hash)
                        => <<rows'[t].block, rows'[t].root>> \in votes
                   /\ (rows'[t].status = "confirmed" /\ ~rows'[t].hash)
                        => committed[rows'[t].block] = rows'[t].root
                   /\ (rows'[t].status = "failed" /\ rows'[t].hash)
                        => <<rows'[t].block, rows'[t].root>> \in reverted
        <4>1. CASE t = nextTarget
          BY <2>5, <3>1, <3>2, <3>3, <4>1
        <4>2. CASE t # nextTarget
          BY <2>5, <3>4, <4>2 DEF IInv, OutcomeIsBacked
        <4> QED BY <4>1, <4>2
      <3> QED BY <1>1, <3>4 DEF OutcomeIsBacked, contract
    <2> QED BY <1>1, <1>2, <1>4, <2>5, <2>6, <2>7, <2>8, FinishFacts
  <1> QED BY <1>5, <1>6

-----------------------------------------------------------------------------
(* The theorems that hold however slow the fetch and the beacon node are.  *)

LEMMA InitIInv == Init => IInv
  <1> SUFFICES ASSUME Init PROVE IInv
    OBVIOUS
  <1> USE EpochFacts
  <1>1. pc = "down" /\ pc \notin Running /\ pc \notin CommitSteps /\ pc \notin StoredSteps
    BY DEF Init, Running, CommitSteps, StoredSteps
  <1>2. /\ unseen = <<>> /\ events = <<>> /\ checkpointCh = <<>>
        /\ rows = [t \in Epochs |-> NoRow] /\ submits = [t \in Epochs |-> 0]
    BY DEF Init
  <1>3. beaconFinal \in Epochs
    BY BlockAssumption DEF Init, Epochs
  <1>4. TypeOK
    BY <1>1, <1>3, ParameterAssumption DEF Init, TypeOK
  <1>5. CheckpointsArePast
    BY <1>2 DEF CheckpointsArePast
  <1>6. TargetInHand /\ NoTargetSkipped /\ RowInHand /\ OutcomeSeen
    BY <1>1 DEF TargetInHand, NoTargetSkipped, RowInHand, OutcomeSeen, Running
  <1>7. HandledOnce /\ RowMatchesTarget /\ OutcomeIsBacked /\ SubmittedOnce
    BY <1>2 DEF HandledOnce, RowMatchesTarget, OutcomeIsBacked, SubmittedOnce
  <1> QED BY <1>4, <1>5, <1>6, <1>7 DEF IInv

LEMMA NextIInv == IInv /\ [Next]_vars => IInv'
  <1> SUFFICES ASSUME IInv, [Next]_vars PROVE IInv'
    OBVIOUS
  <1>1. CASE Environment
    BY <1>1, FinalizeStep, BeaconFinalizeStep, StreamStep, ContractStep, BootStep, StopStep
       DEF Environment
  <1>2. CASE RunStep
    BY <1>2, BootStep, FirstTargetStep, ReceiveCheckpointStep DEF RunStep
  <1>3. CASE CommitStep
    BY <1>3, CommitFailsStep, PrepareStep, StorePendingStep, CheckStep, SubmitRootStep,
       RecordOutcomeStep DEF CommitStep
  <1>4. CASE UNCHANGED vars
    BY <1>4 DEF vars, IInv, TypeOK, CheckpointsArePast, TargetInHand, NoTargetSkipped,
       HandledOnce, Handled, RowInHand, Target, RefBlock, OurRoot, OurTx, OutcomeSeen,
       RowMatchesTarget, OutcomeIsBacked, SubmittedOnce
  <1> QED BY <1>1, <1>2, <1>3, <1>4 DEF Next

LEMMA SpecIInv == Spec => []IInv
  BY InitIInv, NextIInv, PTL DEF Spec

\* Every variable keeps its type, and the channel never holds two checkpoints.
THEOREM OracleTypeCorrect == Spec => []TypeOK
  <1>1. IInv => TypeOK
    BY DEF IInv
  <1> QED BY <1>1, SpecIInv, PTL

\* A row in oracle_commits is of a target of the schedule and has the block of
\* the checkpoint that finalized exactly that target, for every schedule and
\* however checkpoints are lost, repeated or late (oracle.go Run, commit).
THEOREM OracleRowMatchesTarget == Spec => []RowMatchesTarget
  <1>1. IInv => RowMatchesTarget
    BY DEF IInv
  <1> QED BY <1>1, SpecIInv, PTL

\* A row's final status is what the chain shows: our executed vote, the root
\* committed, or our reverted transaction (oracle.go commit, handleCommitError).
THEOREM OracleOutcomeIsBacked == Spec => []OutcomeIsBacked
  <1>1. IInv => OutcomeIsBacked
    BY DEF IInv
  <1> QED BY <1>1, SpecIInv, PTL

\* No target is submitted twice, across any number of crashes and restarts,
\* with the database kept or cleared (oracle.go Run).
THEOREM OracleSubmitsOnce == Spec => []SubmittedOnce
  <1>1. IInv => SubmittedOnce
    BY DEF IInv
  <1> QED BY <1>1, SpecIInv, PTL

\* The oracle never waits for a target beyond one that is still to be finalized
\* (phase.go NextTarget, oracle.go Run).
THEOREM OracleSkipsNoTarget == Spec => []NoTargetSkipped
  <1>1. IInv => NoTargetSkipped
    BY DEF IInv
  <1> QED BY <1>1, SpecIInv, PTL

LEMMA TargetStep ==
    ASSUME IInv, [Next]_vars, pc \in Running, pc' # "down"
    PROVE  nextTarget' >= nextTarget
  <1> USE EpochFacts
  <1>0. nextTarget \in Nat
    BY DEF IInv, TypeOK
  <1>1. CASE ReceiveCheckpoint
    <2> DEFINE h == Head(checkpointCh)
    <2>1. checkpointCh # <<>> /\ checkpointCh \in Seq(Epochs)
      BY <1>1 DEF ReceiveCheckpoint, IInv, TypeOK
    <2>2. h \in Nat
      BY <2>1
    <2>3. CASE h - 1 > nextTarget
      <3>1. nextTarget' = NextTarget(Schedule, h - 1) /\ h - 1 \in Nat
        BY <1>0, <1>1, <2>2, <2>3 DEF ReceiveCheckpoint
      <3>2. h - 1 < nextTarget' /\ nextTarget' \in Nat
        BY <3>1, NextTargetFacts
      <3> QED BY <1>0, <2>2, <2>3, <3>2
    <2>4. CASE ~(h - 1 > nextTarget)
      <3>1. nextTarget' = nextTarget
        BY <1>1, <2>4 DEF ReceiveCheckpoint
      <3> QED BY <1>0, <3>1
    <2> QED BY <2>3, <2>4
  <1>2. CASE CommitFails \/ RecordOutcome
    <2>1. pc \in CommitSteps /\ Finish
      BY <1>2 DEF CommitFails, RecordOutcome, CommitSteps
    <2>2. cp - 1 = nextTarget
      BY <2>1, InHandFacts
    <2>3. nextTarget' = NextTarget(Schedule, nextTarget)
      BY <2>1, <2>2 DEF Finish
    <2>4. nextTarget < nextTarget' /\ nextTarget' \in Nat
      BY <1>0, <2>3, NextTargetFacts
    <2> QED BY <1>0, <2>4
  <1>3. CASE UNCHANGED nextTarget
    BY <1>0, <1>3
  <1>4. ASSUME Next, ~ReceiveCheckpoint, ~CommitFails, ~RecordOutcome
        PROVE  UNCHANGED nextTarget
    <2>1. CASE Environment
      BY <2>1 DEF Environment, Finalize, BeaconFinalize, RepeatEvent, DeliverCheckpoint,
         LoseCheckpoint, OthersCommit, Mine, Start, Stop, Halt
    <2>2. CASE RunStep
      BY <1>4, <2>2 DEF RunStep, InitialSync, Subscribe, FirstTarget, Running, CommitSteps
    <2>3. CASE CommitStep
      BY <1>4, <2>3 DEF CommitStep, SyncToBlock, ReadValidators, VerifyFinalizedBlockRoot,
         FetchBalances, StorePending, CheckCommittedRoot, SubmitRoot, SubmitFails,
         ReceiveReceipt, GiveUp
    <2> QED BY <1>4, <2>1, <2>2, <2>3 DEF Next
  <1>5. CASE UNCHANGED vars
    BY <1>3, <1>5 DEF vars
  <1> QED BY <1>1, <1>2, <1>3, <1>4, <1>5

\* While the oracle runs its target only moves forward, whatever checkpoint
\* arrives late (oracle.go Run).
THEOREM OracleTargetAdvances == Spec => TargetAdvances
  <1>1. IInv /\ [Next]_vars =>
           [(pc \in {"wait"} \cup CommitSteps /\ pc' # "down") => nextTarget' >= nextTarget]_vars
    BY TargetStep DEF Running
  <1> QED BY <1>1, SpecIInv, PTL DEF Spec, TargetAdvances

-----------------------------------------------------------------------------
(* The root of one instant.                                                *)

\* Blocks and the cursor as numbers.
LEMMA CursorFacts ==
    ASSUME IInv
    PROVE  /\ lastSynced \in Nat /\ nextTarget \in Nat /\ beaconFinal \in Epochs /\ beaconFinal \in Nat
           /\ ChainFinal \in Epochs /\ ChainFinal \in Nat
           /\ unseen \in Seq(Epochs) /\ events \in Seq(Epochs) /\ checkpointCh \in Seq(Epochs)
           /\ \A e \in Epochs : BlockOf[e] \in Nat
           /\ BlockOf[beaconFinal] <= BlockOf[ChainFinal]
  <1>1. /\ lastSynced \in Nat /\ nextTarget \in Nat /\ beaconFinal \in Epochs
        /\ unseen \in Seq(Epochs) /\ events \in Seq(Epochs) /\ checkpointCh \in Seq(Epochs)
    BY EpochFacts DEF IInv, TypeOK
  <1>2. ChainFinal \in Epochs /\ beaconFinal <= ChainFinal
    BY ChainFinalFacts
  <1>3. \A e \in Epochs : BlockOf[e] \in Nat
    BY EpochFacts
  <1> QED BY <1>1, <1>2, <1>3, EpochFacts

\* A commit in hand moves the cursor at most to its reference block, and a
\* checkpoint beyond the target has no earlier block.
LEMMA CommitTables ==
    ASSUME IInv, TablesNotAhead, pc \in CommitSteps, pc' \in Running,
           UNCHANGED <<beaconFinal, unseen, events, checkpointCh>>,
           lastSynced' \in Nat, lastSynced' <= RefBlock,
           nextTarget' \in Nat, nextTarget <= nextTarget',
           pc' \in CommitSteps => cp' = cp
    PROVE  TablesNotAhead'
  <1> USE EpochFacts
  <1>1. /\ cp \in Epochs /\ cp \in Nat /\ nextTarget + 1 = cp /\ RefBlock \in Nat
    BY InHandFacts
  <1>2. cp <= beaconFinal
    BY DEF IInv, TargetInHand
  <1>3. ASSUME NEW e \in Epochs PROVE NotAhead(e)'
    <2>1. SUFFICES ASSUME e > nextTarget' PROVE lastSynced' <= BlockOf[e]
      BY DEF NotAhead
    <2>2. cp <= e
      BY <1>1, <2>1, CursorFacts
    <2>3. RefBlock <= BlockOf[e] /\ BlockOf[e] \in Nat
      BY <1>1, <2>2 DEF RefBlock
    <2> QED BY <1>1, <2>3
  <1>4. lastSynced' <= BlockOf[ChainFinal]
    <2>1. RefBlock <= BlockOf[beaconFinal] /\ BlockOf[beaconFinal] <= BlockOf[ChainFinal]
      BY <1>1, <1>2, CursorFacts DEF RefBlock
    <2> QED BY <1>1, <2>1, CursorFacts
  <1>5. ChainFinal' = ChainFinal
    BY DEF ChainFinal
  <1>6. pc' \in CommitSteps => RefBlock' = RefBlock
    BY DEF RefBlock
  <1>7. /\ \A i \in 1..Len(events) : events[i] \in Epochs
        /\ \A i \in 1..Len(checkpointCh) : checkpointCh[i] \in Epochs
        /\ \A i \in 1..Len(unseen) : unseen[i] \in Epochs
        /\ beaconFinal \in Epochs
    BY CursorFacts
  <1>8. /\ \A i \in 1..Len(events') : NotAhead(events[i])'
        /\ \A i \in 1..Len(checkpointCh') : NotAhead(checkpointCh[i])'
        /\ \A i \in 1..Len(unseen') : NotAhead(unseen[i])'
        /\ NotAhead(beaconFinal)'
    BY <1>3, <1>7 DEF NotAhead
  <1> QED BY <1>4, <1>5, <1>6, <1>8 DEF TablesNotAhead

\* Nothing of the commit in hand changes.
LEMMA InstantKept ==
    ASSUME OneInstant, RootIsPointInTime, UNCHANGED <<pc, rows, cp, vals, bals, left>>,
           pc = "balances" => BlockOf[beaconFinal'] = BlockOf[beaconFinal],
           pc = "read" => lastSynced' = lastSynced
    PROVE  OneInstant' /\ RootIsPointInTime'
  BY DEF OneInstant, RootIsPointInTime, RefBlock

LEMMA FinalizePrompt == IInv /\ PInv /\ IInv' /\ Finalize => PInv'
  <1> SUFFICES ASSUME IInv, PInv, IInv', Finalize PROVE PInv'
    OBVIOUS
  <1> USE EpochFacts
  <1>1. PICK e \in {ChainFinal + 1, ChainFinal + 2} : e <= MaxEpoch /\ unseen' = Append(unseen, e)
    BY DEF Finalize
  <1>2. /\ UNCHANGED <<beaconFinal, events, rows, lastSynced, pc, checkpointCh, nextTarget, local>>
        /\ Len(unseen) < MaxLag
    BY DEF Finalize
  <1>3. e \in Epochs /\ e \in Nat /\ ChainFinal <= e
    BY <1>1, CursorFacts, BlockAssumption DEF Epochs
  <1>4. /\ Len(unseen) \in Nat /\ Len(unseen') = Len(unseen) + 1
        /\ \A k \in 1..Len(unseen) : unseen'[k] = unseen[k]
        /\ unseen'[Len(unseen) + 1] = e
    BY <1>1, <1>3, CursorFacts, AppendFacts
  <1>5. Len(unseen') <= MaxLag
    BY <1>2, <1>4, ParameterAssumption
  <1>6. ChainFinal' = e
    BY <1>4 DEF ChainFinal
  <1>7. lastSynced <= BlockOf[e]
    <2>1. lastSynced <= BlockOf[ChainFinal] /\ BlockOf[ChainFinal] <= BlockOf[e]
      BY <1>3, CursorFacts DEF PInv, TablesNotAhead
    <2> QED BY <1>3, <2>1, CursorFacts
  <1>8. pc \in Running => \A i \in 1..Len(unseen') : NotAhead(unseen'[i])
    <2>1. \A i \in 1..Len(unseen') : i \in 1..Len(unseen) \/ i = Len(unseen) + 1
      BY <1>4
    <2> QED BY <1>4, <1>7, <2>1 DEF PInv, TablesNotAhead, NotAhead
  <1>9. TablesNotAhead'
    BY <1>2, <1>5, <1>6, <1>7, <1>8 DEF PInv, TablesNotAhead, NotAhead, RefBlock, local
  <1> QED BY <1>2, <1>9, InstantKept DEF PInv, local

LEMMA BeaconFinalizePrompt ==
    ASSUME Prompt, IInv, PInv, IInv', BeaconFinalize PROVE PInv'
  <1> USE EpochFacts
  <1>1. /\ unseen # <<>> /\ beaconFinal' = Head(unseen) /\ unseen' = Tail(unseen)
        /\ events' = IF Subscribed THEN Append(events, Head(unseen)) ELSE events
        /\ UNCHANGED <<rows, lastSynced, pc, checkpointCh, nextTarget, local>>
        /\ pc # "balances"
    BY DEF BeaconFinalize, Prompt
  <1>2. /\ unseen \in Seq(Epochs) /\ Len(unseen) <= 1 /\ events \in Seq(Epochs)
    BY CursorFacts, ParameterAssumption DEF PInv, TablesNotAhead, Prompt
  <1>3. Len(unseen) = 1 /\ unseen' = <<>> /\ Head(unseen) = unseen[1] /\ unseen[1] \in Epochs
    <2>1. /\ Tail(unseen) \in Seq(Epochs) /\ Len(unseen) \in Nat /\ Len(unseen) >= 1
          /\ Len(Tail(unseen)) = Len(unseen) - 1
          /\ Head(unseen) = unseen[1] /\ unseen[1] \in Epochs
      BY <1>1, <1>2, TailFacts
    <2>2. Len(unseen) = 1 /\ Len(Tail(unseen)) = 0
      BY <1>2, <2>1
    <2> QED BY <1>1, <2>1, <2>2
  <1>4. ChainFinal' = ChainFinal /\ Len(unseen') = 0
    BY <1>1, <1>3 DEF ChainFinal
  <1>5. pc \in Running => NotAhead(unseen[1])
    BY <1>3 DEF PInv, TablesNotAhead
  <1>6. pc \in Running => \A i \in 1..Len(events') : NotAhead(events'[i])
    <2>1. CASE Subscribed
      <3>1. events' = Append(events, unseen[1])
        BY <1>1, <1>3, <2>1
      <3>2. /\ Len(events) \in Nat /\ Len(events') = Len(events) + 1
            /\ \A k \in 1..Len(events) : events'[k] = events[k]
            /\ events'[Len(events) + 1] = unseen[1]
        BY <1>2, <1>3, <3>1, AppendFacts
      <3>3. \A i \in 1..Len(events') : i \in 1..Len(events) \/ i = Len(events) + 1
        BY <3>2
      <3> QED BY <1>5, <3>2, <3>3 DEF PInv, TablesNotAhead
    <2>2. CASE ~Subscribed
      BY <1>1, <2>2 DEF PInv, TablesNotAhead
    <2> QED BY <2>1, <2>2
  <1>7. TablesNotAhead'
    <2>1. Len(unseen') <= MaxLag /\ lastSynced' <= BlockOf[ChainFinal']
      BY <1>1, <1>4, ParameterAssumption DEF PInv, TablesNotAhead
    <2>2. pc' \in CommitSteps => lastSynced' <= RefBlock'
      BY <1>1 DEF PInv, TablesNotAhead, RefBlock, local
    <2>3. pc' \in Running => /\ \A i \in 1..Len(checkpointCh') : NotAhead(checkpointCh[i])'
                             /\ \A i \in 1..Len(events') : NotAhead(events[i])'
                             /\ NotAhead(beaconFinal)'
      BY <1>1, <1>3, <1>5, <1>6 DEF PInv, TablesNotAhead, NotAhead
    <2> QED BY <1>4, <2>1, <2>2, <2>3 DEF TablesNotAhead
  <1> QED BY <1>1, <1>7, InstantKept DEF PInv, local

LEMMA StreamPrompt ==
    IInv /\ PInv /\ IInv' /\ (RepeatEvent \/ DeliverCheckpoint \/ LoseCheckpoint) => PInv'
  <1> SUFFICES ASSUME IInv, PInv, IInv', RepeatEvent \/ DeliverCheckpoint \/ LoseCheckpoint
               PROVE  PInv'
    OBVIOUS
  <1> USE EpochFacts
  <1>1. UNCHANGED <<beaconFinal, unseen, rows, lastSynced, pc, nextTarget, local>>
    BY DEF RepeatEvent, DeliverCheckpoint, LoseCheckpoint, node
  <1>2. events \in Seq(Epochs) /\ checkpointCh \in Seq(Epochs) /\ beaconFinal \in Epochs
    BY CursorFacts
  <1>3. SUFFICES ASSUME pc \in Running
                 PROVE  /\ \A i \in 1..Len(events') : NotAhead(events'[i])
                        /\ \A i \in 1..Len(checkpointCh') : NotAhead(checkpointCh'[i])
    <2>1. TablesNotAhead'
      BY <1>1, <1>3 DEF PInv, TablesNotAhead, NotAhead, ChainFinal, RefBlock, local
    <2> QED BY <1>1, <2>1, InstantKept DEF PInv, local
  <1>4. /\ \A i \in 1..Len(events) : NotAhead(events[i])
        /\ \A i \in 1..Len(checkpointCh) : NotAhead(checkpointCh[i])
        /\ NotAhead(beaconFinal)
    BY <1>3 DEF PInv, TablesNotAhead
  <1>5. CASE RepeatEvent
    <2>1. events' = Append(events, beaconFinal) /\ checkpointCh' = checkpointCh
      BY <1>5 DEF RepeatEvent
    <2>2. /\ Len(events) \in Nat /\ Len(events') = Len(events) + 1
          /\ \A k \in 1..Len(events) : events'[k] = events[k]
          /\ events'[Len(events) + 1] = beaconFinal
      BY <1>2, <2>1, AppendFacts
    <2>3. \A i \in 1..Len(events') : i \in 1..Len(events) \/ i = Len(events) + 1
      BY <2>2
    <2> QED BY <1>4, <2>1, <2>2, <2>3
  <1>6. CASE DeliverCheckpoint \/ LoseCheckpoint
    <2>1. /\ events # <<>> /\ events' = Tail(events)
          /\ checkpointCh' = checkpointCh \/ checkpointCh' = <<Head(events)>>
      BY <1>6 DEF DeliverCheckpoint, LoseCheckpoint
    <2>2. /\ Len(events) \in Nat /\ Len(events) >= 1 /\ Len(events') = Len(events) - 1
          /\ \A k \in 1..(Len(events) - 1) : events'[k] = events[k + 1]
          /\ Head(events) = events[1]
      BY <1>2, <2>1, TailFacts
    <2>3. \A i \in 1..Len(events') : i \in 1..(Len(events) - 1) /\ i + 1 \in 1..Len(events)
      BY <2>2
    <2>4. \A i \in 1..Len(events') : NotAhead(events'[i])
      BY <1>4, <2>2, <2>3
    <2>5. NotAhead(Head(events))
      BY <1>4, <2>2
    <2> QED BY <1>4, <2>1, <2>4, <2>5
  <1> QED BY <1>5, <1>6

LEMMA ContractPrompt == PInv /\ (OthersCommit \/ Mine) => PInv'
  <1> SUFFICES ASSUME PInv, OthersCommit \/ Mine PROVE PInv'
    OBVIOUS
  <1>1. UNCHANGED <<beaconFinal, unseen, events, rows, lastSynced, pc, checkpointCh,
                    nextTarget, cp, vals, bals, left>>
    BY DEF OthersCommit, Mine, node, local
  <1>2. TablesNotAhead'
    BY <1>1 DEF PInv, TablesNotAhead, NotAhead, ChainFinal, RefBlock
  <1> QED BY <1>1, <1>2, InstantKept DEF PInv

\* Nothing is in hand while the oracle does not run.
LEMMA NotRunningPrompt ==
    ASSUME PInv, pc' \notin Running, UNCHANGED <<beaconFinal, unseen>>, bals' = {},
           lastSynced' <= BlockOf[ChainFinal],
           UNCHANGED rows \/ rows' = [t \in Epochs |-> NoRow]
    PROVE  PInv'
  <1>1. TablesNotAhead'
    BY DEF PInv, TablesNotAhead, ChainFinal, Running
  <1>2. pc' \notin CommitSteps /\ pc' \notin StoredSteps
    BY DEF Running, CommitSteps, StoredSteps
  <1>3. OneInstant'
    BY <1>2 DEF OneInstant, CommitSteps
  <1>4. RootIsPointInTime'
    BY DEF PInv, RootIsPointInTime
  <1> QED BY <1>1, <1>3, <1>4 DEF PInv

LEMMA BootPrompt ==
    IInv /\ PInv /\ (Start \/ Stop \/ InitialSync \/ Subscribe) => PInv'
  <1> SUFFICES ASSUME IInv, PInv, Start \/ Stop \/ InitialSync \/ Subscribe PROVE PInv'
    OBVIOUS
  <1>1. /\ UNCHANGED <<beaconFinal, unseen>>
        /\ pc' \in {"down", "boot", "subscribe", "epoch"}
        /\ UNCHANGED rows \/ rows' = [t \in Epochs |-> NoRow]
    BY DEF Start, Stop, Halt, InitialSync, Subscribe, node
  <1>2. pc' \notin Running
    BY <1>1 DEF Running, CommitSteps
  <1>3. bals' = {}
    <2>1. CASE Stop
      BY <2>1 DEF Stop, Halt
    <2>2. CASE Start \/ InitialSync \/ Subscribe
      <3>1. pc \in {"down", "boot", "subscribe"} /\ bals' = bals
        BY <2>2 DEF Start, InitialSync, Subscribe, local
      <3> QED BY <3>1 DEF PInv, OneInstant, CommitSteps
    <2> QED BY <2>1, <2>2
  <1>4. lastSynced' \in {lastSynced, 0, BlockOf[ChainFinal]}
    BY DEF Start, Stop, InitialSync, Subscribe, MaxOf
  <1>5. lastSynced <= BlockOf[ChainFinal] /\ BlockOf[ChainFinal] \in Nat
    BY CursorFacts DEF PInv, TablesNotAhead
  <1>6. lastSynced' <= BlockOf[ChainFinal]
    BY <1>4, <1>5
  <1> QED BY <1>1, <1>2, <1>3, <1>6, NotRunningPrompt

\* The first target is not before the finalized epoch: of the checkpoints the
\* oracle will hear of, only the one the execution node is ahead by is beyond.
LEMMA FirstTargetPrompt ==
    ASSUME Prompt, IInv, PInv, IInv', FirstTarget PROVE PInv'
  <1> USE EpochFacts
  <1>1. UNCHANGED <<beaconFinal, unseen, rows, lastSynced>> /\ pc = "epoch"
    BY DEF FirstTarget, node
  <1>2. CASE beaconFinal = 0
    <2>1. pc' \notin Running /\ bals' = {}
      BY <1>2 DEF FirstTarget, Halt, Running, CommitSteps
    <2>2. lastSynced' <= BlockOf[ChainFinal]
      BY <1>1 DEF PInv, TablesNotAhead
    <2> QED BY <1>1, <2>1, <2>2, NotRunningPrompt
  <1>3. CASE beaconFinal # 0
    <2>1. /\ nextTarget' = NextTarget(Schedule, beaconFinal - 1) /\ pc' = "wait"
          /\ UNCHANGED <<events, checkpointCh, local>>
      BY <1>3 DEF FirstTarget
    <2>2. beaconFinal - 1 \in Nat /\ beaconFinal \in Nat
      BY <1>3, CursorFacts
    <2>3. nextTarget' \in Nat /\ beaconFinal - 1 < nextTarget'
      BY <2>1, <2>2, NextTargetFacts
    <2>4. ASSUME NEW e \in Epochs, e <= beaconFinal PROVE ~(e > nextTarget')
      BY <2>2, <2>3, <2>4
    <2>5. /\ \A i \in 1..Len(events) : events[i] \in Epochs /\ events[i] <= beaconFinal
          /\ \A i \in 1..Len(checkpointCh) : /\ checkpointCh[i] \in Epochs
                                             /\ checkpointCh[i] <= beaconFinal
          /\ beaconFinal \in Epochs /\ beaconFinal <= beaconFinal
      BY CursorFacts DEF IInv, CheckpointsArePast
    <2>6. /\ \A i \in 1..Len(events') : NotAhead(events[i])'
          /\ \A i \in 1..Len(checkpointCh') : NotAhead(checkpointCh[i])'
          /\ NotAhead(beaconFinal)'
      BY <1>1, <2>1, <2>4, <2>5 DEF NotAhead
    <2>7. Len(unseen) \in Nat /\ Len(unseen) <= 1 /\ lastSynced <= BlockOf[ChainFinal]
      BY CursorFacts, ParameterAssumption DEF PInv, TablesNotAhead, Prompt
    <2>8. ASSUME NEW i \in 1..Len(unseen) PROVE unseen[i] = ChainFinal
      BY <2>7, CursorFacts DEF ChainFinal
    <2>9. \A i \in 1..Len(unseen') : NotAhead(unseen[i])'
      BY <1>1, <2>7, <2>8 DEF NotAhead
    <2>10. pc' \notin CommitSteps /\ pc' \notin StoredSteps
      BY <2>1 DEF CommitSteps, StoredSteps
    <2>11. TablesNotAhead'
      BY <1>1, <2>6, <2>9, <2>10 DEF PInv, TablesNotAhead, ChainFinal
    <2>12. OneInstant'
      BY <1>1, <2>1, <2>10 DEF PInv, OneInstant, CommitSteps, local
    <2>13. RootIsPointInTime'
      BY <1>1 DEF PInv, RootIsPointInTime
    <2> QED BY <2>11, <2>12, <2>13 DEF PInv
  <1> QED BY <1>2, <1>3

LEMMA ReceiveCheckpointPrompt ==
    ASSUME IInv, PInv, IInv', ReceiveCheckpoint PROVE PInv'
  <1> USE EpochFacts
  <1> DEFINE h == Head(checkpointCh)
  <1>1. /\ pc = "wait" /\ checkpointCh # <<>> /\ checkpointCh' = Tail(checkpointCh)
        /\ UNCHANGED <<beaconFinal, unseen, events, rows, lastSynced, bals>>
    BY DEF ReceiveCheckpoint, node, local
  <1>2. pc \in Running /\ pc' \in {"wait", "sync"} /\ pc' \in Running
    BY <1>1 DEF ReceiveCheckpoint, Running, CommitSteps
  <1>3. /\ checkpointCh \in Seq(Epochs) /\ Len(checkpointCh) <= 1
    BY DEF IInv, TypeOK
  <1>4. h \in Epochs /\ h \in Nat /\ checkpointCh' = <<>> /\ h = checkpointCh[1]
    <2>1. /\ Tail(checkpointCh) \in Seq(Epochs) /\ Len(checkpointCh) \in Nat
          /\ Len(checkpointCh) >= 1 /\ Len(Tail(checkpointCh)) = Len(checkpointCh) - 1
          /\ h = checkpointCh[1] /\ checkpointCh[1] \in Epochs
      BY <1>1, <1>3, TailFacts
    <2>2. Len(Tail(checkpointCh)) = 0
      BY <1>3, <2>1
    <2> QED BY <1>1, <2>1, <2>2
  <1>5. nextTarget' \in Nat /\ nextTarget <= nextTarget'
    <2>1. pc' # "down" /\ [Next]_vars
      BY <1>2 DEF Next, RunStep
    <2>2. nextTarget' >= nextTarget /\ nextTarget' \in Nat /\ nextTarget \in Nat
      BY <1>2, <2>1, TargetStep, CursorFacts DEF IInv, TypeOK
    <2> QED BY <2>2
  <1>6. ASSUME NEW e \in Epochs, NotAhead(e) PROVE NotAhead(e)'
    BY <1>1, <1>5, <1>6, CursorFacts DEF NotAhead
  <1>7. /\ \A i \in 1..Len(events') : NotAhead(events[i])'
        /\ \A i \in 1..Len(unseen') : NotAhead(unseen[i])'
        /\ NotAhead(beaconFinal)'
    <2>1. /\ \A i \in 1..Len(events) : events[i] \in Epochs /\ NotAhead(events[i])
          /\ \A i \in 1..Len(unseen) : unseen[i] \in Epochs /\ NotAhead(unseen[i])
          /\ beaconFinal \in Epochs /\ NotAhead(beaconFinal)
      BY <1>2, CursorFacts DEF PInv, TablesNotAhead
    <2> QED BY <1>1, <1>6, <2>1 DEF NotAhead
  <1>8. pc' \in CommitSteps => lastSynced' <= RefBlock'
    <2>1. SUFFICES ASSUME pc' \in CommitSteps PROVE lastSynced' <= RefBlock'
      OBVIOUS
    <2>2. pc' # "wait"
      BY <2>1 DEF CommitSteps
    <2>3. ~(h - 1 < nextTarget) /\ cp' = h
      BY <1>1, <2>2 DEF ReceiveCheckpoint
    <2>4. h > nextTarget
      BY <1>4, <2>3, CursorFacts
    <2>5. 1 \in 1..Len(checkpointCh)
      BY <1>1, <1>3
    <2>6. NotAhead(h)
      BY <1>2, <1>4, <2>5 DEF PInv, TablesNotAhead
    <2> QED BY <1>1, <2>3, <2>4, <2>6 DEF NotAhead, RefBlock
  <1>9. TablesNotAhead'
    <2>1. \A i \in 1..Len(checkpointCh') : NotAhead(checkpointCh[i])'
      BY <1>4
    <2>2. ChainFinal' = ChainFinal
      BY <1>1 DEF ChainFinal
    <2>3. Len(unseen') <= MaxLag /\ lastSynced' <= BlockOf[ChainFinal']
      BY <1>1, <2>2 DEF PInv, TablesNotAhead
    <2> QED BY <1>7, <1>8, <2>1, <2>3 DEF TablesNotAhead
  <1>10. OneInstant'
    <2>1. bals' = {}
      BY <1>1 DEF PInv, OneInstant, CommitSteps
    <2> QED BY <1>2, <2>1 DEF OneInstant, CommitSteps, StoredSteps
  <1>11. RootIsPointInTime'
    BY <1>1 DEF PInv, RootIsPointInTime
  <1> QED BY <1>9, <1>10, <1>11 DEF PInv

\* The steps of a commit: what each reads is of the reference block.
LEMMA CommitPrompt ==
    ASSUME Prompt, IInv, PInv, IInv', CommitStep PROVE PInv'
  <1> USE EpochFacts
  <1>1. pc \in CommitSteps /\ pc' \in Running /\ pc' # "down"
    BY DEF CommitStep, CommitFails, SyncToBlock, ReadValidators, VerifyFinalizedBlockRoot,
       FetchBalances, StorePending, CheckCommittedRoot, SubmitRoot, SubmitFails, ReceiveReceipt,
       GiveUp, RecordOutcome, Finish, CommitSteps, Running
  <1>2. UNCHANGED <<beaconFinal, unseen, events, checkpointCh>>
    BY DEF CommitStep, CommitFails, SyncToBlock, ReadValidators, VerifyFinalizedBlockRoot,
       FetchBalances, StorePending, CheckCommittedRoot, SubmitRoot, SubmitFails, ReceiveReceipt,
       GiveUp, RecordOutcome, node
  <1>3. nextTarget' \in Nat /\ nextTarget <= nextTarget'
    <2>1. pc \in Running /\ [Next]_vars
      BY <1>1 DEF Running, Next
    <2>2. nextTarget' >= nextTarget /\ nextTarget' \in Nat /\ nextTarget \in Nat
      BY <1>1, <2>1, TargetStep, CursorFacts DEF IInv, TypeOK
    <2> QED BY <2>2
  <1>4. RefBlock \in Nat /\ lastSynced \in Nat /\ lastSynced <= RefBlock
    BY <1>1, InHandFacts, CursorFacts DEF PInv, TablesNotAhead
  <1>5. lastSynced' \in Nat /\ lastSynced' <= RefBlock
    BY <1>4 DEF CommitStep, CommitFails, SyncToBlock, ReadValidators, VerifyFinalizedBlockRoot,
       FetchBalances, StorePending, CheckCommittedRoot, SubmitRoot, SubmitFails, ReceiveReceipt,
       GiveUp, RecordOutcome, MaxOf
  <1>6. pc' \in CommitSteps => cp' = cp
    BY DEF CommitStep, CommitFails, SyncToBlock, ReadValidators, VerifyFinalizedBlockRoot,
       FetchBalances, StorePending, CheckCommittedRoot, SubmitRoot, SubmitFails, ReceiveReceipt,
       GiveUp, RecordOutcome, Finish, CommitSteps, local
  <1>7. TablesNotAhead'
    BY <1>1, <1>2, <1>3, <1>5, <1>6, CommitTables DEF PInv
  <1>8. SUFFICES OneInstant' /\ RootIsPointInTime'
    BY <1>7 DEF PInv
  <1> USE DEF PInv
  <1>9. CASE CommitFails
    BY <1>9 DEF CommitFails, Finish, OneInstant, RootIsPointInTime, CommitSteps, StoredSteps
  <1>10. CASE SyncToBlock
    <2>1. lastSynced' = RefBlock /\ pc' = "read" /\ UNCHANGED <<rows, cp, bals>> /\ pc = "sync"
      BY <1>4, <1>10 DEF SyncToBlock, MaxOf, local
    <2> QED BY <2>1 DEF OneInstant, RootIsPointInTime, CommitSteps, StoredSteps, RefBlock
  <1>11. CASE ReadValidators
    <2>1. vals' = RefBlock /\ pc' = "verify" /\ UNCHANGED <<rows, cp, bals>> /\ pc = "read"
      BY <1>11 DEF ReadValidators, OneInstant
    <2> QED BY <2>1 DEF OneInstant, RootIsPointInTime, CommitSteps, StoredSteps, RefBlock
  <1>12. CASE VerifyFinalizedBlockRoot
    <2>1. /\ BlockOf[beaconFinal] = RefBlock /\ pc' = "balances" /\ pc = "verify"
          /\ left' = NumBatches /\ UNCHANGED <<rows, cp, vals, bals>>
      BY <1>12 DEF VerifyFinalizedBlockRoot
    <2>2. bals = {} /\ vals = RefBlock
      BY <2>1 DEF OneInstant, CommitSteps
    <2>3. left' > 0
      BY <2>1, ParameterAssumption
    <2> QED BY <1>2, <2>1, <2>2, <2>3
            DEF OneInstant, RootIsPointInTime, CommitSteps, StoredSteps, RefBlock
  <1>13. CASE FetchBalances
    <2>1. /\ pc = "balances" /\ left > 0 /\ bals' = bals \cup {BlockOf[beaconFinal]}
          /\ left' = left - 1 /\ pc' = IF left = 1 THEN "insert" ELSE pc
          /\ UNCHANGED <<rows, cp, vals>>
      BY <1>13 DEF FetchBalances
    <2>2. BlockOf[beaconFinal] = RefBlock /\ bals \subseteq {RefBlock} /\ vals = RefBlock
      BY <2>1 DEF OneInstant, CommitSteps
    <2>3. bals' = {RefBlock} /\ RefBlock' = RefBlock
      BY <2>1, <2>2 DEF RefBlock
    <2>4. pc' = "balances" => left' > 0
      <3>1. left \in Nat
        BY ParameterAssumption DEF IInv, TypeOK
      <3> QED BY <2>1, <3>1
    <2>5. pc' \in {"balances", "insert"}
      BY <2>1
    <2>6. OneInstant'
      BY <1>2, <2>1, <2>2, <2>3, <2>4, <2>5 DEF OneInstant, CommitSteps, StoredSteps
    <2> QED BY <2>1, <2>6 DEF RootIsPointInTime
  <1>14. CASE StorePending
    <2>1. /\ pc = "insert" /\ pc' = "check" /\ UNCHANGED <<cp, vals, bals, left>>
      BY <1>14 DEF StorePending, local
    <2>2. pc \in CommitSteps \ StoredSteps
      BY <2>1 DEF CommitSteps, StoredSteps
    <2>3. rows' = [rows EXCEPT ![nextTarget] = Row(RefBlock, OurRoot)]
      BY <1>14, <2>2, NoRowBefore DEF StorePending, InsertPendingCommit, Target
    <2>4. OurRoot = TrueRoot(RefBlock)
      BY <2>1 DEF OneInstant, CommitSteps, OurRoot, TrueRoot
    <2>5. RootIsPointInTime'
      <3>1. rows \in [Epochs -> RowType \cup {NoRow}]
        BY DEF IInv, TypeOK
      <3>2. Row(RefBlock, OurRoot).root = TrueRoot(Row(RefBlock, OurRoot).block)
        BY <2>4 DEF Row
      <3> QED BY <2>3, <3>1, <3>2 DEF RootIsPointInTime
    <2> QED BY <2>1, <2>5 DEF OneInstant, CommitSteps, StoredSteps, RefBlock
  <1>15. CASE CheckCommittedRoot \/ SubmitRoot \/ SubmitFails \/ ReceiveReceipt \/ GiveUp
    <2>1. /\ pc \in StoredSteps /\ pc' \in StoredSteps /\ UNCHANGED <<rows, cp, vals, bals>>
      BY <1>15 DEF CheckCommittedRoot, SubmitRoot, SubmitFails, ReceiveReceipt, GiveUp,
         StoredSteps, local
    <2> QED BY <2>1 DEF OneInstant, RootIsPointInTime, CommitSteps, StoredSteps, RefBlock
  <1>16. CASE RecordOutcome
    <2>1. pc' = "wait" /\ bals' = {}
      BY <1>16 DEF RecordOutcome, Finish
    <2>2. OneInstant'
      BY <2>1 DEF OneInstant, CommitSteps, StoredSteps
    <2>3. CASE UNCHANGED rows
      BY <2>2, <2>3 DEF RootIsPointInTime
    <2>4. CASE ~(UNCHANGED rows)
      <3> DEFINE new == [block |-> RefBlock, root |-> OurRoot,
                         status |-> Outcome[1], hash |-> Outcome[2]]
      <3>1. rows' = [rows EXCEPT ![nextTarget] = new] /\ nextTarget \in Epochs
        BY <1>16, <2>4, OutcomeWritten
      <3>2. OurRoot = TrueRoot(RefBlock)
        <4>1. rows[nextTarget] = Row(RefBlock, OurRoot) /\ rows[nextTarget] # NoRow
          BY <1>16, OutcomeWritten
        <4>2. rows[nextTarget].root = TrueRoot(rows[nextTarget].block)
          BY <3>1, <4>1 DEF RootIsPointInTime
        <4> QED BY <4>1, <4>2 DEF Row
      <3>3. new.root = TrueRoot(new.block)
        BY <3>2
      <3>4. rows \in [Epochs -> RowType \cup {NoRow}]
        BY DEF IInv, TypeOK
      <3> HIDE DEF new
      <3>5. RootIsPointInTime'
        BY <3>1, <3>3, <3>4 DEF RootIsPointInTime
      <3> QED BY <2>2, <3>5
    <2> QED BY <2>3, <2>4
  <1> QED BY <1>9, <1>10, <1>11, <1>12, <1>13, <1>14, <1>15, <1>16 DEF CommitStep

LEMMA InitPInv == Init => PInv
  <1> SUFFICES ASSUME Init PROVE PInv
    OBVIOUS
  <1>1. pc = "down" /\ pc \notin Running /\ pc \notin CommitSteps /\ pc \notin StoredSteps
    BY DEF Init, Running, CommitSteps, StoredSteps
  <1>2. unseen = <<>> /\ lastSynced = 0 /\ bals = {} /\ rows = [t \in Epochs |-> NoRow]
    BY DEF Init
  <1>3. BlockOf[ChainFinal] \in Nat
    BY InitIInv, CursorFacts
  <1>4. TablesNotAhead
    BY <1>1, <1>2, <1>3, ParameterAssumption DEF TablesNotAhead
  <1>5. OneInstant
    BY <1>1, <1>2 DEF OneInstant, CommitSteps
  <1>6. RootIsPointInTime
    BY <1>2 DEF RootIsPointInTime
  <1> QED BY <1>4, <1>5, <1>6 DEF PInv

LEMMA NextPInv ==
    ASSUME Prompt, IInv, PInv, IInv', [Next]_vars PROVE PInv'
  <1>1. CASE Environment
    BY <1>1, FinalizePrompt, BeaconFinalizePrompt, StreamPrompt, ContractPrompt, BootPrompt
       DEF Environment
  <1>2. CASE RunStep
    BY <1>2, BootPrompt, FirstTargetPrompt, ReceiveCheckpointPrompt DEF RunStep
  <1>3. CASE CommitStep
    BY <1>3, CommitPrompt
  <1>4. CASE UNCHANGED vars
    BY <1>4 DEF vars, PInv, TablesNotAhead, NotAhead, ChainFinal, RefBlock, OneInstant,
       RootIsPointInTime
  <1> QED BY <1>1, <1>2, <1>3, <1>4 DEF Next

\* When the balances of a commit are fetched while finality stands still, and
\* the beacon node is at most one checkpoint behind the execution node, every
\* stored root is that of the state at its reference block: the validator set
\* is the one synced to that block and all balances come from that checkpoint,
\* across restarts, missed targets and late checkpoints (oracle.go commit,
\* beacon/client.go VerifyFinalizedBlockRoot).
THEOREM OracleRootIsPointInTime == Prompt => (Spec => []RootIsPointInTime)
  <1> SUFFICES ASSUME Prompt PROVE Spec => []RootIsPointInTime
    OBVIOUS
  <1>1. Init => PInv
    BY InitPInv
  <1>2. IInv /\ PInv /\ IInv' /\ [Next]_vars => PInv'
    BY NextPInv
  <1>3. PInv => RootIsPointInTime
    BY DEF PInv
  <1> QED BY <1>1, <1>2, <1>3, SpecIInv, PTL DEF Spec

-----------------------------------------------------------------------------
(* oracle_commits is the log its readers rely on.                          *)

\* StorePending appends: a target and a block beyond all stored ones, with the
\* root of that block.
LEMMA StoreAppends ==
    ASSUME IInv, PInv, StorePending PROVE Table!Insert
  <1> USE EpochFacts
  <1>1. pc = "insert"
    BY DEF StorePending
  <1>2. pc \in CommitSteps \ StoredSteps /\ pc \in Running /\ pc \notin StoredSteps
    BY <1>1 DEF CommitSteps, StoredSteps, Running
  <1>3. /\ nextTarget \in Epochs /\ nextTarget \in Nat /\ cp = nextTarget + 1 /\ cp \in Epochs
        /\ RefBlock \in Blocks /\ RefBlock \in Nat
    BY <1>2, InHandFacts DEF IInv, TypeOK
  <1>4. rows[nextTarget] = NoRow
    BY <1>2, NoRowBefore
  <1>5. rows' = [rows EXCEPT ![nextTarget] = Row(RefBlock, OurRoot)] /\ ~BlockTaken(RefBlock)
    BY <1>4 DEF StorePending, InsertPendingCommit, Target
  <1>6. OurRoot = [b \in Blocks |-> TrueRoot(b)][RefBlock]
    BY <1>1, <1>3 DEF PInv, OneInstant, CommitSteps, OurRoot, TrueRoot
  <1>7. ASSUME NEW s \in Table!Stored PROVE s < nextTarget /\ rows[s].block < RefBlock
    <2>1. s \in Epochs /\ s \in Nat /\ rows[s] # NoRow
      BY DEF Table!Stored
    <2>2. s < nextTarget
      BY <1>2, <2>1 DEF IInv, HandledOnce, Handled
    <2>3. s + 1 \in Epochs /\ rows[s].block = BlockOf[s + 1]
      BY <2>1 DEF IInv, RowMatchesTarget
    <2>4. BlockOf[s + 1] <= RefBlock /\ BlockOf[s + 1] \in Nat
      BY <1>3, <2>1, <2>2, <2>3 DEF RefBlock
    <2>5. rows[s].block # RefBlock
      BY <1>5, <2>1 DEF BlockTaken
    <2> QED BY <1>3, <2>2, <2>3, <2>4, <2>5
  <1>8. nextTarget \in {u \in Epochs : \A s \in Table!Stored : s < u}
    BY <1>3, <1>7
  <1>9. rows' = [rows EXCEPT ![nextTarget] =
                    [block |-> RefBlock, root |-> [b \in Blocks |-> TrueRoot(b)][RefBlock],
                     status |-> "pending", hash |-> FALSE]]
    BY <1>5, <1>6 DEF Row
  <1> QED BY <1>3, <1>7, <1>8, <1>9 DEF Table!Insert

\* RecordOutcome resolves the last row, or leaves the table as it is.
LEMMA OutcomeResolves ==
    ASSUME IInv, RecordOutcome PROVE Table!Resolve \/ UNCHANGED rows
  <1> USE EpochFacts
  <1>1. CASE UNCHANGED rows
    BY <1>1
  <1>2. CASE ~(UNCHANGED rows)
    <2>1. /\ nextTarget \in Epochs /\ nextTarget \in Nat
          /\ rows[nextTarget] = Row(RefBlock, OurRoot) /\ rows[nextTarget] # NoRow
          /\ Outcome[1] \in {"confirmed", "failed"} /\ Outcome[2] \in BOOLEAN
          /\ rows' = [rows EXCEPT ![nextTarget] = [block |-> RefBlock, root |-> OurRoot,
                                                   status |-> Outcome[1], hash |-> Outcome[2]]]
      BY <1>2, OutcomeWritten
    <2> HIDE DEF Outcome
    <2>2. pc \in Running
      BY DEF RecordOutcome, Running, CommitSteps
    <2>3. \A s \in Epochs : rows[s] # NoRow => s <= nextTarget
      BY <2>1, <2>2 DEF IInv, HandledOnce, Handled
    <2>4. Table!IsLast(nextTarget)
      BY <2>1, <2>3 DEF Table!IsLast, Table!Stored
    <2>5. /\ rows[nextTarget].status = "pending" /\ rows[nextTarget].block = RefBlock
          /\ rows[nextTarget].root = OurRoot
      BY <2>1 DEF Row
    <2>6. rows' = [rows EXCEPT ![nextTarget] = [block |-> rows[nextTarget].block,
                                                root |-> rows[nextTarget].root,
                                                status |-> Outcome[1], hash |-> Outcome[2]]]
      BY <2>1, <2>5
    <2> QED BY <2>1, <2>4, <2>5, <2>6 DEF Table!Resolve
  <1> QED BY <1>1, <1>2

LEMMA TableStep ==
    ASSUME IInv, PInv, [Next]_vars PROVE [Table!Next]_rows
  <1>1. CASE StorePending
    BY <1>1, StoreAppends DEF Table!Next
  <1>2. CASE RecordOutcome
    BY <1>2, OutcomeResolves DEF Table!Next
  <1>3. CASE Start
    BY <1>3 DEF Start, Table!Next, Table!Clear
  <1>4. ASSUME Next, ~StorePending, ~RecordOutcome, ~Start PROVE UNCHANGED rows
    <2>1. CASE Environment
      BY <1>4, <2>1 DEF Environment, Finalize, BeaconFinalize, RepeatEvent, DeliverCheckpoint,
         LoseCheckpoint, OthersCommit, Mine, Stop
    <2>2. CASE RunStep
      BY <2>2 DEF RunStep, InitialSync, Subscribe, FirstTarget, ReceiveCheckpoint
    <2>3. CASE CommitStep
      BY <1>4, <2>3 DEF CommitStep, CommitFails, SyncToBlock, ReadValidators,
         VerifyFinalizedBlockRoot, FetchBalances, CheckCommittedRoot, SubmitRoot, SubmitFails,
         ReceiveReceipt, GiveUp
    <2> QED BY <1>4, <2>1, <2>2, <2>3 DEF Next
  <1>5. CASE UNCHANGED vars
    BY <1>5 DEF vars
  <1> QED BY <1>1, <1>2, <1>3, <1>4, <1>5

\* Under the same conditions the oracle keeps oracle_commits as the log its
\* readers rely on: rows are appended in ascending order of target and of block
\* with the true root of the block, only the last one gets its outcome, once,
\* and nothing else is ever changed but by --fresh (storage.go
\* InsertPendingCommit, UpdateCommitStatus; oracle.go Run, commit).
THEOREM OracleImplementsCommitLog == Prompt => (Spec => ImplementsCommitLog)
  <1> SUFFICES ASSUME Prompt PROVE Spec => ImplementsCommitLog
    OBVIOUS
  <1>1. Init => PInv
    BY InitPInv
  <1>2. IInv /\ PInv /\ IInv' /\ [Next]_vars => PInv'
    BY NextPInv
  <1>3. Init => Table!Init
    BY DEF Init, Table!Init
  <1>4. IInv /\ PInv /\ [Next]_vars => [Table!Next]_rows
    BY TableStep
  <1> QED BY <1>1, <1>2, <1>3, <1>4, SpecIInv, PTL DEF Spec, ImplementsCommitLog, Table!Spec

=============================================================================
