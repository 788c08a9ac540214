--------------------------- MODULE CommitSchedule ---------------------------
(***************************************************************************)
(* The commit schedule (oracle/phase.go): a sequence of phases, each with  *)
(* a start epoch and an interval, and the epochs at which a root is due.   *)
(* Epochs are naturals: the products of the code stay far below 2^64 for   *)
(* every schedule whose interval and start are real epoch numbers.         *)
(***************************************************************************)
EXTENDS Integers, Sequences

CommitPhase == [StartEpoch : Nat, Interval : Nat]

\* The target epoch of a round of a phase.
TargetAt(p, round) == p.StartEpoch + (round * p.Interval)

\* Validate returns no error.
Validate(s) ==
    /\ Len(s) > 0
    /\ \A i \in 1..Len(s) :
          /\ s[i].Interval > 0
          /\ i > 1 => /\ s[i].StartEpoch > s[i-1].StartEpoch
                      /\ (s[i].StartEpoch - s[i-1].StartEpoch) % s[i-1].Interval = 0

\* Mutant: a phase begins after its first epoch.
BegunLate(s, epoch) == {i \in 1..Len(s) : epoch > s[i].StartEpoch}

\* The phases that have begun at an epoch.
Begun(s, epoch) == {i \in 1..Len(s) : epoch >= s[i].StartEpoch}

\* The last phase that has begun, or the first phase before any has.
PhaseAt(s, epoch) ==
    IF Begun(s, epoch) = {}
    THEN s[1]
    ELSE s[CHOOSE i \in Begun(s, epoch) : \A j \in Begun(s, epoch) : j <= i]

\* Mutant: the current round again when the epoch is itself a target.
NextTargetInclusive(s, epoch) ==
    LET phase == PhaseAt(s, epoch)
    IN  IF epoch < phase.StartEpoch
        THEN phase.StartEpoch
        ELSE TargetAt(phase, (epoch - phase.StartEpoch + phase.Interval - 1)
                                \div phase.Interval)

\* The next commit target after an epoch.
NextTarget(s, epoch) ==
    LET phase == PhaseAt(s, epoch)
    IN  IF epoch < phase.StartEpoch
        THEN phase.StartEpoch
        ELSE TargetAt(phase, ((epoch - phase.StartEpoch) \div phase.Interval) + 1)

-----------------------------------------------------------------------------
(* The schedule as a set of epochs, without phases to look up: an epoch is *)
(* a target when it is a whole number of intervals into the phase it lies  *)
(* in.                                                                     *)

LiesIn(s, i, epoch) == /\ s[i].StartEpoch <= epoch
                       /\ i < Len(s) => epoch < s[i + 1].StartEpoch

IsTarget(s, epoch) ==
    \E i \in 1..Len(s) : /\ LiesIn(s, i, epoch)
                         /\ (epoch - s[i].StartEpoch) % s[i].Interval = 0

\* In particular the first epoch of every phase is a target.
=============================================================================
