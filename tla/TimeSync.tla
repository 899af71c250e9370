------------------------------- MODULE TimeSync -------------------------------
(***************************************************************************)
(* The time synchronisation of the sensor manager: it sends a time stamp   *)
(* of this computer to the autopilot, which sends it back with one of its  *)
(* own.  From the answer it estimates the offset between the two clocks,   *)
(* with which the poses of the vehicle are stamped.  The estimate counts   *)
(* as good after a window of samples and is thrown away after a series of  *)
(* samples far from it.                                                    *)
(*                                                                         *)
(* Times are whole microseconds.  What the smoothing filter makes of a     *)
(* sample is left open: any estimate may follow, but for the first sample, *)
(* which becomes the estimate.                                             *)
(***************************************************************************)
EXTENDS Integers

CONSTANTS
  Window,          \* CONVERGENCE_WINDOW
  MaxRtt,          \* MAX_RTT_SAMPLE
  MaxDeviation,    \* MAX_DEVIATION_SAMPLE
  MaxConsecutive,  \* MAX_CONSECUTIVE_HIGH_DEVIATION
  Modulus,         \* 2^64
  Offsets,         \* by how much this clock may be ahead of the autopilot's
  Estimates,       \* what the filter, or the stamps of others, may come to
  Delays,          \* how long a message may be under way
  RoundTrips       \* the round trip times a foreign message may seem to have

ASSUME LimitsAssumption ==
  /\ {Window, MaxRtt, MaxDeviation, MaxConsecutive, Modulus} \subseteq Nat \ {0}
  /\ Offsets \subseteq Int /\ Estimates \subseteq Int /\ Delays \subseteq Nat

\* A round trip time is far smaller than its type is wide.
ASSUME RoundTripsAssumption ==
  RoundTrips \subseteq Int /\ \A d \in RoundTrips : d >= MaxRtt - Modulus

VARIABLES
  offset,  \* by how much this clock is ahead
  est,     \* _time_offset
  seq,     \* _sequence, up to Window
  dev,     \* _high_deviation_count
  asked,   \* a request the autopilot will answer is under way
  off      \* ghost: own answers in a row that left the stamps wrong, since a
           \* foreign sample last confirmed the estimate

filter == <<est, seq, dev>>
vars == <<offset, filter, asked, off>>

Init ==
  /\ offset \in Offsets
  /\ est = 0 /\ seq = 0 /\ dev = 0
  /\ asked = FALSE /\ off = 0

-----------------------------------------------------------------------------
(* The filter.  A definition with the comment "bug" is a plausible mistake *)
(* in the definition after it, which a property must be able to find.      *)

Abs(x) == IF x < 0 THEN -x ELSE x

\* The integer division by 2 of C++ drops the fraction.
Half(x) == IF x < 0 THEN -((-x) \div 2) ELSE x \div 2

SignedDifference(d) == d                                                \* bug
\* A difference stored in a uint64_t.
Unsigned(d) == IF d < 0 THEN d + Modulus ELSE d

AnyRoundTrip(d) == TRUE                                                 \* bug
LowRtt(d) == Unsigned(d) < MaxRtt

Converged == seq >= Window   \* sync_converged

\* The stamp of a message the autopilot sent at `usec` of its clock.
SyncStamp(usec, now) == IF Converged THEN usec + est ELSE now

\* The sample answers give: the middle of the trip against the remote stamp.
OffsetSample(ts1, tc1, now) == Half(ts1 + now - tc1 * 2)

DeviatesFromAny(x) == Abs(est - x) > MaxDeviation                       \* bug
Deviates(x) == Converged /\ Abs(est - x) > MaxDeviation

ResetTooLate == dev > MaxConsecutive                                    \* bug
ResetDue == dev + 1 > MaxConsecutive

ResetFilter == est' = 0 /\ seq' = 0 /\ dev' = 0

AddSample(x) ==
  /\ IF seq = 0 THEN est' = x ELSE est' \in Estimates
  /\ seq' = IF seq < Window THEN seq + 1 ELSE seq
  /\ dev' = 0

\* `answer`: both stamps are set.  `d`: now - ts1.  `x`: the offset.
Run(answer, d, x) ==
  \/ ~(answer /\ LowRtt(d)) /\ UNCHANGED filter
  \/ answer /\ LowRtt(d) /\ Deviates(x) /\ ResetDue /\ ResetFilter
  \/ answer /\ LowRtt(d) /\ Deviates(x) /\ ~ResetDue /\ dev' = dev + 1 /\ UNCHANGED <<est, seq>>
  \/ answer /\ LowRtt(d) /\ ~Deviates(x) /\ AddSample(x)

-----------------------------------------------------------------------------
(* What the stamps are worth.                                              *)

\* The pose of this very moment is stamped further from it than the samples
\* of a right estimate can be.
WrongStamp == Abs(SyncStamp(0 - offset, 0)) > MaxDeviation + MaxRtt \div 2

RightEstimate == Converged /\ Abs(est - offset) <= MaxDeviation - MaxRtt \div 2

-----------------------------------------------------------------------------
(* The timer, and the answers as they arrive.                              *)

\* tc1 is never set in the message: the autopilot takes it for a request only
\* when it happens to be 0.
PublishTimeSync ==
  /\ \E tc1 \in {"zero", "junk"} : asked' = (asked \/ tc1 = "zero")
  /\ UNCHANGED <<offset, filter, off>>

\* The answer to a request sent at 0, `forward` and `back` after each other.
OwnAnswer(forward, back) ==
  /\ asked /\ asked' = FALSE
  /\ UNCHANGED offset
  /\ Run(TRUE, forward + back, OffsetSample(0, forward - offset, forward + back))
  /\ off' = IF forward + back >= MaxRtt THEN off
            ELSE IF WrongStamp /\ WrongStamp' THEN off + 1 ELSE 0

\* A sample that speaks for the estimate: it took the time it may take and is
\* not far from it.
Confirms(answer, d, x) ==
  answer /\ d \in 0..(MaxRtt - 1) /\ Abs(est - x) <= MaxDeviation

\* A request of the autopilot, its answer to someone else, or one of our own
\* during which a clock was set: the stamps fit anything.
ForeignMessage(answer, d, x) ==
  /\ Run(answer, d, x)
  /\ UNCHANGED <<offset, asked>>
  /\ off' = IF ~WrongStamp' \/ Confirms(answer, d, x) THEN 0 ELSE off

\* One of the two clocks is set, or the autopilot starts again.
ClockStep ==
  /\ offset' \in Offsets \ {offset}
  /\ off' = 0
  /\ UNCHANGED <<filter, asked>>

Next ==
  \/ PublishTimeSync
  \/ \E forward, back \in Delays : OwnAnswer(forward, back)
  \/ \E answer \in BOOLEAN, d \in RoundTrips, x \in Estimates : ForeignMessage(answer, d, x)
  \/ ClockStep

Spec == Init /\ [][Next]_vars

-----------------------------------------------------------------------------
(* Properties.                                                             *)

TypeOK ==
  /\ offset \in Offsets /\ est \in Int
  /\ seq \in 0..Window /\ dev \in 0..MaxConsecutive
  /\ asked \in BOOLEAN /\ off \in Nat

\* The inductive invariant: every answer that leaves a wrong estimate in force
\* is counted as a deviation, and is forgotten only with a sample that confirms
\* the estimate (TimeSync::run).
SyncInv == TypeOK /\ off <= dev /\ (~Converged => dev = 0)

\* While no clock is set a wrong estimate survives MaxConsecutive quick answers of
\* our own at most, and the next one resets the filter, whatever comes in between
\* of slow answers and of foreign messages that fail the round trip test or are
\* far from the estimate too (the reset in TimeSync::run).  A foreign sample that
\* confirms the wrong estimate does keep it alive: run then forgets the deviations
\* it has counted, and the ghost starts again with it.
WrongOffsetIsShortLived == off <= MaxConsecutive

\* A right estimate is not thrown away for an answer of our own, however
\* unevenly its two ways were delayed (the round trip test of TimeSync::run).
RightEstimateKept ==
  [][\A forward, back \in Delays :
       OwnAnswer(forward, back) /\ RightEstimate => Converged']_vars

\* As long as quick answers keep coming the filter converges again and again,
\* whatever the clocks do and wherever its estimate starts.
Synchronises ==
  []<><<\E forward, back \in Delays : forward + back < MaxRtt /\ OwnAnswer(forward, back)>>_vars
    => []<>Converged

===============================================================================
