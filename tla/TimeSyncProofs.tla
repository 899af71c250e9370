---------------------------- MODULE TimeSyncProofs ----------------------------
(***************************************************************************)
(* The time synchronisation keeps its counts and its promises for every    *)
(* window, limit, delay and clock.                                         *)
(***************************************************************************)
EXTENDS TimeSync, TLAPS

USE LimitsAssumption DEF filter

\* Halving is off by less than one.
LEMMA HalfBounds ==
  ASSUME NEW x \in Int
  PROVE  Half(x) \in Int /\ 2 * Half(x) - x \in {-1, 0, 1}
  BY SMTT(30) DEF Half

\* A quick answer gives a sample that is right up to half a round trip.
LEMMA SampleBounds ==
  ASSUME NEW o \in Int, NEW forward \in Nat, NEW back \in Nat, forward + back < MaxRtt
  PROVE  LET x == OffsetSample(0, forward - o, forward + back)
         IN  x \in Int /\ Abs(x - o) <= MaxRtt \div 2
<1> DEFINE d == back - forward
           x == Half(2 * o + d)
<1>1. OffsetSample(0, forward - o, forward + back) = x
    BY Z3 DEF OffsetSample
<1>2. x \in Int /\ 2 * x - (2 * o + d) \in {-1, 0, 1}
    BY HalfBounds
<1>3. 2 * (x - o) <= MaxRtt /\ -2 * (x - o) <= MaxRtt
    BY <1>2
<1>4. QED
    BY <1>1, <1>2, <1>3, SMTT(30) DEF Abs

\* An answer takes as long as it seems to.
LEMMA OwnRtt ==
  ASSUME NEW forward \in Nat, NEW back \in Nat
  PROVE  LowRtt(forward + back) <=> forward + back < MaxRtt
  BY DEF LowRtt, Unsigned

\* The difference of a stamp from the future does not pass for a short trip.
LEMMA ForeignRtt ==
  ASSUME NEW d \in RoundTrips, LowRtt(d) PROVE d \in 0..(MaxRtt - 1)
  BY RoundTripsAssumption DEF LowRtt, Unsigned

\* While the stamps are wrong a quick answer deviates from the estimate.
LEMMA WrongDeviates ==
  ASSUME TypeOK, WrongStamp, NEW x \in Int, Abs(x - offset) <= MaxRtt \div 2
  PROVE  Deviates(x)
<1>1. Converged
    BY DEF WrongStamp, SyncStamp, Abs
<1>2. Abs(est - offset) > MaxDeviation + MaxRtt \div 2
    BY <1>1 DEF WrongStamp, SyncStamp, TypeOK, Abs
<1>3. QED
    BY <1>1, <1>2 DEF Deviates, TypeOK, Abs

\* A sample close to a right estimate does not deviate from it.
LEMMA RightAgrees ==
  ASSUME TypeOK, RightEstimate, NEW x \in Int, Abs(x - offset) <= MaxRtt \div 2
  PROVE  ~Deviates(x)
  BY DEF RightEstimate, Deviates, TypeOK, Abs

\* Whatever arrives, the filter keeps its types, and counts no deviations
\* before it has converged.
LEMMA RunStep ==
  ASSUME TypeOK, ~Converged => dev = 0, NEW answer \in BOOLEAN, NEW d \in Int, NEW x \in Int,
         Run(answer, d, x)
  PROVE  /\ est' \in Int /\ seq' \in 0..Window /\ dev' \in 0..MaxConsecutive
         /\ (~Converged)' => dev' = 0
<1>1. CASE UNCHANGED filter
    BY <1>1 DEF TypeOK, Converged
<1>2. CASE ResetFilter
    BY <1>2 DEF ResetFilter, TypeOK
<1>3. CASE Deviates(x) /\ ~ResetDue /\ dev' = dev + 1 /\ UNCHANGED <<est, seq>>
    BY <1>3 DEF Deviates, ResetDue, TypeOK, Converged
<1>4. CASE AddSample(x)
  <2>1. est' \in Int
    BY <1>4 DEF AddSample
  <2>2. seq' \in 0..Window /\ dev' = 0
    BY <1>4 DEF AddSample, TypeOK
  <2>3. QED
    BY <2>1, <2>2
<1>5. QED
    BY <1>1, <1>2, <1>3, <1>4 DEF Run

-----------------------------------------------------------------------------
\* Initially nothing was counted.
LEMMA InitSync == Init => SyncInv
<1> SUFFICES ASSUME Init PROVE SyncInv
    OBVIOUS
<1>1. 0 \in 0..Window /\ 0 \in 0..MaxConsecutive
    BY DEF LimitsAssumption
<1>2. offset \in Offsets /\ asked \in BOOLEAN
    BY DEF Init
<1>3. est \in Int /\ off \in Nat /\ off <= dev
    BY DEF Init
<1>4. seq \in 0..Window /\ dev \in 0..MaxConsecutive /\ dev = 0
    BY <1>1 DEF Init
<1>5. QED
    BY <1>2, <1>3, <1>4 DEF SyncInv, TypeOK

\* Our own answers count the deviations that the ghost counts.
LEMMA OwnStep ==
  ASSUME SyncInv, NEW forward \in Delays, NEW back \in Delays, OwnAnswer(forward, back)
  PROVE  SyncInv'
<1> DEFINE x == OffsetSample(0, forward - offset, forward + back)
<1>1. offset \in Int /\ forward \in Nat /\ back \in Nat /\ TypeOK
    BY DEF SyncInv, TypeOK
<1>2. x \in Int /\ forward + back \in Int
    BY <1>1, HalfBounds DEF OffsetSample
<1>3. Run(TRUE, forward + back, x)
    BY DEF OwnAnswer
<1> HIDE DEF x
<1>4. /\ est' \in Int /\ seq' \in 0..Window /\ dev' \in 0..MaxConsecutive
      /\ (~Converged)' => dev' = 0
    BY <1>1, <1>2, <1>3, RunStep DEF SyncInv
<1>5. off' \in Nat /\ off' <= dev'
  <2>1. CASE forward + back >= MaxRtt
    <3>1. ~LowRtt(forward + back)
      BY <1>1, <2>1, OwnRtt
    <3>2. dev' = dev /\ off' = off
      BY <1>3, <2>1, <3>1 DEF Run, OwnAnswer
    <3>3. QED
      BY <3>2 DEF SyncInv, TypeOK
  <2>2. CASE forward + back < MaxRtt /\ ~(WrongStamp /\ WrongStamp')
    <3>1. off' = 0
      BY <1>1, <2>2 DEF OwnAnswer
    <3>2. QED
      BY <1>4, <3>1
  <2>3. CASE forward + back < MaxRtt /\ WrongStamp /\ WrongStamp'
    <3>1. off' = off + 1
      BY <1>1, <2>3 DEF OwnAnswer
    <3>2. LowRtt(forward + back)
      BY <1>1, <2>3, OwnRtt
    <3>3. Deviates(x)
      BY <1>1, <1>2, <2>3, SampleBounds, WrongDeviates DEF x
    <3>4. Converged'
      BY <2>3, SMT DEF WrongStamp, SyncStamp, Abs
    <3>5. ~ResetFilter
      BY <3>4 DEF ResetFilter, Converged
    <3>6. dev' = dev + 1
      BY <1>3, <3>2, <3>3, <3>5 DEF Run
    <3>7. QED
      BY <3>1, <3>6 DEF SyncInv, TypeOK
  <2>4. QED
    BY <1>1, <2>1, <2>2, <2>3
<1>6. QED
    BY <1>4, <1>5 DEF SyncInv, TypeOK, OwnAnswer

\* While the stamps stay wrong, a foreign message makes the filter forget the
\* deviations it has counted only if it confirms the estimate.
LEMMA ForeignCount ==
  ASSUME TypeOK, NEW answer \in BOOLEAN, NEW d \in RoundTrips, NEW x \in Int,
         Run(answer, d, x), WrongStamp', ~Confirms(answer, d, x),
         ~Converged => dev = 0
  PROVE  dev' >= dev
<1>1. CASE UNCHANGED filter
    BY <1>1 DEF TypeOK
<1>2. CASE ResetFilter
  <2>1. ~Converged'
      BY <1>2 DEF ResetFilter, Converged
  <2>2. QED
      BY <2>1, SMT DEF WrongStamp, SyncStamp, Abs
<1>3. CASE dev' = dev + 1
    BY <1>3 DEF TypeOK
<1>4. CASE answer /\ LowRtt(d) /\ ~Deviates(x) /\ AddSample(x)
  <2>1. d \in 0..(MaxRtt - 1)
      BY <1>4, ForeignRtt
  <2>2. Abs(est - x) > MaxDeviation
      BY <1>4, <2>1 DEF Confirms, Abs, TypeOK
  <2>3. ~Converged
      BY <1>4, <2>2 DEF Deviates
  <2>4. QED
      BY <1>4, <2>3 DEF AddSample
<1>5. QED
    BY <1>1, <1>2, <1>3, <1>4 DEF Run

\* The ghost outlives no foreign message that the filter's count does not.
LEMMA ForeignStep ==
  ASSUME SyncInv, NEW answer \in BOOLEAN, NEW d \in RoundTrips, NEW x \in Estimates,
         ForeignMessage(answer, d, x)
  PROVE  SyncInv'
<1>1. d \in Int /\ x \in Int /\ Run(answer, d, x)
    BY RoundTripsAssumption DEF ForeignMessage
<1>2. /\ est' \in Int /\ seq' \in 0..Window /\ dev' \in 0..MaxConsecutive
      /\ (~Converged)' => dev' = 0
    BY <1>1, RunStep DEF SyncInv
<1>3. off' \in Nat /\ off' <= dev'
  <2>1. CASE ~WrongStamp' \/ Confirms(answer, d, x)
    BY <1>2, <2>1 DEF ForeignMessage
  <2>2. CASE WrongStamp' /\ ~Confirms(answer, d, x)
    <3>1. off' = off /\ dev' >= dev
      BY <1>1, <2>2, ForeignCount DEF ForeignMessage, SyncInv
    <3>2. QED
      BY <1>2, <3>1 DEF SyncInv, TypeOK
  <2>3. QED
    BY <2>1, <2>2
<1>4. QED
    BY <1>2, <1>3 DEF SyncInv, TypeOK, ForeignMessage

\* The invariant is inductive.
LEMMA SyncStep == SyncInv /\ [Next]_vars => SyncInv'
<1> SUFFICES ASSUME SyncInv, [Next]_vars PROVE SyncInv'
    OBVIOUS
<1>1. CASE PublishTimeSync
    BY <1>1 DEF PublishTimeSync, SyncInv, TypeOK, Converged
<1>2. CASE \E forward, back \in Delays : OwnAnswer(forward, back)
    BY <1>2, OwnStep
<1>3. CASE \E answer \in BOOLEAN, d \in RoundTrips, x \in Estimates : ForeignMessage(answer, d, x)
    BY <1>3, ForeignStep
<1>4. CASE ClockStep
    BY <1>4 DEF ClockStep, SyncInv, TypeOK, Converged
<1>5. CASE UNCHANGED vars
    BY <1>5 DEF vars, SyncInv, TypeOK, Converged
<1>6. QED
    BY <1>1, <1>2, <1>3, <1>4, <1>5 DEF Next

\* The counts of TimeSync::run keep their types and bounds, and every answer
\* that leaves a wrong estimate in force is counted, until a sample confirms it.
THEOREM SyncInvariant == Spec => []SyncInv
  BY InitSync, SyncStep, PTL DEF Spec

\* A wrong estimate survives MaxConsecutive quick answers of our own at most,
\* unless a foreign sample confirms it (TimeSync::run).
THEOREM OffsetSafe == Spec => []WrongOffsetIsShortLived
<1>1. SyncInv => WrongOffsetIsShortLived
    BY DEF SyncInv, TypeOK, WrongOffsetIsShortLived
<1>2. QED
    BY <1>1, SyncInvariant, PTL

\* No answer of our own throws a right estimate away, for any delays.
THEOREM EstimateKept == Spec => RightEstimateKept
<1> DEFINE Kept == \A forward, back \in Delays :
                     OwnAnswer(forward, back) /\ RightEstimate => Converged'
<1>1. SyncInv => Kept
  <2> SUFFICES ASSUME SyncInv, NEW forward \in Delays, NEW back \in Delays,
                      OwnAnswer(forward, back), RightEstimate
               PROVE  Converged'
      OBVIOUS
  <2> DEFINE x == OffsetSample(0, forward - offset, forward + back)
  <2>1. offset \in Int /\ forward \in Nat /\ back \in Nat /\ TypeOK
      BY DEF SyncInv, TypeOK
  <2>2. Run(TRUE, forward + back, x) /\ Converged
      BY DEF OwnAnswer, RightEstimate
  <2>3. LowRtt(forward + back) => x \in Int /\ Abs(x - offset) <= MaxRtt \div 2
      BY <2>1, OwnRtt, SampleBounds
  <2> HIDE DEF x
  <2>4. LowRtt(forward + back) => ~Deviates(x)
      BY <2>1, <2>3, RightAgrees
  <2>5. UNCHANGED filter \/ AddSample(x)
      BY <2>2, <2>4 DEF Run
  <2>6. QED
      BY <2>1, <2>2, <2>5 DEF AddSample, Converged, TypeOK
<1>2. QED
    BY <1>1, SyncInvariant, PTL DEF RightEstimateKept

\* The same without the ghost: a quick answer of our own to a wrong estimate is
\* counted or resets the filter, and no foreign message takes anything off the
\* count while the stamps stay wrong, unless it confirms the estimate
\* (the branches of TimeSync::run).
THEOREM DeviationsCount ==
  Spec => [][/\ \A forward, back \in Delays :
                  OwnAnswer(forward, back) /\ WrongStamp /\ forward + back < MaxRtt
                    => dev' = dev + 1 \/ ~Converged'
             /\ \A answer \in BOOLEAN, d \in RoundTrips, x \in Estimates :
                  ForeignMessage(answer, d, x) /\ WrongStamp' /\ ~Confirms(answer, d, x)
                    => dev' >= dev]_vars
<1> DEFINE Own == \A forward, back \in Delays :
                    OwnAnswer(forward, back) /\ WrongStamp /\ forward + back < MaxRtt
                      => dev' = dev + 1 \/ ~Converged'
           Foreign == \A answer \in BOOLEAN, d \in RoundTrips, x \in Estimates :
                        ForeignMessage(answer, d, x) /\ WrongStamp' /\ ~Confirms(answer, d, x)
                          => dev' >= dev
<1>1. SyncInv => Own
  <2> SUFFICES ASSUME SyncInv, NEW forward \in Delays, NEW back \in Delays,
                      OwnAnswer(forward, back), WrongStamp, forward + back < MaxRtt
               PROVE  dev' = dev + 1 \/ ~Converged'
      OBVIOUS
  <2> DEFINE x == OffsetSample(0, forward - offset, forward + back)
  <2>1. offset \in Int /\ forward \in Nat /\ back \in Nat /\ TypeOK
      BY DEF SyncInv, TypeOK
  <2>2. Run(TRUE, forward + back, x)
      BY DEF OwnAnswer
  <2>3. LowRtt(forward + back)
      BY <2>1, OwnRtt
  <2>4. Deviates(x)
      BY <2>1, SampleBounds, WrongDeviates
  <2> HIDE DEF x
  <2>5. ResetFilter \/ dev' = dev + 1
      BY <2>2, <2>3, <2>4 DEF Run
  <2>6. QED
      BY <2>5 DEF ResetFilter, Converged
<1>2. SyncInv => Foreign
  <2> SUFFICES ASSUME SyncInv, NEW answer \in BOOLEAN, NEW d \in RoundTrips,
                      NEW x \in Estimates, ForeignMessage(answer, d, x), WrongStamp',
                      ~Confirms(answer, d, x)
               PROVE  dev' >= dev
      OBVIOUS
  <2>1. x \in Int /\ Run(answer, d, x)
      BY DEF ForeignMessage
  <2>2. QED
      BY <2>1, ForeignCount DEF SyncInv
<1>3. QED
    BY <1>1, <1>2, SyncInvariant, PTL

===============================================================================
