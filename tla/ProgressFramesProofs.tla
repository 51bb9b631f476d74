------------------------ MODULE ProgressFramesProofs ------------------------
(***************************************************************************)
(* What TLAPS proves of ProgressFrames, for every policy, number of phases *)
(* and amount of work.  The invariant is about the frames still owed: an   *)
(* entry for every phase to come and a heartbeat for every interval from   *)
(* the last frame to the absolute deadline fit into what the policy has    *)
(* left.  remaining_reserve counts from the time of the report instead,    *)
(* which is later: that is what pays for a heartbeat that is due.          *)
(***************************************************************************)
EXTENDS ProgressFrames, TLAPS

-----------------------------------------------------------------------------
(* Rounding up. *)

\* A quotient is a natural number and does not decrease with the dividend.
LEMMA DivMonotone ==
    ASSUME NEW a \in Nat, NEW b \in Nat, NEW d \in Nat \ {0}, a <= b
    PROVE  a \div d \in Nat /\ b \div d \in Nat /\ a \div d <= b \div d
OBVIOUS

\* One divisor more in the dividend is one more in the quotient.
LEMMA DivStep ==
    ASSUME NEW a \in Nat, NEW d \in Nat \ {0}
    PROVE  (a + d) \div d = (a \div d) + 1
OBVIOUS

\* The intervals needed to cover a time are monotone in it.
LEMMA CeilDivMonotone ==
    ASSUME NEW t \in Nat, NEW u \in Nat, NEW d \in Nat \ {0}, t <= u
    PROVE  CeilDiv(t, d) \in Nat /\ CeilDiv(u, d) \in Nat /\ CeilDiv(t, d) <= CeilDiv(u, d)
<1>1. t + d - 1 \in Nat /\ u + d - 1 \in Nat /\ t + d - 1 <= u + d - 1
  OBVIOUS
<1>. QED BY <1>1, DivMonotone DEF CeilDiv

\* A time longer by an interval needs one interval more.
LEMMA CeilDivStep ==
    ASSUME NEW t \in Nat, NEW u \in Nat, NEW d \in Nat \ {0}, t + d <= u
    PROVE  CeilDiv(t, d) + 1 <= CeilDiv(u, d)
<1>1. CeilDiv(t + d, d) = CeilDiv(t, d) + 1
  <2>1. t + d - 1 \in Nat /\ t + d + d - 1 = (t + d - 1) + d
    OBVIOUS
  <2>. QED BY <2>1, DivStep DEF CeilDiv
<1>2. CeilDiv(t + d, d) <= CeilDiv(u, d)
  BY CeilDivMonotone
<1>. QED BY <1>1, <1>2, CeilDivMonotone

-----------------------------------------------------------------------------
(* The inductive invariant. *)

\* The time from m to the absolute deadline.
Left(m) == IF m < policy.absolute THEN policy.absolute - m ELSE 0

\* While the commit runs, the frames sent, the entries of the phases to come and
\* the heartbeats from the last frame to the deadline fit into the policy.
OwedInv ==
    outcome = "running" =>
        /\ phase < Phases - 1
        /\ emitted + (Phases - (phase + 1)) + CeilDiv(Left(last), policy.heartbeat) <= policy.frames

FrameInv == TypeOK /\ NeverOverflows /\ OwedInv

\* The times Reserve and OwedInv round up are natural numbers, and later is less.
LEMMA LeftMonotone ==
    ASSUME policy \in Policy, NEW m \in Nat, NEW n \in Nat, m <= n
    PROVE  Left(m) \in Nat /\ Left(n) \in Nat /\ Left(n) <= Left(m)
BY DEF Left, Policy

\* start leaves the frames that try_from of the policy has counted.
LEMMA FrameInvInit == Init => FrameInv
<1> SUFFICES ASSUME Init PROVE FrameInv
  OBVIOUS
<1> USE ConstantsAssumption
<1>1. policy \in Policy /\ PolicyAdmitted(policy)
  BY DEF Init
<1>2. policy.absolute \in Nat /\ policy.heartbeat \in Nat \ {0} /\ policy.frames \in Nat \ {0}
  BY <1>1 DEF Policy
<1>3. Left(last) \in Nat /\ Left(last) <= policy.absolute
  BY <1>2 DEF Init, Left
<1>4. /\ CeilDiv(Left(last), policy.heartbeat) \in Nat
      /\ CeilDiv(policy.absolute, policy.heartbeat) \in Nat
      /\ CeilDiv(Left(last), policy.heartbeat) <= CeilDiv(policy.absolute, policy.heartbeat)
  BY <1>2, <1>3, CeilDivMonotone
<1>5. emitted + (Phases - (phase + 1)) + CeilDiv(Left(last), policy.heartbeat) <= policy.frames
  BY <1>1, <1>2, <1>4 DEF Init, PolicyAdmitted
<1>6. TypeOK
  BY <1>1, <1>2 DEF Init, TypeOK, Work, NoWork, Less
<1>. QED BY <1>5, <1>6 DEF Init, FrameInv, NeverOverflows, OwedInv

\* A frame that leaves what is owed afterwards affordable keeps the invariant.
LEMMA WriteFrameInv ==
    ASSUME FrameInv, NEW work \in Work, NEW t \in {0, 1}, clock + t <= MaxClock,
           outcome = "running", policy' = policy, phase' \in {phase, phase + 1},
           emitted + 1 + (Phases - (phase' + 1)) + CeilDiv(Left(clock), policy.heartbeat)
               <= policy.frames,
           WriteFrame(work, t)
    PROVE  FrameInv'
<1> USE ConstantsAssumption
<1>1. /\ policy \in Policy /\ policy.frames \in Nat \ {0} /\ policy.heartbeat \in Nat \ {0}
      /\ clock \in Nat /\ clock + t \in Nat /\ MaxClock \in Nat /\ emitted \in Nat \ {0}
      /\ phase \in Nat /\ phase < Phases - 1 /\ sequence = emitted /\ Phases \in Nat
  BY DEF FrameInv, TypeOK, OwedInv, Policy
<1>2. Left(clock) \in Nat /\ Left(clock + t) \in Nat /\ Left(clock + t) <= Left(clock)
  BY <1>1, LeftMonotone
<1>3. /\ CeilDiv(Left(clock), policy.heartbeat) \in Nat
      /\ CeilDiv(Left(clock + t), policy.heartbeat) \in Nat
      /\ CeilDiv(Left(clock + t), policy.heartbeat) <= CeilDiv(Left(clock), policy.heartbeat)
  BY <1>1, <1>2, CeilDivMonotone
<1>4. phase' \in Nat /\ phase' <= Phases - 1 /\ emitted + 1 <= policy.frames
  BY <1>1, <1>3
<1>5. /\ sequence' = sequence + 1 /\ sent' = work /\ done' = work /\ emitted' = emitted + 1
      /\ clock' = clock + t /\ last' = clock + t
      /\ outcome' = IF phase' = Phases - 1 THEN "complete" ELSE "running"
  BY <1>1, <1>4 DEF WriteFrame
<1>6. TypeOK'
  <2>1. Less(work, work)
    BY DEF Less, Work
  <2>. QED BY <1>1, <1>4, <1>5, <2>1 DEF TypeOK, Less
<1>7. OwedInv'
  <2>1. Left(last)' = Left(clock + t)
    BY <1>5 DEF Left
  <2>. QED BY <1>1, <1>3, <1>4, <1>5, <2>1 DEF OwedInv
<1>8. NeverOverflows'
  BY <1>5 DEF NeverOverflows
<1>. QED BY <1>6, <1>7, <1>8 DEF FrameInv

\* Time passes, work is reported or a frame is sent: what is owed stays affordable.
LEMMA FrameInvStep == FrameInv /\ [Next]_vars => FrameInv'
<1> SUFFICES ASSUME FrameInv, [Next]_vars PROVE FrameInv'
  OBVIOUS
<1> USE ConstantsAssumption
<1>ty. /\ policy \in Policy /\ policy.frames \in Nat \ {0} /\ policy.heartbeat \in Nat \ {0}
       /\ clock \in Nat /\ last \in Nat /\ last <= clock /\ emitted \in Nat \ {0}
       /\ phase \in Nat /\ Phases \in Nat
  BY DEF FrameInv, TypeOK, Policy
<1>cd. /\ CeilDiv(Left(clock), policy.heartbeat) \in Nat
       /\ CeilDiv(Left(last), policy.heartbeat) \in Nat
       /\ CeilDiv(Left(clock), policy.heartbeat) <= CeilDiv(Left(last), policy.heartbeat)
  BY <1>ty, LeftMonotone, CeilDivMonotone
<1>1. ASSUME NEW work \in Work, NEW t \in {0, 1}, EnterPhase(work, t) PROVE FrameInv'
  <2>1. /\ outcome = "running" /\ clock + t <= MaxClock /\ phase' = phase + 1 /\ policy' = policy
        /\ WriteFrame(work, t)
    BY <1>1 DEF EnterPhase
  <2>2. emitted + 1 + (Phases - (phase' + 1)) + CeilDiv(Left(clock), policy.heartbeat) <= policy.frames
    BY <1>ty, <1>cd, <2>1 DEF FrameInv, OwedInv
  <2>. QED BY <2>1, <2>2, WriteFrameInv
<1>2. ASSUME NEW work \in Work, NEW t \in {0, 1}, Advance(work, t) PROVE FrameInv'
  <2>1. outcome = "running" /\ clock + t <= MaxClock /\ policy' = policy /\ phase' = phase
    BY <1>2 DEF Advance
  <2>2. CASE (DueHeartbeat \/ DueEarly(work)) /\ emitted + 1 + Reserve(clock) <= policy.frames
    <3>1. Reserve(clock) = Phases - (phase + 1) + CeilDiv(Left(clock), policy.heartbeat)
      BY DEF Reserve, Left
    <3>2. WriteFrame(work, t)
      BY <1>2, <2>2 DEF Advance
    <3>3. emitted + 1 + (Phases - (phase' + 1)) + CeilDiv(Left(clock), policy.heartbeat)
            <= policy.frames
      BY <1>ty, <1>cd, <2>1, <2>2, <3>1
    <3>. QED BY <2>1, <3>2, <3>3, WriteFrameInv
  <2>3. CASE ~((DueHeartbeat \/ DueEarly(work)) /\ emitted + 1 + Reserve(clock) <= policy.frames)
    <3>1. /\ done' = work /\ Less(done, work)
          /\ UNCHANGED <<policy, clock, phase, sent, last, sequence, emitted, outcome>>
      BY <1>2, <2>3 DEF Advance
    <3>2. Less(sent, work)
      BY <3>1 DEF FrameInv, TypeOK, Less, Work
    <3>. QED BY <3>1, <3>2 DEF FrameInv, TypeOK, NeverOverflows, OwedInv, Left, Less
  <2>. QED BY <2>2, <2>3
<1>3. CASE OutputFails
  BY <1>3 DEF OutputFails, FrameInv, TypeOK, NeverOverflows, OwedInv, Less
<1>4. CASE Tick
  BY <1>4, <1>ty DEF Tick, FrameInv, TypeOK, NeverOverflows, OwedInv, Left, Less
<1>5. CASE UNCHANGED vars
  BY <1>5 DEF vars, FrameInv, TypeOK, NeverOverflows, OwedInv, Left, Less
<1>. QED BY <1>1, <1>2, <1>3, <1>4, <1>5 DEF Next

\* The invariant holds in every reachable state.
LEMMA FrameInvariant == Spec => []FrameInv
BY FrameInvInit, FrameInvStep, PTL DEF Spec

\* The counters of NativeCommitProgress are consistent at every step: sequence
\* numbers count the frames, and these stay within the policy.
THEOREM CountersConsistent == Spec => []TypeOK
<1>1. FrameInv => TypeOK
  BY DEF FrameInv
<1>. QED BY <1>1, FrameInvariant, PTL

\* write_frame never refuses a frame for the policy's frame count, whatever the
\* policy admitted by try_from, however the work is reported and time passes.
THEOREM NoProtocolOverflow == Spec => []NeverOverflows
<1>1. FrameInv => NeverOverflows
  BY DEF FrameInv
<1>. QED BY <1>1, FrameInvariant, PTL

\* advance sends every heartbeat that is due before the absolute deadline: the
\* reserve for later frames is never the reason to hold one back.
THEOREM DueHeartbeatsSent == Spec => HeartbeatsSent
<1>1. ASSUME FrameInv, Next, done' # done, phase' = phase, DueHeartbeat, clock < policy.absolute
      PROVE  sent' = done' /\ emitted' = emitted + 1
  <2> USE ConstantsAssumption
  <2>ty. /\ policy \in Policy /\ policy.frames \in Nat \ {0} /\ policy.heartbeat \in Nat \ {0}
         /\ policy.absolute \in Nat /\ clock \in Nat /\ last \in Nat /\ last <= clock
         /\ emitted \in Nat \ {0} /\ phase \in Nat /\ Phases \in Nat
    BY <1>1 DEF FrameInv, TypeOK, Policy
  <2>1. PICK work \in Work, t \in {0, 1} : Advance(work, t)
    <3>1. phase + 1 # phase
      BY <2>ty
    <3>. QED BY <1>1, <3>1 DEF Next, EnterPhase, OutputFails, Tick
  <2>2. /\ Left(clock) \in Nat /\ Left(last) \in Nat
        /\ Left(clock) + policy.heartbeat <= Left(last)
    <3>1. clock - last >= policy.heartbeat /\ clock < policy.absolute /\ last < policy.absolute
      BY <1>1, <2>ty DEF DueHeartbeat
    <3>2. Left(clock) = policy.absolute - clock /\ Left(last) = policy.absolute - last
      BY <3>1 DEF Left
    <3>. QED BY <2>ty, <3>1, <3>2
  <2>3. CeilDiv(Left(clock), policy.heartbeat) + 1 <= CeilDiv(Left(last), policy.heartbeat)
    BY <2>ty, <2>2, CeilDivStep
  <2>4. CeilDiv(Left(clock), policy.heartbeat) \in Nat /\ CeilDiv(Left(last), policy.heartbeat) \in Nat
    BY <2>ty, LeftMonotone, CeilDivMonotone
  <2>5. outcome = "running"
    BY <2>1 DEF Advance
  <2>6. Reserve(clock) = Phases - (phase + 1) + CeilDiv(Left(clock), policy.heartbeat)
    BY DEF Reserve, Left
  <2>7. emitted + (Phases - (phase + 1)) + CeilDiv(Left(last), policy.heartbeat) <= policy.frames
    BY <1>1, <2>5 DEF FrameInv, OwedInv
  <2>8. emitted + 1 + Reserve(clock) <= policy.frames
    BY <2>ty, <2>3, <2>4, <2>6, <2>7
  <2>9. phase < Phases - 1
    BY <1>1, <2>5 DEF FrameInv, OwedInv
  <2>10. emitted + 1 <= policy.frames
    BY <2>ty, <2>4, <2>6, <2>8, <2>9
  <2>11. WriteFrame(work, t)
    BY <1>1, <2>1, <2>8 DEF Advance
  <2>. QED BY <2>ty, <2>10, <2>11 DEF WriteFrame
<1>2. FrameInv /\ [Next]_vars =>
        [done' # done /\ phase' = phase /\ DueHeartbeat /\ clock < policy.absolute
           => sent' = done' /\ emitted' = emitted + 1]_vars
  BY <1>1
<1>. QED BY <1>2, FrameInvariant, PTL DEF Spec, HeartbeatsSent
=============================================================================
