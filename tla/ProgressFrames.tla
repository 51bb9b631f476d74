--------------------------- MODULE ProgressFrames ---------------------------
(***************************************************************************)
(* The progress stream of a batch_commit: NativeCommitProgress emits one   *)
(* frame on entering each phase, and further frames while a phase reports  *)
(* work: when a heartbeat is due, or early when enough work was done.  The *)
(* policy bounds the number of frames, so the emitter holds back frames it *)
(* still owes.                                                             *)
(*                                                                         *)
(* Time is in milliseconds and passes between reports and while a frame is *)
(* written.  Work is counted in units and bytes per phase; the totals sent *)
(* along with them, which callers never change within a phase, and the     *)
(* length of a frame are left out.                                         *)
(***************************************************************************)
EXTENDS Integers, Sequences

CONSTANTS
    Policies,   \* progress policies clients may present
    Phases,     \* BATCH_COMMIT_PHASES: their number
    MaxWork,    \* bound: units and bytes of a phase
    MaxClock    \* bound: the clock

VARIABLES
    policy,     \* the admitted policy
    clock,      \* elapsed milliseconds
    phase,      \* phase_index, from 0
    done,       \* the work of the phase, as the commit last reported it
    sent,       \* the work of the phase, as the last frame carried it
    last,       \* last_emitted_ms
    sequence, emitted,
    outcome     \* "running", "complete", "overflow" (frame refused), "broken" (output failed)

vars == <<policy, clock, phase, done, sent, last, sequence, emitted, outcome>>

Policy == [absolute : Nat \ {0}, min : Nat \ {0}, heartbeat : Nat \ {0},
           earlyUnits : Nat \ {0}, earlyBytes : Nat \ {0}, frames : Nat \ {0}]

\* BATCH_COMMIT_PHASES has the phases "admitted" and "complete" among others, and
\* validate_safe_integer admits no zero in a policy.
ASSUME ConstantsAssumption ==
    /\ Policies \subseteq Policy
    /\ Phases \in Nat /\ Phases >= 2
    /\ MaxWork \in Nat /\ MaxClock \in Nat \ {0}

CeilDiv(t, d) == (t + d - 1) \div d

\* NativeProgressPolicy::try_from.
PolicyAdmitted(p) == /\ p.heartbeat >= p.min
                     /\ Phases + CeilDiv(p.absolute, p.heartbeat) <= p.frames

Work    == [units : 0..MaxWork, bytes : 0..MaxWork]
NoWork  == [units |-> 0, bytes |-> 0]
Less(a, b) == a.units <= b.units /\ a.bytes <= b.bytes

\* Fault: only phase entries are held back.
ReserveOfPhases(elapsed) == Phases - (phase + 1)

\* remaining_reserve: an entry for every phase to come, a heartbeat for every
\* interval up to the absolute deadline.
Reserve(elapsed) ==
    LET left == IF elapsed < policy.absolute THEN policy.absolute - elapsed ELSE 0
    IN  Phases - (phase + 1) + CeilDiv(left, policy.heartbeat)

\* Fault: frames that enter a phase are not counted.
WriteFrameUncounted(work, t) ==
    /\ sequence' = sequence + 1
    /\ sent' = work /\ done' = work
    /\ emitted' = IF phase' = phase THEN emitted + 1 ELSE emitted
    /\ clock' = clock + t /\ last' = clock + t
    /\ outcome' = IF phase' = Phases - 1 THEN "complete" ELSE "running"

\* write_frame, which takes t milliseconds: the clock is read again after it.
WriteFrame(work, t) ==
    /\ sequence' = sequence + 1
    /\ sent' = work /\ done' = work
    /\ IF emitted + 1 > policy.frames
       THEN outcome' = "overflow" /\ UNCHANGED <<emitted, last, clock>>
       ELSE /\ emitted' = emitted + 1
            /\ clock' = clock + t /\ last' = clock + t
            /\ outcome' = IF phase' = Phases - 1 THEN "complete" ELSE "running"

-----------------------------------------------------------------------------

\* enter_phase: exactly the next phase, whose counters start afresh.
EnterPhase(work, t) ==
    /\ outcome = "running" /\ clock + t <= MaxClock
    /\ phase' = phase + 1
    /\ WriteFrame(work, t)
    /\ UNCHANGED policy

DueHeartbeat == clock - last >= policy.heartbeat
DueEarly(work) == /\ clock - last >= policy.min
                  /\ \/ work.units - sent.units >= policy.earlyUnits
                     \/ work.bytes - sent.bytes >= policy.earlyBytes

\* Fault: an early frame is not held back.
AdvanceUnreserved(work, t) ==
    /\ outcome = "running" /\ clock + t <= MaxClock /\ phase > 0
    /\ Less(done, work) /\ work # sent
    /\ IF DueHeartbeat \/ DueEarly(work)
       THEN UNCHANGED <<policy, phase>> /\ WriteFrame(work, t)
       ELSE done' = work /\ UNCHANGED <<policy, clock, phase, sent, last, sequence, emitted, outcome>>

\* advance: a report of more work than the last frame carried becomes a frame
\* when one is due and the frames still owed stay within the policy; otherwise
\* nothing is remembered.  That work never falls behind the last report is what
\* callers do; the code compares it with the last frame, and refuses less.
Advance(work, t) ==
    /\ outcome = "running" /\ clock + t <= MaxClock /\ phase > 0
    /\ Less(done, work) /\ work # sent
    /\ IF (DueHeartbeat \/ DueEarly(work)) /\ emitted + 1 + Reserve(clock) <= policy.frames
       THEN UNCHANGED <<policy, phase>> /\ WriteFrame(work, t)
       ELSE done' = work /\ UNCHANGED <<policy, clock, phase, sent, last, sequence, emitted, outcome>>

\* The client closed its end: the write fails and the commit with it.
OutputFails ==
    /\ outcome = "running" /\ outcome' = "broken"
    /\ UNCHANGED <<policy, clock, phase, done, sent, last, sequence, emitted>>

Tick == /\ outcome = "running" /\ clock < MaxClock /\ clock' = clock + 1
        /\ UNCHANGED <<policy, phase, done, sent, last, sequence, emitted, outcome>>

\* start: the admitted frame is written first.
Init ==
    /\ policy \in {p \in Policies : PolicyAdmitted(p)}
    /\ clock \in {0, 1} /\ last = clock
    /\ phase = 0 /\ done = NoWork /\ sent = NoWork
    /\ sequence = 1 /\ emitted = 1 /\ outcome = "running"

Next ==
    \/ \E work \in Work, t \in {0, 1} : EnterPhase(work, t) \/ Advance(work, t)
    \/ OutputFails
    \/ Tick

Spec == Init /\ [][Next]_vars

-----------------------------------------------------------------------------
(* Properties. *)

\* The emitter's counters: what a frame carried never exceeds what the commit
\* reported, sequence numbers count the frames written, and these stay within
\* the policy.
TypeOK ==
    /\ policy \in Policy /\ clock \in 0..MaxClock
    /\ phase \in 0..(Phases - 1) /\ done \in Work /\ sent \in Work /\ Less(sent, done)
    /\ last \in 0..clock
    /\ sequence \in Nat /\ emitted \in 1..policy.frames
    /\ sequence = emitted + (IF outcome = "overflow" THEN 1 ELSE 0)
    /\ outcome \in {"running", "complete", "overflow", "broken"}

\* No frame the commit must send is refused for the policy's frame count: the
\* frames sent early, however many, never use up the entries of later phases,
\* so healthy work cannot become a protocol overflow.
NeverOverflows == outcome # "overflow"

\* A report of new work that finds a heartbeat due before the absolute deadline
\* is sent: the owner's inactivity timer never runs out on a commit that works.
HeartbeatsSent ==
    [][done' # done /\ phase' = phase /\ DueHeartbeat /\ clock < policy.absolute
         => sent' = done' /\ emitted' = emitted + 1]_vars
=============================================================================
