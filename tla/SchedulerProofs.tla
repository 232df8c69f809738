-------------------------- MODULE SchedulerProofs --------------------------
(***************************************************************************)
(* The safety of the run loop, for any number of slots, any clients, any   *)
(* descriptors and any width of uint64_t.                                  *)
(*                                                                         *)
(* Inv (type correctness, SlotsConsistent and NoAssertFires) is inductive. *)
(* NoEarlyWake, JobsHaveOneOwner and PollTimeoutFits then follow by one    *)
(* more induction or from one state each.  Then the scheduler is proved to *)
(* implement Runtime, and picking to be fair (RoundRobin).                 *)
(***************************************************************************)
EXTENDS RoundRobin, U64Proofs

\* A switch that fails an assertion, as a step of its own.
SwitchAborts ==
    /\ pc = "switch" /\ ~ SwitchAsserts /\ pc' = "abort"
    /\ UNCHANGED <<coro, frame, current, fair, poll, ret, jobs, clock, ready>>

LEMMA SwitchCases ==
    Switch => StartEntry \/ ReturnFromYield \/ ResumeTimer \/ ResumeIo \/ SwitchAborts
BY DEF Switch, SwitchAborts

LEMMA PollTimeoutType ==
    ASSUME NEW now \in U64, NEW d \in U64
    PROVE  PollTimeout(now, d) \in Nat
BY SchedulerAssumption, U64MaxAssumption DEF PollTimeout, U64

LEMMA MaybeResumeType ==
    ASSUME NEW co \in Coroutine, NEW now \in U64, NEW revents \in SUBSET (PollBits \union Unrequested)
    PROVE  MaybeResume(co, now, revents) \in Coroutine
<1>0. 0 \in U64
  BY U64MaxAssumption DEF U64
<1>1. CASE TimerExpired(co, now)
  <2>1. MaybeResume(co, now, revents)
          = [co EXCEPT !.deadline = 0, !.state = "RUNNABLE"]
    BY <1>1 DEF MaybeResume
  <2> QED BY <1>0, <2>1 DEF Coroutine, States
<1>2. CASE ~ TimerExpired(co, now) /\ IoResumable(co, now, revents)
  <2>1. MaybeResume(co, now, revents)
          = [co EXCEPT !.deadline = 0, !.state = "RUNNABLE", !.sock = InvalidSocket,
                       !.events = {}, !.revents = revents]
    BY <1>2 DEF MaybeResume
  <2> QED BY <1>0, <2>1 DEF Coroutine, States
<1>3. CASE ~ TimerExpired(co, now) /\ ~ IoResumable(co, now, revents)
  BY <1>3 DEF MaybeResume
<1> QED BY <1>1, <1>2, <1>3

LEMMA ConstantTypes ==
    /\ ZeroCoroutine \in Coroutine
    /\ \A j \in Jobs : Fresh(j) \in Coroutine /\ Dirty(j) \in Coroutine
    /\ NoFrame \in Frame
    /\ NoPoll \in [timeout : Nat, until : Nat, revents : [Slots -> SUBSET (PollBits \union Unrequested)]]
    /\ Null \notin Slots
    /\ 0 \in Slots
    /\ 0 .. ClockBound \subseteq U64
<1>1. 0 \in U64 /\ 0 .. ClockBound \subseteq U64
  BY U64MaxAssumption, SchedulerAssumption DEF U64
<1>2. ZeroCoroutine \in Coroutine
  BY <1>1, SchedulerAssumption DEF ZeroCoroutine, Coroutine, States
<1>3. ASSUME NEW j \in Jobs PROVE Dirty(j) \in Coroutine
  BY <1>2 DEF Dirty, Coroutine
<1>4. ASSUME NEW j \in Jobs PROVE Fresh(j) \in Coroutine
  BY <1>3 DEF Fresh, Coroutine, States
<1>5. NoFrame \in Frame
  BY <1>1 DEF NoFrame, Frame
<1>6. NoPoll \in [timeout : Nat, until : Nat, revents : [Slots -> SUBSET (PollBits \union Unrequested)]]
  BY DEF NoPoll
<1>7. Null \notin Slots /\ 0 \in Slots
  BY SchedulerAssumption DEF Null, Slots
<1> QED BY <1>1, <1>2, <1>3, <1>4, <1>5, <1>6, <1>7

LEMMA SuspendedTypes ==
    ASSUME NEW co \in Coroutine, NEW deadline \in U64
    PROVE  /\ SuspendedTimer(co, deadline) \in Coroutine
           /\ \A s \in Fds, e \in Requestable :
                SuspendedIo(co, s, {e}, deadline) \in Coroutine
<1>1. SuspendedTimer(co, deadline) \in Coroutine
  BY DEF SuspendedTimer, Coroutine, States
<1>2. ASSUME NEW s \in Fds, NEW e \in Requestable
      PROVE  SuspendedIo(co, s, {e}, deadline) \in Coroutine
  BY DEF SuspendedIo, Coroutine, States, Requestable
<1> QED BY <1>1, <1>2

LEMMA FrameTypes ==
    /\ \A l \in {"none", "main", "yield", "timer", "io", "dead"} : At(l) \in Frame
    /\ \A d \in U64 : [NoFrame EXCEPT !.at = "timer", !.until = d] \in Frame
    /\ \A s \in Fds, e \in Requestable, d \in U64 :
         [at |-> "io", until |-> d, sock |-> s, events |-> {e}] \in Frame
BY ConstantTypes DEF At, Frame, Requestable

-----------------------------------------------------------------------------
LEMMA TypeInit == Init => TypeOK
BY ConstantTypes, SchedulerAssumption DEF Init, TypeOK, U64

LEMMA TypeStep == TypeOK /\ [Next]_vars => TypeOK'
<1> SUFFICES ASSUME TypeOK, [Next]_vars PROVE TypeOK'
  OBVIOUS
<1> USE DEF TypeOK
<1>0. clock \in U64 /\ Durations \subseteq U64
  BY ConstantTypes, SchedulerAssumption
<1>1. ASSUME NEW j \in Jobs, GoCreates(j) PROVE TypeOK'
  <2>1. At("main") \in Frame
    BY FrameTypes
  <2> QED BY <1>1, <2>1, ConstantTypes DEF GoCreates
<1>2. ASSUME NEW j \in Jobs, GoStackAllocFails(j) PROVE TypeOK'
  BY <1>2, ConstantTypes DEF GoStackAllocFails
<1>3. ASSUME NEW j \in Jobs, GoNoSlot(j) PROVE TypeOK'
  BY <1>3 DEF GoNoSlot
<1>4. CASE Run
  BY <1>4, ConstantTypes DEF Run
<1>5. CASE LoopEnds
  BY <1>5 DEF LoopEnds
<1>6. CASE CleanExited
  BY <1>6, ConstantTypes DEF CleanExited, Finish
<1>7. CASE MaybeExpireDeadlines
  BY <1>0, <1>7, MaybeResumeType DEF MaybeExpireDeadlines
<1>8. CASE PickRunnable
  BY <1>8, SchedulerAssumption DEF PickRunnable, Next1, Slots
<1>9. CASE PickNothing
  BY <1>9 DEF PickNothing
<1>10. CASE PollScan
  BY <1>0, <1>10, PollTimeoutType DEF PollScan
<1>11. CASE PollEnter
  <2>1. clock + poll.timeout * NsPerMs \in Nat
    BY SchedulerAssumption
  <2>2. CappedToBound(clock + poll.timeout * NsPerMs) \in Nat
    BY <2>1, SchedulerAssumption DEF CappedToBound, U64
  <2> QED BY <1>11, <2>2 DEF PollEnter
<1>12. CASE PollReturns
  <2>1. \A c \in Slots : Reported(c) \in SUBSET (PollBits \union Unrequested)
    BY DEF Reported, PollFd, Coroutine
  <2> QED BY <1>12, <2>1 DEF PollReturns
<1>13. CASE PollInterrupted
  BY <1>13, ConstantTypes DEF PollInterrupted
<1>14. CASE PollFails
  BY <1>14 DEF PollFails
<1>15. CASE PollResume
  BY <1>0, <1>15, MaybeResumeType, ConstantTypes DEF PollResume
<1>16. CASE StartEntry
  BY <1>16, ConstantTypes DEF StartEntry, SwitchTo
<1>17. CASE ReturnFromYield
  BY <1>17, ConstantTypes DEF ReturnFromYield, SwitchTo
<1>18. CASE ResumeTimer
  <2>1. 0 \in U64
    BY U64MaxAssumption DEF U64
  <2>2. \A co \in Coroutine : [co EXCEPT !.deadline = 0] \in Coroutine
    BY <2>1 DEF Coroutine
  <2> QED BY <1>18, <2>2, ConstantTypes DEF ResumeTimer, SwitchTo
<1>19. CASE ResumeIo
  BY <1>19, ConstantTypes DEF ResumeIo, SwitchTo, IoResult, Coroutine
<1>20. CASE SwitchAborts
  BY <1>20 DEF SwitchAborts
<1>21. CASE SwitchBack
  BY <1>21 DEF SwitchBack
<1>22. CASE Yield
  BY <1>22, FrameTypes DEF Yield, GiveBack
<1>23. ASSUME NEW d \in Durations, Nanosleep(d) PROVE TypeOK'
  <2>1. SatAdd(clock, d) \in U64 /\ Until(d) \in U64
    BY <1>0, SatAddType, SatAddIsMeant DEF Until
  <2> QED BY <1>23, <2>1, FrameTypes, SuspendedTypes DEF Nanosleep, GiveBack
<1>24. ASSUME NEW s \in Fds, NEW e \in Requestable, NEW d \in Durations,
              SuspendIo(s, e, d)
       PROVE TypeOK'
  <2>1. SatAdd(clock, d) \in U64 /\ Until(d) \in U64
    BY <1>0, SatAddType, SatAddIsMeant DEF Until
  <2> QED BY <1>24, <2>1, FrameTypes, SuspendedTypes DEF SuspendIo, GiveBack
<1>25. CASE EntryReturns
  <2>1. At("dead") \in Frame
    BY FrameTypes
  <2>2. \A co \in Coroutine : [co EXCEPT !.state = "EXITED"] \in Coroutine
    BY DEF Coroutine, States
  <2> QED BY <1>25, <2>1, <2>2 DEF EntryReturns, GiveBack
<1>26. CASE Tick
  BY <1>26, SchedulerAssumption DEF Tick, runtime, U64
<1>27. ASSUME NEW f \in Fds, NEW bits \in SUBSET PollBits, ReadyChanges(f, bits)
       PROVE TypeOK'
  BY <1>27 DEF ReadyChanges, runtime
<1>28. CASE UNCHANGED vars
  BY <1>28 DEF vars
<1> QED
  BY <1>1, <1>2, <1>3, <1>4, <1>5, <1>6, <1>7, <1>8, <1>9, <1>10, <1>11, <1>12, <1>13,
     <1>14, <1>15, <1>16, <1>17, <1>18, <1>19, <1>20, <1>21, <1>22, <1>23, <1>24,
     <1>25, <1>26, <1>27, <1>28, SwitchCases
  DEF Next, Go, LoopStep, PollOutcome, CoroutineGivesBack, Environment

(***************************************************************************)
(* The runtime's state keeps its type whatever the client does.            *)
(***************************************************************************)
THEOREM TypeCorrect == Spec => []TypeOK
BY TypeInit, TypeStep, PTL DEF Spec

-----------------------------------------------------------------------------
(***************************************************************************)
(* What the operations on a slot leave in it, field by field.              *)
(***************************************************************************)
LEMMA MaybeResumeEffect ==
    ASSUME NEW co \in Coroutine, NEW now \in U64,
           NEW revents \in SUBSET (PollBits \union Unrequested),
           NEW r, r = MaybeResume(co, now, revents)
    PROVE  /\ r.stack = co.stack /\ r.opaque = co.opaque
           /\ TimerExpired(co, now) => r.state = "RUNNABLE"
           /\ IoResumable(co, now, revents) =>
                /\ r.state = "RUNNABLE" /\ r.revents = revents
                /\ ResumeIoAsserts(r)
           /\ ~ TimerExpired(co, now) /\ ~ IoResumable(co, now, revents) => r = co
<1>1. CASE TimerExpired(co, now)
  <2>1. r = [co EXCEPT !.deadline = 0, !.state = "RUNNABLE"]
    BY <1>1 DEF MaybeResume
  <2>2. co.state = "TIMER"
    BY <1>1 DEF TimerExpired
  <2> QED BY <1>1, <2>1, <2>2 DEF Coroutine, IoResumable
<1>2. CASE ~ TimerExpired(co, now) /\ IoResumable(co, now, revents)
  <2>1. r = [co EXCEPT !.deadline = 0, !.state = "RUNNABLE", !.sock = InvalidSocket,
                       !.events = {}, !.revents = revents]
    BY <1>2 DEF MaybeResume
  <2> QED BY <1>2, <2>1 DEF Coroutine, ResumeIoAsserts
<1>3. CASE ~ TimerExpired(co, now) /\ ~ IoResumable(co, now, revents)
  BY <1>3 DEF MaybeResume
<1> QED BY <1>1, <1>2, <1>3

LEMMA SlotEffects ==
    /\ ZeroCoroutine.state = "NULL" /\ ZeroCoroutine.stack = "none"
    /\ ZeroCoroutine.opaque = NoJob
    /\ \A j \in Jobs :
         /\ Dirty(j).state = "NULL" /\ Dirty(j).stack = "none"
         /\ Fresh(j).state = "RUNNABLE" /\ Fresh(j).stack = "held"
         /\ Fresh(j).opaque = j
    /\ NoFrame.at = "none"
    /\ \A l \in {"none", "main", "yield", "timer", "io", "dead"} : At(l).at = l
BY DEF ZeroCoroutine, Dirty, Fresh, NoFrame, At

-----------------------------------------------------------------------------
(***************************************************************************)
(* The inductive invariant of the safety proofs.                           *)
(***************************************************************************)
Inv == TypeOK /\ NoAssertFires /\ SlotsConsistent

LEMMA SlotKept ==
    ASSUME NEW c \in Slots, SlotConsistent(c),
           coro'[c] = coro[c], frame'[c] = frame[c],
           Runnable(c) => (OnCpu(c)' <=> OnCpu(c))
    PROVE  SlotConsistent(c)'
BY DEF SlotConsistent, Runnable, ScanAsserts, ResumeIoAsserts, OnCpu

\* maybe_resume keeps a slot consistent when nobody is on the CPU.
LEMMA SlotResumed ==
    ASSUME NEW c \in Slots, TypeOK, SlotConsistent(c), frame'[c] = frame[c],
           NEW revents \in SUBSET (PollBits \union Unrequested),
           coro'[c] = MaybeResume(coro[c], clock, revents),
           pc # "coro", pc' # "coro"
    PROVE  SlotConsistent(c)'
<1>1. /\ coro[c] \in Coroutine
      /\ clock \in U64
  BY ConstantTypes DEF TypeOK
<1>2. CASE TimerExpired(coro[c], clock) \/ IoResumable(coro[c], clock, revents)
  <2>1. /\ coro'[c].state = "RUNNABLE" /\ coro'[c].stack = coro[c].stack
        /\ IoResumable(coro[c], clock, revents) => ResumeIoAsserts(coro'[c])
    BY <1>1, <1>2, MaybeResumeEffect
  <2>2. /\ coro[c].stack = "held" /\ frame[c].at \in {"timer", "io"}
        /\ frame[c].at = "io" => IoResumable(coro[c], clock, revents)
    BY <1>2 DEF SlotConsistent, TimerExpired, IoResumable
  <2> QED BY <2>1, <2>2 DEF SlotConsistent, OnCpu, ResumeIoAsserts, ScanAsserts
<1>3. CASE ~ (TimerExpired(coro[c], clock) \/ IoResumable(coro[c], clock, revents))
  <2>1. coro'[c] = coro[c]
    BY <1>1, <1>3, MaybeResumeEffect
  <2> QED BY <2>1, SlotKept DEF OnCpu
<1> QED BY <1>2, <1>3

LEMMA InvInit == Init => Inv
<1> SUFFICES ASSUME Init PROVE Inv
  OBVIOUS
<1>1. TypeOK
  BY TypeInit
<1>2. SlotsConsistent
  BY SlotEffects
  DEF Init, SlotsConsistent, SlotConsistent, CurrentConsistent, Null, OnCpu
<1> QED BY <1>1, <1>2 DEF Inv, NoAssertFires, Init

LEMMA ConsistentStep == Inv /\ [Next]_vars => (NoAssertFires /\ SlotsConsistent)'
<1> SUFFICES ASSUME Inv, [Next]_vars PROVE (NoAssertFires /\ SlotsConsistent)'
  OBVIOUS
<1> USE DEF Inv, NoAssertFires, SlotsConsistent
<1>0. /\ clock \in U64 /\ Durations \subseteq U64
      /\ \A c \in Slots : coro[c] \in Coroutine /\ frame[c] \in Frame
      /\ \A c \in Slots : c # Null
  BY ConstantTypes, SchedulerAssumption DEF TypeOK
<1>1. ASSUME NEW j \in Jobs, GoCreates(j) PROVE (NoAssertFires /\ SlotsConsistent)'
  <2>1. PICK c \in Slots : /\ FirstFree(c)
                           /\ coro' = [coro EXCEPT ![c] = Fresh(j)]
                           /\ frame' = [frame EXCEPT ![c] = At("main")]
    BY <1>1 DEF GoCreates
  <2>2. ASSUME NEW d \in Slots PROVE SlotConsistent(d)'
    <3>1. CASE d = c
      <4>1. coro'[c] = Fresh(j) /\ frame'[c] = At("main")
        BY <2>1 DEF TypeOK
      <4>2. ~ OnCpu(c)'
        BY <1>1, <2>1 DEF GoCreates, FirstFree, FreeSlot, CurrentConsistent, OnCpu, Runnable
      <4> QED BY <3>1, <4>1, <4>2, SlotEffects DEF SlotConsistent
    <3>2. CASE d # c
      BY <1>1, <2>1, <3>2, SlotKept DEF GoCreates, OnCpu, TypeOK
    <3> QED BY <3>1, <3>2
  <2>3. CurrentConsistent'
    BY <1>1, <2>1 DEF GoCreates, CurrentConsistent, TypeOK, Runnable, FirstFree, FreeSlot,
                      InClient
  <2> QED BY <1>1, <2>2, <2>3 DEF GoCreates, InClient
<1>2. ASSUME NEW j \in Jobs, GoStackAllocFails(j) PROVE (NoAssertFires /\ SlotsConsistent)'
  <2>1. PICK c \in Slots : /\ FirstFree(c)
                           /\ coro' = [coro EXCEPT ![c] = Dirty(j)]
                           /\ frame' = [frame EXCEPT ![c] = NoFrame]
    BY <1>2 DEF GoStackAllocFails
  <2>2. ASSUME NEW d \in Slots PROVE SlotConsistent(d)'
    <3>1. CASE d = c
      BY <2>1, <3>1, SlotEffects DEF SlotConsistent, TypeOK
    <3>2. CASE d # c
      BY <1>2, <2>1, <3>2, SlotKept DEF GoStackAllocFails, OnCpu, TypeOK
    <3> QED BY <3>1, <3>2
  <2>3. CurrentConsistent'
    BY <1>2, <2>1 DEF GoStackAllocFails, CurrentConsistent, TypeOK, Runnable, FirstFree,
                      FreeSlot, InClient
  <2> QED BY <1>2, <2>2, <2>3 DEF GoStackAllocFails, InClient
<1>3. CASE (\E j \in Jobs : GoNoSlot(j)) \/ LoopEnds \/ PollEnter \/ PollReturns
           \/ PollInterrupted \/ PollFails \/ Tick \/ UNCHANGED vars
           \/ \E f \in Fds, bits \in SUBSET PollBits : ReadyChanges(f, bits)
  <2>1. /\ UNCHANGED <<coro, frame, current>>
        /\ \/ pc' = pc
           \/ /\ pc \notin {"switch", "coro", "back", "abort"}
              /\ pc' \notin {"switch", "coro", "back", "abort"}
    BY <1>3 DEF GoNoSlot, LoopEnds, PollEnter, PollReturns, PollInterrupted, PollFails,
                Tick, ReadyChanges, runtime, vars
  <2>2. ASSUME NEW c \in Slots PROVE SlotConsistent(c)'
    BY <2>1, SlotKept DEF OnCpu
  <2>3. CurrentConsistent'
    BY <2>1 DEF CurrentConsistent, Runnable, FreeSlot
  <2> QED BY <2>1, <2>2, <2>3
<1>4. CASE Run
  <2>1. current = Null /\ pc' = "loop" /\ UNCHANGED <<coro, frame, current>>
    BY <1>4 DEF Run, CurrentConsistent
  <2>2. ASSUME NEW c \in Slots PROVE SlotConsistent(c)'
    BY <1>4, <2>1, SlotKept DEF OnCpu, Run
  <2> QED BY <2>1, <2>2 DEF CurrentConsistent
<1>5. CASE CleanExited
  <2>1. ASSUME NEW c \in Slots PROVE SlotConsistent(c)'
    <3>1. CASE coro[c].state = "EXITED"
      <4>1. coro'[c] = ZeroCoroutine /\ frame'[c] = NoFrame
        BY <1>5, <3>1 DEF CleanExited, Finish
      <4> QED BY <4>1, SlotEffects DEF SlotConsistent
    <3>2. CASE coro[c].state # "EXITED"
      BY <1>5, <3>2, SlotKept DEF CleanExited, OnCpu
    <3> QED BY <3>1, <3>2
  <2> QED BY <1>5, <2>1 DEF CleanExited, CurrentConsistent
<1>6. CASE MaybeExpireDeadlines
  <2>1. ASSUME NEW c \in Slots PROVE SlotConsistent(c)'
    BY <1>6, SlotResumed DEF MaybeExpireDeadlines
  <2> QED BY <1>6, <2>1 DEF MaybeExpireDeadlines, CurrentConsistent
<1>7. CASE PollResume
  <2>1. ASSUME NEW c \in Slots PROVE SlotConsistent(c)'
    <3>1. poll.revents[c] \in SUBSET (PollBits \union Unrequested)
      BY DEF TypeOK
    <3> QED BY <1>7, <3>1, SlotResumed DEF PollResume
  <2> QED BY <1>7, <2>1 DEF PollResume, CurrentConsistent
<1>8. CASE PickRunnable
  <2>1. ASSUME NEW c \in Slots PROVE SlotConsistent(c)'
    BY <1>8, SlotKept DEF PickRunnable, OnCpu
  <2>2. CurrentConsistent'
    BY <1>0, <1>8 DEF PickRunnable, CurrentConsistent, PickedFirst, Runnable
  <2> QED BY <1>8, <2>1, <2>2 DEF PickRunnable
<1>9. CASE PickNothing
  <2>1. ASSUME NEW c \in Slots PROVE SlotConsistent(c)'
    BY <1>9, SlotKept DEF PickNothing, OnCpu
  <2> QED BY <1>9, <2>1 DEF PickNothing, CurrentConsistent
<1>10. CASE PollScan
  <2>1. \A c \in Slots : ScanAsserts(c)
    BY DEF SlotConsistent, ScanAsserts
  <2>2. pc' = "enter"
    BY <1>10, <2>1 DEF PollScan
  <2>3. ASSUME NEW c \in Slots PROVE SlotConsistent(c)'
    BY <1>10, <2>2, SlotKept DEF PollScan, OnCpu
  <2> QED BY <1>10, <2>2, <2>3 DEF PollScan, CurrentConsistent
<1>11. CASE StartEntry \/ ReturnFromYield \/ ResumeTimer \/ ResumeIo
  <2>1. /\ pc = "switch" /\ pc' = "coro" /\ current' = current
        /\ frame' = [frame EXCEPT ![current] = NoFrame]
    BY <1>11 DEF StartEntry, ReturnFromYield, ResumeTimer, ResumeIo, SwitchTo
  <2>2. current \in Slots /\ Runnable(current)
    BY <2>1 DEF CurrentConsistent, TypeOK
  <2>3. /\ coro'[current].state = "RUNNABLE"
        /\ coro'[current].stack = coro[current].stack
        /\ \A c \in Slots : c # current => coro'[c] = coro[c]
    BY <1>0, <1>11, <2>2
    DEF StartEntry, ReturnFromYield, ResumeTimer, ResumeIo, Runnable, TypeOK, Coroutine
  <2>4. ASSUME NEW c \in Slots PROVE SlotConsistent(c)'
    <3>1. CASE c = current
      <4>1. frame'[c].at = "none" /\ OnCpu(c)'
        BY <2>1, <3>1, SlotEffects DEF TypeOK, OnCpu
      <4> QED BY <2>2, <2>3, <3>1, <4>1 DEF SlotConsistent, Runnable
    <3>2. CASE c # current
      BY <2>1, <2>3, <3>2, SlotKept DEF OnCpu, TypeOK
    <3> QED BY <3>1, <3>2
  <2> QED BY <2>1, <2>2, <2>3, <2>4, <1>0 DEF CurrentConsistent, Runnable
<1>12. CASE SwitchAborts
  <2>1. pc = "switch" /\ current \in Slots /\ Runnable(current)
    BY <1>12 DEF SwitchAborts, CurrentConsistent, TypeOK
  <2>2. ValidStack(current) /\ frame[current].at # "dead"
    BY <2>1 DEF SlotConsistent, ValidStack, Runnable, OnCpu
  <2>3. frame[current].at = "io" => ResumeIoAsserts(coro[current])
    BY <2>1 DEF SlotConsistent, Runnable
  <2> QED BY <1>12, <2>2, <2>3 DEF SwitchAborts, SwitchAsserts
<1>13. CASE SwitchBack
  <2>1. current \in Slots /\ ~ FreeSlot(current) /\ frame[current].at # "none"
    BY <1>13 DEF SwitchBack, CurrentConsistent, TypeOK
  <2>2. ValidStack(current)
    BY <2>1 DEF ValidStack, SlotConsistent, FreeSlot
  <2>3. ASSUME NEW c \in Slots PROVE SlotConsistent(c)'
    BY <1>13, <2>2, SlotKept DEF SwitchBack, OnCpu
  <2> QED BY <1>13, <2>2, <2>3 DEF SwitchBack, CurrentConsistent
<1>14. ASSUME CoroutineGivesBack PROVE (NoAssertFires /\ SlotsConsistent)'
  <2>1. current \in Slots /\ Runnable(current) /\ pc = "coro"
        /\ coro[current].stack = "held"
    BY <1>14 DEF CoroutineGivesBack, Yield, Nanosleep, SuspendIo, EntryReturns, GiveBack,
                 CurrentConsistent, TypeOK, SlotConsistent, Runnable
  <2>2. /\ pc' = "back" /\ current' = current
        /\ \A c \in Slots : c # current => coro'[c] = coro[c] /\ frame'[c] = frame[c]
    BY <1>14 DEF CoroutineGivesBack, Yield, Nanosleep, SuspendIo, EntryReturns, GiveBack,
                 TypeOK
  <2>3. SlotConsistent(current)' /\ coro'[current].state # "NULL"
        /\ frame'[current].at # "none"
    <3>1. CASE Yield
      <4>1. frame'[current].at = "yield" /\ coro' = coro
        BY <2>1, <3>1, SlotEffects DEF Yield, GiveBack, TypeOK
      <4> QED BY <2>1, <2>2, <4>1 DEF SlotConsistent, Runnable, OnCpu
    <3>2. ASSUME NEW d \in Durations, Nanosleep(d)
          PROVE  SlotConsistent(current)' /\ coro'[current].state # "NULL"
                 /\ frame'[current].at # "none"
      <4> DEFINE deadline == SatAdd(clock, d)
      <4>1. deadline \in U64 /\ deadline = Until(d)
        BY <1>0, SatAddType, SatAddIsMeant DEF Until
      <4>2. /\ coro'[current] = SuspendedTimer(coro[current], deadline)
            /\ frame'[current] = [NoFrame EXCEPT !.at = "timer", !.until = deadline]
        BY <2>1, <3>2, <4>1 DEF Nanosleep, GiveBack, TypeOK
      <4> HIDE DEF deadline
      <4>3. /\ coro'[current].state = "TIMER" /\ coro'[current].stack = "held"
            /\ coro'[current].deadline = frame'[current].until
            /\ frame'[current].at = "timer"
        <5>1. coro[current] \in Coroutine
          BY <1>0, <2>1
        <5> QED BY <2>1, <4>2, <5>1 DEF SuspendedTimer, Coroutine, NoFrame
      <4> QED BY <2>2, <4>3 DEF SlotConsistent
    <3>3. ASSUME NEW s \in Fds, NEW e \in Requestable, NEW d \in Durations,
                 SuspendIo(s, e, d)
          PROVE  SlotConsistent(current)' /\ coro'[current].state # "NULL"
                 /\ frame'[current].at # "none"
      <4> DEFINE deadline == SatAdd(clock, d)
      <4>1. deadline \in U64 /\ deadline = Until(d)
        BY <1>0, SatAddType, SatAddIsMeant DEF Until
      <4>2. /\ coro'[current] = SuspendedIo(coro[current], s, {e}, deadline)
            /\ frame'[current]
                 = [at |-> "io", until |-> deadline, sock |-> s, events |-> {e}]
        BY <2>1, <3>3, <4>1 DEF SuspendIo, GiveBack, TypeOK
      <4> HIDE DEF deadline
      <4>3. /\ coro'[current].state = "IO" /\ coro'[current].stack = "held"
            /\ coro'[current].deadline = deadline /\ coro'[current].sock = s
            /\ coro'[current].events = {e} /\ coro'[current].revents = {}
        <5>1. coro[current] \in Coroutine
          BY <1>0, <2>1
        <5> QED BY <2>1, <4>2, <5>1 DEF SuspendedIo, Coroutine
      <4>4. s # InvalidSocket
        BY SchedulerAssumption DEF InvalidSocket
      <4>5. /\ frame'[current].at = "io" /\ frame'[current].until = deadline
            /\ frame'[current].sock = s /\ frame'[current].events = {e}
        BY <4>2
      <4>6. ScanAsserts(current)'
        BY <2>2, <4>3, <4>4 DEF ScanAsserts
      <4> QED BY <2>2, <4>3, <4>5, <4>6 DEF SlotConsistent
    <3>4. CASE EntryReturns
      <4>1. /\ coro'[current].state = "EXITED" /\ coro'[current].stack = "held"
            /\ frame'[current].at = "dead"
        BY <1>0, <2>1, <3>4, SlotEffects DEF EntryReturns, GiveBack, TypeOK, Coroutine
      <4> QED BY <2>2, <4>1 DEF SlotConsistent
    <3> QED BY <1>14, <3>1, <3>2, <3>3, <3>4 DEF CoroutineGivesBack
  <2>4. ASSUME NEW c \in Slots PROVE SlotConsistent(c)'
    BY <2>1, <2>2, <2>3, SlotKept DEF OnCpu
  <2> QED BY <1>0, <2>1, <2>2, <2>3, <2>4 DEF CurrentConsistent, FreeSlot
<1> QED
  BY <1>1, <1>2, <1>3, <1>4, <1>5, <1>6, <1>7, <1>8, <1>9, <1>10, <1>11, <1>12, <1>13, <1>14,
     SwitchCases
  DEF Next, Go, LoopStep, PollOutcome, Environment

LEMMA InvStep == Inv /\ [Next]_vars => Inv'
BY TypeStep, ConsistentStep DEF Inv

(***************************************************************************)
(* The fields of a slot, the stack of its coroutine and the thread agree   *)
(* (coroutine.hpp, scheduler.hpp), for any client and any environment.     *)
(***************************************************************************)
THEOREM Consistent == Spec => []SlotsConsistent
BY InvInit, InvStep, PTL DEF Spec, Inv

(***************************************************************************)
(* No MINIMK_ASSERT of the runtime fires, whatever the legal calls.        *)
(***************************************************************************)
THEOREM AssertionFree == Spec => []NoAssertFires
BY InvInit, InvStep, PTL DEF Spec, Inv

-----------------------------------------------------------------------------
(***************************************************************************)
(* Nobody is woken early.                                                  *)
(***************************************************************************)
LEMMA WakeKept ==
    ASSUME NEW c \in Slots, TypeOK, TypeOK', WokenOnTime(c), coro'[c] = coro[c],
           frame'[c] = frame[c], clock' >= clock
    PROVE  WokenOnTime(c)'
<1>1. clock \in Nat /\ clock' \in Nat /\ frame[c].until \in Nat
  BY SchedulerAssumption, U64MaxAssumption DEF TypeOK, Frame, U64
<1> QED BY <1>1 DEF WokenOnTime, Runnable, IoResult

LEMMA WakeResumed ==
    ASSUME NEW c \in Slots, TypeOK, SlotConsistent(c), WokenOnTime(c),
           frame'[c] = frame[c], clock' = clock,
           NEW revents \in SUBSET (PollBits \union Unrequested),
           coro'[c] = MaybeResume(coro[c], clock, revents)
    PROVE  WokenOnTime(c)'
<1>1. /\ coro[c] \in Coroutine
      /\ clock \in U64
  BY ConstantTypes DEF TypeOK
<1>2. CASE TimerExpired(coro[c], clock)
  <2>1. clock >= frame[c].until
    BY <1>2 DEF TimerExpired, SlotConsistent
  <2> QED BY <2>1 DEF WokenOnTime
<1>3. CASE IoResumable(coro[c], clock, revents)
  <2>1. coro'[c].revents = revents
    BY <1>1, <1>3, MaybeResumeEffect
  <2>2. /\ coro[c].events = frame[c].events /\ coro[c].deadline = frame[c].until
        /\ frame[c].at = "io"
    BY <1>3 DEF IoResumable, SlotConsistent
  <2>3. CASE coro[c].events \intersect revents # {}
    BY <2>1, <2>2, <2>3 DEF WokenOnTime, IoResult
  <2>4. CASE clock >= coro[c].deadline
    BY <2>2, <2>4 DEF WokenOnTime
  <2> QED BY <1>3, <2>3, <2>4 DEF IoResumable
<1>4. CASE ~ TimerExpired(coro[c], clock) /\ ~ IoResumable(coro[c], clock, revents)
  <2>1. coro'[c] = coro[c]
    BY <1>1, <1>4, MaybeResumeEffect
  <2> QED BY <2>1 DEF WokenOnTime, Runnable, IoResult
<1> QED BY <1>2, <1>3, <1>4

LEMMA WakeStep == Inv /\ NoEarlyWake /\ [Next]_vars => NoEarlyWake'
<1> SUFFICES ASSUME Inv, NoEarlyWake, [Next]_vars, NEW c \in Slots
             PROVE  WokenOnTime(c)'
  BY DEF NoEarlyWake
<1>0. /\ TypeOK /\ TypeOK' /\ SlotConsistent(c) /\ WokenOnTime(c)
      /\ clock \in Nat /\ clock >= clock
  BY TypeStep, ConstantTypes DEF Inv, SlotsConsistent, NoEarlyWake, TypeOK
<1>1. CASE Go
  <2>1. PICK d \in Slots :
          /\ \A e \in Slots : e # d => coro'[e] = coro[e] /\ frame'[e] = frame[e]
          /\ \/ coro'[d] = coro[d] /\ frame'[d] = frame[d]
             \/ frame'[d] \in {At("main"), NoFrame}
          /\ clock' = clock
    <3>1. 0 \in Slots
      BY ConstantTypes
    <3> QED BY <1>0, <1>1, <3>1
        DEF Go, GoCreates, GoStackAllocFails, GoNoSlot, TypeOK
  <2>2. CASE coro'[c] = coro[c] /\ frame'[c] = frame[c]
    BY <1>0, <2>1, <2>2, WakeKept
  <2>3. CASE frame'[c] \in {At("main"), NoFrame}
    BY <2>3, SlotEffects DEF WokenOnTime
  <2> QED BY <2>1, <2>2, <2>3
<1>2. CASE CleanExited
  <2>1. CASE coro[c].state = "EXITED"
    BY <1>2, <2>1, SlotEffects DEF CleanExited, Finish, WokenOnTime, Runnable
  <2>2. CASE coro[c].state # "EXITED"
    BY <1>0, <1>2, <2>2, WakeKept DEF CleanExited
  <2> QED BY <2>1, <2>2
<1>3. CASE MaybeExpireDeadlines
  BY <1>0, <1>3, WakeResumed DEF MaybeExpireDeadlines
<1>4. CASE PollResume
  <2>1. poll.revents[c] \in SUBSET (PollBits \union Unrequested)
    BY <1>0 DEF TypeOK
  <2> QED BY <1>0, <1>4, <2>1, WakeResumed DEF PollResume
<1>5. CASE StartEntry \/ ReturnFromYield \/ ResumeTimer \/ ResumeIo
  <2>1. CASE c = current
    BY <1>0, <1>5, <2>1, SlotEffects
    DEF StartEntry, ReturnFromYield, ResumeTimer, ResumeIo, SwitchTo, WokenOnTime, TypeOK
  <2>2. CASE c # current
    BY <1>0, <1>5, <2>2, WakeKept
    DEF StartEntry, ReturnFromYield, ResumeTimer, ResumeIo, SwitchTo, TypeOK
  <2> QED BY <2>1, <2>2
<1>6. CASE CoroutineGivesBack
  <2>1. CASE c = current
    <3>1. CASE Yield
      BY <1>0, <2>1, <3>1, SlotEffects DEF Yield, GiveBack, WokenOnTime, TypeOK
    <3>2. CASE ~ Yield
      <4>1. coro'[c].state \in {"TIMER", "IO", "EXITED"}
        <5>0. coro \in [Slots -> Coroutine]
          BY <1>0 DEF TypeOK
        <5>1. ASSUME NEW d \in Durations, Nanosleep(d) PROVE coro'[c].state = "TIMER"
          BY <2>1, <5>0, <5>1 DEF Nanosleep, SuspendedTimer, Coroutine
        <5>2. ASSUME NEW s \in Fds, NEW e \in Requestable, NEW d \in Durations,
                     SuspendIo(s, e, d)
              PROVE  coro'[c].state = "IO"
          BY <2>1, <5>0, <5>2 DEF SuspendIo, SuspendedIo, Coroutine
        <5>3. CASE EntryReturns
          BY <2>1, <5>0, <5>3 DEF EntryReturns, Coroutine
        <5> QED BY <1>6, <3>2, <5>1, <5>2, <5>3 DEF CoroutineGivesBack
      <4> QED BY <4>1 DEF WokenOnTime, Runnable
    <3> QED BY <3>1, <3>2
  <2>2. CASE c # current
    BY <1>0, <1>6, <2>2, WakeKept
    DEF CoroutineGivesBack, Yield, Nanosleep, SuspendIo, EntryReturns, GiveBack, TypeOK
  <2> QED BY <2>1, <2>2
<1>7. CASE Run \/ LoopEnds \/ PickRunnable \/ PickNothing \/ PollScan \/ PollEnter
           \/ PollOutcome \/ SwitchAborts \/ SwitchBack \/ Environment \/ UNCHANGED vars
  <2>1. coro' = coro /\ frame' = frame /\ clock' >= clock
    BY <1>0, <1>7
    DEF Run, LoopEnds, PickRunnable, PickNothing, PollScan, PollEnter, PollOutcome,
        PollReturns, PollInterrupted, PollFails, SwitchAborts, SwitchBack, Environment,
        Tick, ReadyChanges, runtime, vars
  <2> QED BY <1>0, <2>1, WakeKept
<1> QED BY <1>1, <1>2, <1>3, <1>4, <1>5, <1>6, <1>7, SwitchCases DEF Next, LoopStep

(***************************************************************************)
(* A sleep lasts at least as long as asked, and ETIMEDOUT is never early.  *)
(***************************************************************************)
THEOREM NeverEarly == Spec => []NoEarlyWake
<1>1. Init => NoEarlyWake
  BY SlotEffects DEF Init, NoEarlyWake, WokenOnTime, Runnable
<1> QED BY <1>1, InvInit, InvStep, WakeStep, PTL DEF Spec

-----------------------------------------------------------------------------
(***************************************************************************)
(* Every opaque pointer has one owner.                                     *)
(***************************************************************************)
Unstarted(c) == frame[c].at = "main"

\* Steps that neither create, start nor end a coroutine.
LEMMA OwnersKept ==
    ASSUME JobsHaveOneOwner, jobs' = jobs,
           \A c \in Slots, j \in Jobs :
              /\ Holds(c, j)' <=> Holds(c, j)
              /\ Holds(c, j) => (Unstarted(c)' <=> Unstarted(c))
    PROVE  JobsHaveOneOwner'
<1> SUFFICES ASSUME NEW j \in Jobs
             PROVE  IF jobs'[j] = "caller"
                    THEN \A c \in Slots : ~ Holds(c, j)'
                    ELSE \E c \in Slots :
                            /\ Holds(c, j)'
                            /\ (jobs'[j] = "queued") <=> Unstarted(c)'
                            /\ \A d \in Slots : Holds(d, j)' => d = c
  BY DEF JobsHaveOneOwner, Unstarted
<1>1. \A c \in Slots : /\ Holds(c, j)' <=> Holds(c, j)
                       /\ Holds(c, j) => (Unstarted(c)' <=> Unstarted(c))
  OBVIOUS
<1>2. CASE jobs[j] = "caller"
  BY <1>1, <1>2 DEF JobsHaveOneOwner
<1>3. CASE jobs[j] # "caller"
  <2>1. PICK c \in Slots : /\ Holds(c, j)
                           /\ (jobs[j] = "queued") <=> Unstarted(c)
                           /\ \A d \in Slots : Holds(d, j) => d = c
    BY <1>3 DEF JobsHaveOneOwner, Unstarted
  <2> QED BY <1>1, <1>3, <2>1
<1> QED BY <1>2, <1>3

\* Steps that change who owns j0, through the one slot c0.
LEMMA OwnerChanged ==
    ASSUME JobsHaveOneOwner, NEW c0 \in Slots, NEW j0 \in Jobs,
           \A j \in Jobs : j # j0 => jobs'[j] = jobs[j],
           \A c \in Slots : c # c0 => /\ coro'[c] = coro[c] /\ frame'[c] = frame[c]
                                      /\ ~ Holds(c, j0),
           \A j \in Jobs : j # j0 => ~ Holds(c0, j) /\ ~ Holds(c0, j)',
           IF jobs'[j0] = "caller"
           THEN ~ Holds(c0, j0)'
           ELSE Holds(c0, j0)' /\ ((jobs'[j0] = "queued") <=> Unstarted(c0)')
    PROVE  JobsHaveOneOwner'
<1>1. \A c \in Slots : c # c0 => ~ Holds(c, j0)'
  BY DEF Holds, Live
<1> SUFFICES ASSUME NEW j \in Jobs
             PROVE  IF jobs'[j] = "caller"
                    THEN \A c \in Slots : ~ Holds(c, j)'
                    ELSE \E c \in Slots :
                            /\ Holds(c, j)'
                            /\ (jobs'[j] = "queued") <=> Unstarted(c)'
                            /\ \A d \in Slots : Holds(d, j)' => d = c
  BY DEF JobsHaveOneOwner, Unstarted
<1>2. CASE j = j0
  BY <1>1, <1>2
<1>3. CASE j # j0
  <2>1. \A c \in Slots : /\ Holds(c, j)' <=> Holds(c, j)
                         /\ Holds(c, j) => (Unstarted(c)' <=> Unstarted(c))
    BY <1>3 DEF Holds, Live, Unstarted
  <2>2. CASE jobs[j] = "caller"
    BY <1>3, <2>1, <2>2 DEF JobsHaveOneOwner
  <2>3. CASE jobs[j] # "caller"
    <3>1. PICK c \in Slots : /\ Holds(c, j)
                             /\ (jobs[j] = "queued") <=> Unstarted(c)
                             /\ \A d \in Slots : Holds(d, j) => d = c
      BY <2>3 DEF JobsHaveOneOwner, Unstarted
    <3> QED BY <1>3, <2>1, <2>3, <3>1
  <2> QED BY <2>2, <2>3
<1> QED BY <1>2, <1>3

LEMMA OwnersStep == Inv /\ JobsHaveOneOwner /\ [Next]_vars => JobsHaveOneOwner'
<1> SUFFICES ASSUME Inv, JobsHaveOneOwner, [Next]_vars PROVE JobsHaveOneOwner'
  OBVIOUS
<1>0. /\ TypeOK /\ \A c \in Slots : SlotConsistent(c)
      /\ coro \in [Slots -> Coroutine] /\ frame \in [Slots -> Frame]
      /\ jobs \in [Jobs -> {"caller", "queued", "running"}]
      /\ clock \in U64
  BY ConstantTypes DEF Inv, SlotsConsistent, TypeOK
<1>1. ASSUME NEW j \in Jobs, GoCreates(j) PROVE JobsHaveOneOwner'
  <2>1. PICK c \in Slots : /\ FirstFree(c)
                           /\ coro' = [coro EXCEPT ![c] = Fresh(j)]
                           /\ frame' = [frame EXCEPT ![c] = At("main")]
    BY <1>1 DEF GoCreates
  <2>2. ~ Live(c) /\ \A d \in Slots : ~ Holds(d, j)
    BY <1>1, <2>1 DEF GoCreates, FirstFree, FreeSlot, Live, JobsHaveOneOwner
  <2>3. Live(c)' /\ coro'[c].opaque = j /\ Unstarted(c)'
    BY <1>0, <2>1, SlotEffects DEF Live, Unstarted
  <2>4. jobs'[j] = "queued" /\ \A i \in Jobs : i # j => jobs'[i] = jobs[i]
    BY <1>0, <1>1 DEF GoCreates
  <2> QED BY <1>0, <2>1, <2>2, <2>3, <2>4, OwnerChanged DEF Holds
<1>2. ASSUME NEW j \in Jobs, GoStackAllocFails(j) PROVE JobsHaveOneOwner'
  <2>1. PICK c \in Slots : /\ FirstFree(c)
                           /\ coro' = [coro EXCEPT ![c] = Dirty(j)]
                           /\ frame' = [frame EXCEPT ![c] = NoFrame]
    BY <1>2 DEF GoStackAllocFails
  <2>2. ~ Live(c) /\ ~ Live(c)'
    BY <1>0, <2>1, SlotEffects DEF FirstFree, FreeSlot, Live
  <2>3. \A d \in Slots : d # c => coro'[d] = coro[d] /\ frame'[d] = frame[d]
    BY <1>0, <2>1
  <2> QED BY <1>2, <2>2, <2>3, OwnersKept DEF GoStackAllocFails, Holds, Live, Unstarted
<1>3. CASE CleanExited
  <2>1. ASSUME NEW c \in Slots, coro[c].state = "EXITED"
        PROVE  ~ Live(c) /\ ~ Live(c)'
    BY <1>3, <2>1, SlotEffects DEF CleanExited, Finish, Live
  <2>2. ASSUME NEW c \in Slots, coro[c].state # "EXITED"
        PROVE  coro'[c] = coro[c] /\ frame'[c] = frame[c]
    BY <1>3, <2>2 DEF CleanExited
  <2>3. jobs' = jobs
    BY <1>3 DEF CleanExited
  <2> QED BY <2>1, <2>2, <2>3, OwnersKept DEF Holds, Live, Unstarted
<1>4. CASE MaybeExpireDeadlines \/ PollResume
  <2>1. PICK r \in [Slots -> SUBSET (PollBits \union Unrequested)] :
          coro' = [c \in Slots |-> MaybeResume(coro[c], clock, r[c])]
    <3>1. [c \in Slots |-> {}] \in [Slots -> SUBSET (PollBits \union Unrequested)]
      OBVIOUS
    <3> QED BY <1>0, <1>4, <3>1 DEF MaybeExpireDeadlines, PollResume, TypeOK
  <2>2. frame' = frame /\ jobs' = jobs
    BY <1>4 DEF MaybeExpireDeadlines, PollResume
  <2>3. ASSUME NEW c \in Slots
        PROVE  (Live(c)' <=> Live(c)) /\ coro'[c].opaque = coro[c].opaque
    <3>1. coro'[c] = MaybeResume(coro[c], clock, r[c])
      BY <2>1
    <3>2. coro[c] \in Coroutine /\ r[c] \in SUBSET (PollBits \union Unrequested)
      BY <1>0
    <3> QED BY <1>0, <3>1, <3>2, MaybeResumeEffect DEF Live, TimerExpired, IoResumable
  <2> QED BY <2>2, <2>3, OwnersKept DEF Holds, Unstarted
<1>5. CASE StartEntry
  <2> DEFINE j == coro[current].opaque
  <2>1. /\ current \in Slots /\ Live(current) /\ Unstarted(current)
        /\ frame' = [frame EXCEPT ![current] = NoFrame] /\ coro' = coro
        /\ jobs' = [jobs EXCEPT ![j] = "running"]
    BY <1>0, <1>5
    DEF StartEntry, SwitchTo, Inv, SlotsConsistent, CurrentConsistent, TypeOK, Runnable,
        Live, Unstarted
  <2>2. ~ Unstarted(current)'
    <3>1. frame'[current].at = "none"
      BY <1>0, <2>1, SlotEffects
    <3>2. current' = current
      BY <1>5 DEF StartEntry, SwitchTo
    <3> QED BY <3>1, <3>2 DEF Unstarted
  <2>3. current' = current
    BY <1>5 DEF StartEntry, SwitchTo
  <2>4. \A c \in Slots, i \in Jobs : Holds(c, i)' <=> Holds(c, i)
    BY <2>1 DEF Holds, Live
  <2>5. CASE j \in Jobs
    <3>1. \A c \in Slots : c # current => ~ Holds(c, j) /\ frame'[c] = frame[c]
      BY <1>0, <2>1, <2>5 DEF JobsHaveOneOwner, Holds
    <3>2. jobs'[j] = "running" /\ \A i \in Jobs : i # j => jobs'[i] = jobs[i]
      BY <1>0, <2>1, <2>5
    <3>3. \A i \in Jobs : i # j => ~ Holds(current, i)
      BY DEF Holds
    <3>4. Holds(current, j)
      BY <2>1 DEF Holds
    <3> HIDE DEF j
    <3> QED BY <2>1, <2>2, <2>3, <2>4, <2>5, <3>1, <3>2, <3>3, <3>4, OwnerChanged
  <2>6. CASE j \notin Jobs
    <3>1. jobs' = jobs
      BY <1>0, <2>1, <2>6
    <3>2. \A c \in Slots, i \in Jobs : Holds(c, i) => (Unstarted(c)' <=> Unstarted(c))
      BY <1>0, <2>1, <2>6 DEF Holds, Unstarted
    <3> QED BY <2>4, <3>1, <3>2, OwnersKept
  <2> QED BY <2>5, <2>6
<1>6. CASE ReturnFromYield \/ ResumeTimer \/ ResumeIo
  <2>1. /\ current \in Slots /\ ~ Unstarted(current) /\ current' = current
        /\ frame' = [frame EXCEPT ![current] = NoFrame] /\ jobs' = jobs
    BY <1>0, <1>6
    DEF ReturnFromYield, ResumeTimer, ResumeIo, SwitchTo, Inv, SlotsConsistent,
        CurrentConsistent, TypeOK, Runnable, Unstarted
  <2>2. ASSUME NEW c \in Slots
        PROVE  coro'[c].state = coro[c].state /\ coro'[c].opaque = coro[c].opaque
    BY <1>0, <1>6, <2>1, <2>2 DEF ReturnFromYield, ResumeTimer, ResumeIo, Coroutine
  <2>3. \A c \in Slots : Unstarted(c)' <=> Unstarted(c)
    BY <1>0, <2>1, SlotEffects DEF Unstarted
  <2> QED BY <2>1, <2>2, <2>3, OwnersKept DEF Holds, Live
<1>7. CASE CoroutineGivesBack
  <2>1. /\ current \in Slots /\ Live(current) /\ current' = current
        /\ frame[current].at = "none"
        /\ \A c \in Slots : c # current => coro'[c] = coro[c] /\ frame'[c] = frame[c]
    BY <1>0, <1>7
    DEF CoroutineGivesBack, Yield, Nanosleep, SuspendIo, EntryReturns, GiveBack, Inv,
        SlotsConsistent, CurrentConsistent, TypeOK, Runnable, Live, SlotConsistent, OnCpu
  <2>2. ASSUME ~ EntryReturns
        PROVE  /\ jobs' = jobs /\ coro'[current].opaque = coro[current].opaque
               /\ Live(current)' /\ ~ Unstarted(current)'
    <3>1. CASE Yield
      BY <1>0, <2>1, <3>1, SlotEffects DEF Yield, GiveBack, Live, Unstarted
    <3>2. ASSUME NEW d \in Durations, Nanosleep(d)
          PROVE  /\ jobs' = jobs /\ coro'[current].opaque = coro[current].opaque
                 /\ Live(current)' /\ ~ Unstarted(current)'
      BY <1>0, <2>1, <3>2
      DEF Nanosleep, GiveBack, SuspendedTimer, Coroutine, NoFrame, Live, Unstarted
    <3>3. ASSUME NEW s \in Fds, NEW e \in Requestable, NEW d \in Durations,
                 SuspendIo(s, e, d)
          PROVE  /\ jobs' = jobs /\ coro'[current].opaque = coro[current].opaque
                 /\ Live(current)' /\ ~ Unstarted(current)'
      BY <1>0, <2>1, <3>3
      DEF SuspendIo, GiveBack, SuspendedIo, Coroutine, Live, Unstarted
    <3> QED BY <1>7, <2>2, <3>1, <3>2, <3>3 DEF CoroutineGivesBack
  <2>3. CASE ~ EntryReturns
    <3>1. ~ Unstarted(current)
      BY <2>1 DEF Unstarted
    <3> QED BY <2>1, <2>2, <2>3, <3>1, OwnersKept DEF Holds, Live, Unstarted
  <2>4. CASE EntryReturns
    <3> DEFINE j == coro[current].opaque
    <3>1. /\ coro'[current].state = "EXITED"
          /\ jobs' = [jobs EXCEPT ![j] = "caller"]
      BY <1>0, <2>1, <2>4 DEF EntryReturns, Coroutine
    <3>2. ~ Live(current)'
      BY <2>1, <3>1 DEF Live
    <3>3. \A i \in Jobs : i # j => ~ Holds(current, i)
      BY DEF Holds
    <3>4. CASE j \in Jobs
      <4>1. \A c \in Slots : c # current => ~ Holds(c, j)
        BY <2>1, <3>4 DEF JobsHaveOneOwner, Holds
      <4>2. jobs'[j] = "caller" /\ \A i \in Jobs : i # j => jobs'[i] = jobs[i]
        BY <1>0, <3>1, <3>4
      <4>3. \A i \in Jobs : ~ Holds(current, i)'
        BY <2>1, <3>2 DEF Holds, Live
      <4> HIDE DEF j
      <4> QED BY <2>1, <3>3, <3>4, <4>1, <4>2, <4>3, OwnerChanged
    <3>5. CASE j \notin Jobs
      <4>1. jobs' = jobs
        BY <1>0, <3>1, <3>5
      <4>2. \A c \in Slots, i \in Jobs : Holds(c, i)' <=> Holds(c, i)
        BY <2>1, <3>2, <3>5 DEF Holds, Live
      <4>3. \A c \in Slots, i \in Jobs : Holds(c, i) => (Unstarted(c)' <=> Unstarted(c))
        BY <2>1, <3>5 DEF Holds, Unstarted
      <4> QED BY <4>1, <4>2, <4>3, OwnersKept
    <3> QED BY <3>4, <3>5
  <2> QED BY <2>3, <2>4
<1>8. CASE (\E j \in Jobs : GoNoSlot(j)) \/ Run \/ LoopEnds \/ PickRunnable \/ PickNothing
           \/ PollScan \/ PollEnter \/ PollOutcome \/ SwitchAborts \/ SwitchBack
           \/ Environment \/ UNCHANGED vars
  <2>1. coro' = coro /\ frame' = frame /\ jobs' = jobs
    BY <1>8
    DEF GoNoSlot, Run, LoopEnds, PickRunnable, PickNothing, PollScan, PollEnter,
        PollOutcome, PollReturns, PollInterrupted, PollFails, SwitchAborts, SwitchBack,
        Environment, Tick, ReadyChanges, runtime, vars
  <2> QED BY <2>1, OwnersKept DEF Holds, Live, Unstarted
<1> QED
  BY <1>1, <1>2, <1>3, <1>4, <1>5, <1>6, <1>7, <1>8, SwitchCases DEF Next, Go, LoopStep

(***************************************************************************)
(* From go to the return of its entry function, an opaque pointer belongs  *)
(* to exactly one live coroutine, and otherwise to the caller.             *)
(***************************************************************************)
THEOREM OneOwner == Spec => []JobsHaveOneOwner
<1>1. Init => JobsHaveOneOwner
  BY SlotEffects DEF Init, JobsHaveOneOwner, Holds, Live
<1> QED BY <1>1, InvInit, InvStep, OwnersStep, PTL DEF Spec

-----------------------------------------------------------------------------
(***************************************************************************)
(* The poll timeout fits the sleepers.                                     *)
(***************************************************************************)
LEMMA RoundedUp ==
    ASSUME NEW a \in Nat, NEW n \in Nat \ {0}
    PROVE  /\ (a \div n) + 1 \in Nat
           /\ ((a \div n) + 1) * n > a
           /\ ((a \div n) + 1) * n <= a + n
<1> DEFINE q == a \div n
<1>1. q \in Nat /\ q * n <= a /\ a < q * n + n
  OBVIOUS
<1> HIDE DEF q
<1>2. (q + 1) * n = q * n + n
  BY <1>1
<1> QED BY <1>1, <1>2 DEF q

LEMMA PollTimeoutBounds ==
    ASSUME NEW now \in U64, NEW d \in U64
    PROVE  LET rest == IF d > now THEN d - now ELSE 0
           IN /\ PollTimeout(now, d) * NsPerMs <= rest + NsPerMs
              /\ \/ PollTimeout(now, d) * NsPerMs > rest
                 \/ PollTimeout(now, d) = IntMax
<1> DEFINE rest == IF d > now THEN d - now ELSE 0
           ms == rest \div NsPerMs + 1
<1>1. rest \in Nat /\ NsPerMs \in Nat \ {0} /\ IntMax \in Nat
  BY SchedulerAssumption DEF U64
<1>2. ms \in Nat /\ ms * NsPerMs > rest /\ ms * NsPerMs <= rest + NsPerMs
  BY <1>1, RoundedUp
<1>3. PollTimeout(now, d) = IF ms < IntMax THEN ms ELSE IntMax
  BY DEF PollTimeout
<1> HIDE DEF rest, ms
<1>4. IntMax <= ms => IntMax * NsPerMs <= ms * NsPerMs
  BY <1>1, <1>2
<1>5. /\ PollTimeout(now, d) * NsPerMs <= rest + NsPerMs
      /\ \/ PollTimeout(now, d) * NsPerMs > rest
         \/ PollTimeout(now, d) = IntMax
  BY <1>1, <1>2, <1>3, <1>4
<1> QED BY <1>5 DEF rest

(***************************************************************************)
(* The timeout of poll is at most the millisecond it counts in longer than *)
(* what any sleeper asks for, and a poll that uses it up reaches the       *)
(* deadline of one of them, or the default one (block_on_poll).            *)
(***************************************************************************)
THEOREM TimeoutFits == Spec => PollTimeoutFits
<1> DEFINE wait == poll'.timeout * NsPerMs
           Fits == /\ \A c \in Slots : Blocked(c) => wait <= Remaining(c) + NsPerMs
                   /\ \/ \E c \in Slots : Blocked(c) /\ wait > Remaining(c)
                      \/ wait > SatAdd(clock, DefaultTimeout) - clock
                      \/ poll'.timeout = IntMax
<1>1. ASSUME Inv, PollScan, pc' = "enter" PROVE Fits
  <2>1. PICK d \in U64 : /\ IsNearest(d, clock)
                         /\ poll'.timeout = PollTimeout(clock, d)
    BY <1>1 DEF PollScan, Inv, TypeOK
  <2>2. clock \in U64 /\ \A c \in Slots : Blocked(c) => coro[c].deadline = frame[c].until
    BY <1>1, ConstantTypes DEF Inv, TypeOK, SlotsConsistent, SlotConsistent, Blocked
  <2> DEFINE rest == IF d > clock THEN d - clock ELSE 0
  <2>3. /\ wait <= rest + NsPerMs
        /\ wait > rest \/ poll'.timeout = IntMax
    BY <2>1, <2>2, PollTimeoutBounds
  <2>4. wait \in Nat /\ NsPerMs \in Nat
    BY <2>1, <2>2, PollTimeoutType, SchedulerAssumption
  <2>5. \A c \in Slots : frame[c].until \in Nat
    BY <1>1 DEF Inv, TypeOK, Frame, U64
  <2> HIDE DEF wait
  <2>6. ASSUME NEW c \in Slots, Blocked(c) PROVE wait <= Remaining(c) + NsPerMs
    <3>1. d <= frame[c].until
      BY <2>1, <2>2, <2>6 DEF IsNearest
    <3>2. rest <= Remaining(c) /\ rest \in Nat /\ Remaining(c) \in Nat
      BY <2>2, <2>5, <3>1 DEF Remaining, U64
    <3> QED BY <2>3, <2>4, <3>2
  <2>7. \/ \E c \in Slots : Blocked(c) /\ rest = Remaining(c)
        \/ rest >= SatAdd(clock, DefaultTimeout) - clock
    <3>1. CASE d = SatAdd(clock, DefaultTimeout)
      <4>1. clock \in Int /\ d \in Int
        BY <2>2 DEF U64
      <4>2. rest >= d - clock
        BY <4>1
      <4> QED BY <3>1, <4>2
    <3>2. ASSUME NEW c \in Slots, Blocked(c), d = coro[c].deadline
          PROVE  rest = Remaining(c)
      BY <2>2, <3>2 DEF Remaining
    <3> QED BY <2>1, <3>1, <3>2 DEF IsNearest
  <2>8. SatAdd(clock, DefaultTimeout) \in Nat /\ clock \in Nat /\ rest \in Nat
    BY <2>2, SatAddType, SchedulerAssumption DEF U64
  <2> HIDE DEF rest
  <2>9. \/ \E c \in Slots : Blocked(c) /\ wait > Remaining(c)
        \/ wait > SatAdd(clock, DefaultTimeout) - clock
        \/ poll'.timeout = IntMax
    BY <2>3, <2>4, <2>7, <2>8
  <2> QED BY <2>6, <2>9 DEF wait
<1>2. Inv /\ [Next]_vars => [PollScan /\ pc' = "enter" => Fits]_vars
  BY <1>1
<1>3. Spec => [][PollScan /\ pc' = "enter" => Fits]_vars
  BY <1>2, InvInit, InvStep, PTL DEF Spec
<1> QED BY <1>3 DEF PollTimeoutFits
-----------------------------------------------------------------------------
(***************************************************************************)
(* The refinement of Runtime.  Every live slot has a job, so that whoever  *)
(* is on the CPU is the coroutine of one.                                  *)
(***************************************************************************)
LiveHaveJobs == \A c \in Slots : Live(c) => coro[c].opaque \in Jobs

LEMMA LiveJobsStep == Inv /\ LiveHaveJobs /\ [Next]_vars => LiveHaveJobs'
<1> SUFFICES ASSUME Inv, LiveHaveJobs, [Next]_vars, NEW c \in Slots, Live(c)'
             PROVE  coro'[c].opaque \in Jobs
  BY DEF LiveHaveJobs
<1>0. /\ coro \in [Slots -> Coroutine] /\ clock \in U64
      /\ Live(c) => coro[c].opaque \in Jobs
  BY ConstantTypes DEF Inv, TypeOK, LiveHaveJobs
<1>1. ASSUME NEW j \in Jobs, GoCreates(j) PROVE coro'[c].opaque \in Jobs
  BY <1>0, <1>1, SlotEffects DEF GoCreates, Live
<1>2. ASSUME NEW j \in Jobs, GoStackAllocFails(j) PROVE coro'[c].opaque \in Jobs
  BY <1>0, <1>2, SlotEffects DEF GoStackAllocFails, Live
<1>3. CASE CleanExited
  BY <1>0, <1>3, SlotEffects DEF CleanExited, Finish, Live
<1>4. ASSUME NEW r \in SUBSET (PollBits \union Unrequested),
             coro'[c] = MaybeResume(coro[c], clock, r)
      PROVE  coro'[c].opaque \in Jobs
  <2>1. coro[c] \in Coroutine
    BY <1>0
  <2>2. /\ coro'[c].opaque = coro[c].opaque
        /\ Live(c)
    BY <1>0, <1>4, <2>1, MaybeResumeEffect DEF Live, TimerExpired, IoResumable
  <2> QED BY <1>0, <2>2
<1>5. CASE MaybeExpireDeadlines
  BY <1>4, <1>5 DEF MaybeExpireDeadlines
<1>6. CASE PollResume
  <2>1. poll.revents[c] \in SUBSET (PollBits \union Unrequested)
    BY DEF Inv, TypeOK
  <2> QED BY <1>4, <1>6, <2>1 DEF PollResume
<1>7. CASE StartEntry \/ ReturnFromYield \/ ResumeTimer \/ ResumeIo
  <2>1. coro'[c].opaque = coro[c].opaque /\ coro'[c].state = coro[c].state
    BY <1>0, <1>7 DEF StartEntry, ReturnFromYield, ResumeTimer, ResumeIo, Coroutine
  <2> QED BY <1>0, <2>1 DEF Live
<1>8. CASE CoroutineGivesBack
  <2>1. pc = "coro" /\ (c # current => coro'[c] = coro[c])
    <3>1. ASSUME NEW d \in Durations, Nanosleep(d)
          PROVE  pc = "coro" /\ (c # current => coro'[c] = coro[c])
      BY <1>0, <3>1 DEF Nanosleep, GiveBack
    <3>2. ASSUME NEW s \in Fds, NEW e \in Requestable, NEW d \in Durations,
                 SuspendIo(s, e, d)
          PROVE  pc = "coro" /\ (c # current => coro'[c] = coro[c])
      BY <1>0, <3>2 DEF SuspendIo, GiveBack
    <3>3. CASE Yield \/ EntryReturns
      BY <1>0, <3>3 DEF Yield, EntryReturns, GiveBack
    <3> QED BY <1>8, <3>1, <3>2, <3>3 DEF CoroutineGivesBack
  <2>2. coro'[c].opaque = coro[c].opaque
    <3>1. CASE c # current \/ Yield
      BY <2>1, <3>1 DEF Yield
    <3>2. ASSUME c = current, NEW d \in Durations, Nanosleep(d)
          PROVE  coro'[c].opaque = coro[c].opaque
      BY <1>0, <3>2 DEF Nanosleep, SuspendedTimer, Coroutine
    <3>3. ASSUME c = current, NEW s \in Fds, NEW e \in Requestable, NEW d \in Durations,
                 SuspendIo(s, e, d)
          PROVE  coro'[c].opaque = coro[c].opaque
      BY <1>0, <3>3 DEF SuspendIo, SuspendedIo, Coroutine
    <3>4. CASE c = current /\ EntryReturns
      BY <1>0, <3>4 DEF EntryReturns, Coroutine
    <3> QED BY <1>8, <3>1, <3>2, <3>3, <3>4 DEF CoroutineGivesBack
  <2>3. c = current => Live(c)
    BY <2>1 DEF Inv, SlotsConsistent, CurrentConsistent, Runnable, Live
  <2> QED BY <1>0, <2>1, <2>2, <2>3 DEF Live
<1>9. CASE (\E j \in Jobs : GoNoSlot(j)) \/ Run \/ LoopEnds \/ PickRunnable \/ PickNothing
           \/ PollScan \/ PollEnter \/ PollOutcome \/ SwitchAborts \/ SwitchBack
           \/ Environment \/ UNCHANGED vars
  <2>1. coro' = coro
    BY <1>9
    DEF GoNoSlot, Run, LoopEnds, PickRunnable, PickNothing, PollScan, PollEnter,
        PollOutcome, PollReturns, PollInterrupted, PollFails, SwitchAborts, SwitchBack,
        Environment, Tick, ReadyChanges, runtime, vars
  <2> QED BY <1>0, <2>1 DEF Live
<1> QED
  BY <1>1, <1>2, <1>3, <1>5, <1>6, <1>7, <1>8, <1>9, SwitchCases DEF Next, Go, LoopStep

PrI == Inv /\ NoEarlyWake /\ JobsHaveOneOwner /\ LiveHaveJobs

(***************************************************************************)
(* The coroutine of a job is in one slot; what it is doing is there.       *)
(***************************************************************************)
View(f) == [f EXCEPT !.at = Activity[f.at]]

LEMMA JobInSlot ==
    JobsHaveOneOwner =>
        \A j \in Jobs, c \in Slots :
            Holds(c, j) => /\ jobs[j] # "caller" /\ SlotOf(j) = c
                           /\ DoingOf(j) = View(frame[c])
<1> SUFFICES ASSUME JobsHaveOneOwner, NEW j \in Jobs, NEW c \in Slots, Holds(c, j)
             PROVE  /\ jobs[j] # "caller" /\ SlotOf(j) = c
                    /\ DoingOf(j) = View(frame[c])
  OBVIOUS
<1>1. jobs[j] # "caller"
  BY DEF JobsHaveOneOwner
<1>2. \A d \in Slots : Holds(d, j) => d = c
  BY <1>1 DEF JobsHaveOneOwner
<1>3. SlotOf(j) = c
  BY <1>2 DEF SlotOf
<1> QED BY <1>1, <1>3 DEF DoingOf, View

LEMMA SlotOfJob ==
    JobsHaveOneOwner =>
        \A j \in Jobs :
            jobs[j] # "caller" => SlotOf(j) \in Slots /\ Holds(SlotOf(j), j)
BY DEF JobsHaveOneOwner, SlotOf

LEMMA JobInSlotNext ==
    JobsHaveOneOwner' =>
        \A j \in Jobs, c \in Slots :
            Holds(c, j)' => /\ jobs'[j] # "caller" /\ SlotOf(j)' = c
                            /\ DoingOf(j)' = View(frame'[c])
<1> SUFFICES ASSUME JobsHaveOneOwner', NEW j \in Jobs, NEW c \in Slots, Holds(c, j)'
             PROVE  /\ jobs'[j] # "caller" /\ SlotOf(j)' = c
                    /\ DoingOf(j)' = View(frame'[c])
  OBVIOUS
<1>1. jobs'[j] # "caller"
  BY DEF JobsHaveOneOwner
<1>2. \A d \in Slots : Holds(d, j)' => d = c
  BY <1>1 DEF JobsHaveOneOwner
<1>3. SlotOf(j)' = c
  BY <1>2 DEF SlotOf
<1> QED BY <1>1, <1>3 DEF DoingOf, View

\* A step that leaves the slot of j alone, or does not change what matters there.
Kept(j) ==
    /\ jobs'[j] = "caller" <=> jobs[j] = "caller"
    /\ \A c \in Slots : Holds(c, j) => Holds(c, j)' /\ frame'[c] = frame[c]
SameSeen(j) == \A c \in Slots : Holds(c, j) => (SeenReady(c)' <=> SeenReady(c))

LEMMA JobKept ==
    ASSUME JobsHaveOneOwner, JobsHaveOneOwner', NEW j \in Jobs, Kept(j)
    PROVE  /\ DoingOf(j)' = DoingOf(j)
           /\ jobs[j] # "caller" =>
                /\ SlotOf(j) \in Slots /\ Holds(SlotOf(j), j)
                /\ SlotOf(j)' = SlotOf(j)
<1>1. CASE jobs[j] = "caller"
  BY <1>1 DEF DoingOf, Kept
<1>2. CASE jobs[j] # "caller"
  <2>1. PICK c \in Slots : c = SlotOf(j) /\ Holds(c, j)
    BY <1>2, SlotOfJob
  <2>2. Holds(c, j)' /\ frame'[c] = frame[c]
    BY <2>1 DEF Kept
  <2>3. SlotOf(j)' = c /\ DoingOf(j)' = View(frame'[c]) /\ DoingOf(j) = View(frame[c])
    BY <2>1, <2>2, JobInSlot, JobInSlotNext
  <2> QED BY <2>1, <2>2, <2>3
<1> QED BY <1>1, <1>2

LEMMA NoticedKept ==
    ASSUME JobsHaveOneOwner, JobsHaveOneOwner', NEW j \in Jobs, Kept(j), SameSeen(j)
    PROVE  j \in JobsNoticed' <=> j \in JobsNoticed
<1>1. CASE jobs[j] = "caller"
  BY <1>1 DEF JobsNoticed, Kept
<1>2. CASE jobs[j] # "caller"
  <2>1. PICK c \in Slots : c = SlotOf(j) /\ Holds(c, j) /\ SlotOf(j)' = c
    BY <1>2, JobKept
  <2>2. SeenReady(SlotOf(j))' <=> SeenReady(c)'
    BY <2>1 DEF SeenReady
  <2>3. SeenReady(c)' <=> SeenReady(c)
    BY <2>1 DEF SameSeen
  <2>4. jobs'[j] # "caller"
    BY <1>2 DEF Kept
  <2>5. j \in JobsNoticed' <=> SeenReady(SlotOf(j))'
    BY <2>4 DEF JobsNoticed
  <2> QED BY <1>2, <2>1, <2>2, <2>3, <2>5 DEF JobsNoticed
<1> QED BY <1>1, <1>2

\* A step that does so for every job.
LEMMA AllKept ==
    ASSUME JobsHaveOneOwner, JobsHaveOneOwner', \A j \in Jobs : Kept(j) /\ SameSeen(j)
    PROVE  JobsDoing' = JobsDoing /\ JobsNoticed' = JobsNoticed
<1>1. \A j \in Jobs : DoingOf(j)' = DoingOf(j)
  BY JobKept
<1>2. \A j \in Jobs : j \in JobsNoticed' <=> j \in JobsNoticed
  BY NoticedKept
<1>3. JobsNoticed \subseteq Jobs /\ JobsNoticed' \subseteq Jobs
  BY DEF JobsNoticed
<1> QED BY <1>1, <1>2, <1>3 DEF JobsDoing

\* A step that does so for every job but i.
LEMMA OthersKept ==
    ASSUME JobsHaveOneOwner, JobsHaveOneOwner', NEW i \in Jobs, NEW what,
           \A j \in Jobs : j # i => Kept(j) /\ SameSeen(j),
           DoingOf(i)' = what
    PROVE  /\ JobsDoing' = [JobsDoing EXCEPT ![i] = what]
           /\ \A j \in Jobs : j # i => (j \in JobsNoticed' <=> j \in JobsNoticed)
<1>1. \A j \in Jobs : j # i => DoingOf(j)' = DoingOf(j)
  BY JobKept
<1>2. \A j \in Jobs : j # i => (j \in JobsNoticed' <=> j \in JobsNoticed)
  BY NoticedKept
<1>3. JobsDoing' = [j \in Jobs |-> DoingOf(j)']
  BY DEF JobsDoing
<1>4. [JobsDoing EXCEPT ![i] = what]
        = [j \in Jobs |-> IF j = i THEN what ELSE DoingOf(j)]
  BY DEF JobsDoing
<1>5. [j \in Jobs |-> DoingOf(j)'] = [j \in Jobs |-> IF j = i THEN what ELSE DoingOf(j)]
  BY <1>1
<1> QED BY <1>2, <1>3, <1>4, <1>5

(***************************************************************************)
(* Who has the CPU in Runtime is on the CPU in Scheduler.                  *)
(***************************************************************************)
LEMMA OnCpuHasCpu ==
    ASSUME PrI, NEW c \in Slots, NEW j \in Jobs, Holds(c, j)
    PROVE  R!HasCpu(j) <=> OnCpu(c)
<1>1. /\ SlotConsistent(c) /\ frame[c] \in Frame
      /\ Live(c)
  BY DEF PrI, Inv, SlotsConsistent, TypeOK, Holds
<1>2. JobsDoing[j] = View(frame[c])
  BY JobInSlot DEF JobsDoing, PrI
<1>3. View(frame[c]).at = "running" <=> frame[c].at = "none"
  BY <1>1 DEF View, Activity, Frame
<1>4. frame[c].at = "none" <=> OnCpu(c)
  BY <1>1 DEF SlotConsistent, Live, PrI, Inv, TypeOK, Coroutine, States, OnCpu,
              SlotsConsistent, CurrentConsistent, Runnable
<1> QED BY <1>2, <1>3, <1>4 DEF R!HasCpu

LEMMA NobodyHasCpu ==
    ASSUME PrI, pc # "coro"
    PROVE  \A j \in Jobs : ~ R!HasCpu(j)
<1> SUFFICES ASSUME NEW j \in Jobs PROVE ~ R!HasCpu(j)
  OBVIOUS
<1>1. CASE jobs[j] = "caller"
  BY <1>1 DEF R!HasCpu, JobsDoing, DoingOf, At, NoFrame
<1>2. CASE jobs[j] # "caller"
  BY <1>2, SlotOfJob, OnCpuHasCpu DEF PrI, OnCpu
<1> QED BY <1>1, <1>2

\* The job of the coroutine that is current.
LEMMA CurrentJob ==
    ASSUME PrI, pc \in {"switch", "coro"}
    PROVE  /\ current \in Slots /\ Runnable(current)
           /\ coro[current].opaque \in Jobs
           /\ Holds(current, coro[current].opaque)
<1>1. current \in Slots /\ Runnable(current)
  BY DEF PrI, Inv, SlotsConsistent, CurrentConsistent, TypeOK
<1>2. Live(current)
  BY <1>1 DEF Runnable, Live
<1> QED BY <1>1, <1>2 DEF PrI, LiveHaveJobs, Holds

LEMMA ClientCanCall == PrI /\ InClient => R!CanCall
<1> SUFFICES ASSUME PrI, InClient PROVE R!CanCall
  OBVIOUS
<1>1. CASE pc = "main"
  BY <1>1 DEF R!CanCall, Phase
<1>2. CASE pc = "coro"
  BY <1>2, CurrentJob, OnCpuHasCpu DEF R!CanCall, OnCpu
<1> QED BY <1>1, <1>2 DEF InClient

-----------------------------------------------------------------------------
(***************************************************************************)
(* Steps that Runtime does not see: nobody starts or stops running, and    *)
(* nothing is noticed.                                                     *)
(***************************************************************************)
LEMMA SeenKept ==
    ASSUME NEW c \in Slots, coro'[c] = coro[c], frame'[c] = frame[c],
           pc # "resume", pc' # "resume"
    PROVE  SeenReady(c)' <=> SeenReady(c)
BY DEF SeenReady, Runnable, IoResult

\* maybe_resume with nothing reported only lets deadlines pass.
LEMMA SeenExpired ==
    ASSUME Inv, NEW c \in Slots, frame'[c] = frame[c], pc # "resume", pc' # "resume",
           coro'[c] = MaybeResume(coro[c], clock, {})
    PROVE  SeenReady(c)' <=> SeenReady(c)
<1>1. coro[c] \in Coroutine /\ clock \in U64 /\ SlotConsistent(c)
  BY ConstantTypes DEF Inv, TypeOK, SlotsConsistent
<1>2. CASE TimerExpired(coro[c], clock)
  <2>1. frame[c].at = "timer"
    BY <1>1, <1>2 DEF TimerExpired, SlotConsistent
  <2> QED BY <2>1 DEF SeenReady
<1>3. CASE IoResumable(coro[c], clock, {})
  <2>1. coro'[c].revents = {} /\ coro[c].state = "IO"
    BY <1>1, <1>3, MaybeResumeEffect DEF IoResumable
  <2> QED BY <2>1 DEF SeenReady, IoResult, Runnable
<1>4. CASE ~ TimerExpired(coro[c], clock) /\ ~ IoResumable(coro[c], clock, {})
  <2>1. coro'[c] = coro[c]
    BY <1>1, <1>4, MaybeResumeEffect
  <2> QED BY <2>1, SeenKept
<1> QED BY <1>2, <1>3, <1>4

\* The slot's fields change, but not whose coroutine it holds.
LEMMA ResumedHolds ==
    ASSUME Inv, NEW c \in Slots, NEW r \in SUBSET (PollBits \union Unrequested),
           coro'[c] = MaybeResume(coro[c], clock, r), NEW j
    PROVE  Holds(c, j)' <=> Holds(c, j)
<1>1. coro[c] \in Coroutine /\ clock \in U64
  BY ConstantTypes DEF Inv, TypeOK
<1> QED BY <1>1, MaybeResumeEffect DEF Holds, Live, TimerExpired, IoResumable

Unseen ==
    \/ CleanExited \/ MaybeExpireDeadlines \/ PickRunnable \/ PickNothing \/ PollScan
    \/ PollEnter \/ PollInterrupted \/ PollFails \/ SwitchBack

LEMMA UnseenStep ==
    ASSUME PrI, PrI', Unseen
    PROVE  UNCHANGED R!promise
<1> USE DEF PrI
<1>1. /\ jobs' = jobs /\ UNCHANGED <<ret, clock, ready>>
      /\ pc \notin {"main", "done", "resume"} /\ pc' \notin {"main", "done", "resume"}
  BY DEF Unseen, CleanExited, MaybeExpireDeadlines, PickRunnable, PickNothing, PollScan,
         PollEnter, PollInterrupted, PollFails, SwitchBack
<1>2. ASSUME NEW j \in Jobs, NEW c \in Slots, Holds(c, j)
      PROVE  Holds(c, j)' /\ frame'[c] = frame[c] /\ (SeenReady(c)' <=> SeenReady(c))
  <2>1. CASE CleanExited
    <3>1. coro'[c] = coro[c] /\ frame'[c] = frame[c]
      BY <1>2, <2>1 DEF CleanExited, Holds, Live
    <3> QED BY <1>1, <1>2, <3>1, SeenKept DEF Holds, Live
  <2>2. CASE MaybeExpireDeadlines
    <3>1. /\ coro'[c] = MaybeResume(coro[c], clock, {}) /\ frame'[c] = frame[c]
          /\ {} \in SUBSET (PollBits \union Unrequested)
      BY <2>2 DEF MaybeExpireDeadlines
    <3> QED BY <1>1, <1>2, <3>1, SeenExpired, ResumedHolds
  <2>3. CASE Unseen /\ ~ CleanExited /\ ~ MaybeExpireDeadlines
    <3>1. coro' = coro /\ frame' = frame
      BY <2>3 DEF Unseen, PickRunnable, PickNothing, PollScan, PollEnter, PollInterrupted,
                  PollFails, SwitchBack
    <3> QED BY <1>1, <1>2, <3>1, SeenKept DEF Holds, Live
  <2> QED BY <2>1, <2>2, <2>3
<1>3. \A j \in Jobs : Kept(j) /\ SameSeen(j)
  BY <1>1, <1>2 DEF Kept, SameSeen
<1>4. JobsDoing' = JobsDoing /\ JobsNoticed' = JobsNoticed
  BY <1>3, AllKept
<1>5. Phase' = Phase
  BY <1>1 DEF Phase
<1> QED BY <1>1, <1>4, <1>5 DEF R!promise

(***************************************************************************)
(* go, run and its return, and what happens beside the thread.             *)
(***************************************************************************)
\* Nothing changes in a slot, and no poll returns.
LEMMA SlotsUntouched ==
    ASSUME PrI, PrI', jobs' = jobs, coro' = coro, frame' = frame, poll' = poll,
           (pc = "resume") <=> (pc' = "resume")
    PROVE  JobsDoing' = JobsDoing /\ JobsNoticed' = JobsNoticed
<1>1. \A j \in Jobs : Kept(j) /\ SameSeen(j)
  BY DEF Kept, SameSeen, Holds, Live, SeenReady, Runnable, IoResult
<1> QED BY <1>1, AllKept DEF PrI

LEMMA GoStep ==
    ASSUME PrI, PrI', NEW i \in Jobs,
           GoCreates(i) \/ GoStackAllocFails(i) \/ GoNoSlot(i)
    PROVE  R!Start(i)
<1> USE DEF PrI
<1>1. /\ InClient /\ jobs[i] = "caller"
      /\ UNCHANGED <<pc, clock, ready, poll>>
  BY DEF GoCreates, GoStackAllocFails, GoNoSlot
<1>2. R!CanCall /\ JobsDoing[i] = R!Idle
  BY <1>1, ClientCanCall
  DEF JobsDoing, DoingOf, At, NoFrame, R!Idle, R!Doing, InvalidSocket
<1>3. Phase' = Phase /\ pc # "resume"
  BY <1>1 DEF Phase, InClient
<1>4. CASE GoCreates(i)
  <2>1. PICK c \in Slots : /\ FirstFree(c)
                           /\ coro' = [coro EXCEPT ![c] = Fresh(i)]
                           /\ frame' = [frame EXCEPT ![c] = At("main")]
    BY <1>4 DEF GoCreates
  <2>2. /\ jobs' = [jobs EXCEPT ![i] = "queued"] /\ ret' = "OK"
        /\ coro \in [Slots -> Coroutine] /\ frame \in [Slots -> Frame]
        /\ jobs \in [Jobs -> {"caller", "queued", "running"}]
    BY <1>4 DEF GoCreates, Inv, TypeOK
  <2>3. Holds(c, i)' /\ frame'[c] = At("main")
    BY <2>1, <2>2, SlotEffects DEF Holds, Live
  <2>4. ASSUME NEW j \in Jobs, j # i PROVE Kept(j) /\ SameSeen(j)
    <3>1. ASSUME NEW d \in Slots, Holds(d, j)
          PROVE  /\ coro'[d] = coro[d] /\ frame'[d] = frame[d] /\ Holds(d, j)'
                 /\ SeenReady(d)' <=> SeenReady(d)
      <4>1. coro'[d] = coro[d] /\ frame'[d] = frame[d]
        BY <2>1, <2>2, <3>1 DEF FirstFree, FreeSlot, Holds, Live
      <4> QED BY <1>1, <1>3, <3>1, <4>1, SeenKept DEF Holds, Live
    <3>2. jobs'[j] = jobs[j]
      BY <2>2, <2>4
    <3> QED BY <3>1, <3>2 DEF Kept, SameSeen
  <2>5. DoingOf(i)' = R!Doing("queued")
    BY <2>3, JobInSlotNext DEF View, Activity, At, NoFrame, R!Doing, InvalidSocket
  <2>6. /\ JobsDoing' = [JobsDoing EXCEPT ![i] = R!Doing("queued")]
        /\ \A j \in Jobs : j # i => (j \in JobsNoticed' <=> j \in JobsNoticed)
    BY <2>4, <2>5, OthersKept
  <2>7. i \notin JobsNoticed /\ i \notin JobsNoticed'
    <3>1. SlotOf(i)' = c
      BY <2>3, JobInSlotNext
    <3>2. ~ SeenReady(SlotOf(i))'
      BY <2>3, <3>1 DEF SeenReady, At, NoFrame
    <3>3. i \in JobsNoticed' => SeenReady(SlotOf(i))'
      BY DEF JobsNoticed
    <3>4. i \notin JobsNoticed
      BY <1>1 DEF JobsNoticed
    <3> QED BY <3>2, <3>3, <3>4
  <2>8. JobsNoticed' = JobsNoticed
    BY <2>6, <2>7 DEF JobsNoticed
  <2> QED BY <1>1, <1>2, <1>3, <2>2, <2>6, <2>8 DEF R!Start, R!Becomes
<1>5. CASE GoStackAllocFails(i) \/ GoNoSlot(i)
  <2>1. jobs' = jobs /\ ret' \in {"EAGAIN", "ENOMEM"}
    BY <1>5 DEF GoStackAllocFails, GoNoSlot
  <2>2. ASSUME NEW d \in Slots, Live(d)
        PROVE  coro'[d] = coro[d] /\ frame'[d] = frame[d]
    BY <1>5, <2>2 DEF GoStackAllocFails, GoNoSlot, FirstFree, FreeSlot, Live, Inv, TypeOK
  <2>3. \A j \in Jobs : Kept(j) /\ SameSeen(j)
    BY <1>1, <1>3, <2>1, <2>2, SeenKept DEF Kept, SameSeen, Holds, Live
  <2>4. JobsDoing' = JobsDoing /\ JobsNoticed' = JobsNoticed
    BY <2>3, AllKept
  <2> QED BY <1>1, <1>2, <1>3, <2>1, <2>4 DEF R!Start
<1> QED BY <1>4, <1>5

LEMMA RunSteps ==
    ASSUME PrI, PrI'
    PROVE  /\ Run => R!StartRun
           /\ LoopEnds => R!EndRun
           /\ Environment => R!Passes
<1> USE DEF PrI
<1>1. ASSUME Run PROVE R!StartRun
  <2>1. pc = "main" /\ pc' = "loop" /\ ret' = "none" /\ UNCHANGED <<clock, ready>>
    BY <1>1 DEF Run, Inv, SlotsConsistent, CurrentConsistent
  <2>2. JobsDoing' = JobsDoing /\ JobsNoticed' = JobsNoticed
    BY <1>1, <2>1, SlotsUntouched DEF Run
  <2> QED BY <2>1, <2>2 DEF R!StartRun, Phase
<1>2. ASSUME LoopEnds PROVE R!EndRun
  <2>1. pc = "loop" /\ pc' = "done" /\ AllNull /\ UNCHANGED <<ret, clock, ready>>
    BY <1>2 DEF LoopEnds
  <2>2. JobsDoing' = JobsDoing /\ JobsNoticed' = JobsNoticed
    BY <1>2, <2>1, SlotsUntouched DEF LoopEnds
  <2>3. ASSUME NEW j \in Jobs PROVE JobsDoing[j] = R!Idle
    <3>1. jobs[j] = "caller"
      BY <2>1, SlotOfJob DEF AllNull, Holds, Live
    <3> QED BY <3>1 DEF JobsDoing, DoingOf, At, NoFrame, R!Idle, R!Doing, InvalidSocket
  <2> QED BY <2>1, <2>2, <2>3 DEF R!EndRun, Phase
<1>3. ASSUME Environment PROVE R!Passes
  <2>1. UNCHANGED runtime
    BY <1>3 DEF Environment, Tick, ReadyChanges
  <2>2. JobsDoing' = JobsDoing /\ JobsNoticed' = JobsNoticed
    BY <2>1, SlotsUntouched DEF runtime
  <2>3. \/ clock' = clock + 1 /\ UNCHANGED ready
        \/ ready' \in [Fds -> SUBSET PollBits] /\ UNCHANGED clock
    BY <1>3 DEF Environment, Tick, ReadyChanges, Inv, TypeOK
  <2>4. Phase' = Phase /\ UNCHANGED ret
    BY <2>1 DEF Phase, runtime
  <2> QED BY <2>2, <2>3, <2>4 DEF R!Passes
<1> QED BY <1>1, <1>2, <1>3

-----------------------------------------------------------------------------
(***************************************************************************)
(* The runtime looks at the descriptors when poll returns, and may forget  *)
(* what it saw when it resumes the coroutines.                             *)
(***************************************************************************)
LEMMA LooksStep ==
    ASSUME PrI, PrI', jobs' = jobs, UNCHANGED <<ret, clock, ready>>,
           pc \notin {"main", "done", "coro"}, pc' \notin {"main", "done", "coro"},
           \A j \in Jobs : Kept(j),
           \A j \in Jobs, c \in Slots :
               Holds(c, j) /\ SeenReady(c)' => SeenReady(c) \/ R!IsReady(j)
    PROVE  R!Looks
<1> USE DEF PrI
<1>1. /\ Phase = "run" /\ Phase' = "run"
      /\ \A k \in Jobs : ~ R!HasCpu(k)
  BY NobodyHasCpu DEF Phase
<1>2. JobsDoing' = JobsDoing
  BY JobKept DEF JobsDoing
<1>3. ASSUME NEW j \in JobsNoticed' PROVE j \in JobsNoticed \/ R!IsReady(j)
  <2>1. j \in Jobs /\ jobs[j] # "caller" /\ SeenReady(SlotOf(j))'
    BY DEF JobsNoticed
  <2>2. PICK c \in Slots : c = SlotOf(j) /\ Holds(c, j) /\ SlotOf(j)' = c
    BY <2>1, JobKept
  <2>3. SeenReady(SlotOf(j))' <=> SeenReady(c)'
    BY <2>2 DEF SeenReady
  <2> QED BY <2>1, <2>2, <2>3 DEF JobsNoticed
<1>4. JobsNoticed' \in SUBSET (JobsNoticed \union {j \in Jobs : R!IsReady(j)})
  BY <1>3 DEF JobsNoticed
<1> QED BY <1>1, <1>2, <1>4 DEF R!Looks

LEMMA PollReturnsStep ==
    ASSUME PrI, PrI', PollReturns
    PROVE  R!Looks
<1> USE DEF PrI
<1>1. /\ pc = "wait" /\ pc' = "resume" /\ UNCHANGED <<coro, frame, jobs, ret, clock, ready>>
      /\ poll'.revents = [c \in Slots |-> Reported(c)]
  BY DEF PollReturns, Inv, TypeOK
<1>2. \A j \in Jobs : Kept(j)
  BY <1>1 DEF Kept, Holds, Live
<1>3. ASSUME NEW j \in Jobs, NEW c \in Slots, Holds(c, j), SeenReady(c)'
      PROVE  SeenReady(c) \/ R!IsReady(j)
  <2>1. CASE Runnable(c) /\ IoResult(coro[c], frame[c].events) = "OK"
    BY <1>1, <1>3, <2>1 DEF SeenReady
  <2>2. CASE coro[c].state = "IO" /\ poll'.revents[c] \intersect (coro[c].events \union {"err"}) # {}
    <3>1. /\ frame[c].at = "io" /\ coro[c].sock = frame[c].sock
          /\ coro[c].events = frame[c].events
      BY <2>2 DEF Inv, SlotsConsistent, SlotConsistent
    <3>2. poll'.revents[c] \subseteq ready[coro[c].sock]
      BY <1>1, <2>2 DEF Reported, PollFd
    <3>3. JobsDoing[j] = View(frame[c]) /\ frame[c] \in Frame
      BY <1>3, JobInSlot DEF JobsDoing, Inv, TypeOK
    <3>4. /\ JobsDoing[j].at = "waiting" /\ JobsDoing[j].sock = frame[c].sock
          /\ JobsDoing[j].events = frame[c].events
      BY <3>1, <3>3 DEF View, Activity, Frame
    <3> QED BY <2>2, <3>1, <3>2, <3>4 DEF R!IsReady
  <2>3. \/ Runnable(c)' /\ IoResult(coro[c], frame[c].events)' = "OK"
        \/ coro'[c].state = "IO" /\ poll'.revents[c] \intersect (coro'[c].events \union {"err"}) # {}
    BY <1>3 DEF SeenReady
  <2>4. (Runnable(c)' <=> Runnable(c))
        /\ IoResult(coro[c], frame[c].events)' = IoResult(coro[c], frame[c].events)
    BY <1>1 DEF Runnable, IoResult
  <2> QED BY <1>1, <2>1, <2>2, <2>3, <2>4
<1> QED BY <1>1, <1>2, <1>3, LooksStep

LEMMA PollResumeStep ==
    ASSUME PrI, PrI', PollResume
    PROVE  R!Looks
<1> USE DEF PrI
<1>1. /\ pc = "resume" /\ pc' = "loop" /\ UNCHANGED <<frame, jobs, ret, clock, ready>>
      /\ \A c \in Slots : coro'[c] = MaybeResume(coro[c], clock, poll.revents[c])
      /\ \A c \in Slots : /\ poll.revents[c] \in SUBSET (PollBits \union Unrequested)
                          /\ coro[c] \in Coroutine
      /\ clock \in U64
  BY ConstantTypes DEF PollResume, Inv, TypeOK
<1>2. \A j \in Jobs : Kept(j)
  BY <1>1, ResumedHolds DEF Kept
<1>3. ASSUME NEW c \in Slots, SeenReady(c)' PROVE SeenReady(c)
  <2> DEFINE reported == poll.revents[c]
  <2>1. /\ frame[c].at = "io" /\ coro'[c].state = "RUNNABLE"
        /\ \/ coro'[c].revents \intersect frame[c].events # {}
           \/ "err" \in coro'[c].revents
    BY <1>1, <1>3 DEF SeenReady, Runnable, IoResult
  <2>2. SlotConsistent(c)
    BY DEF Inv, SlotsConsistent
  <2>3. CASE TimerExpired(coro[c], clock)
    BY <2>1, <2>2, <2>3 DEF TimerExpired, SlotConsistent
  <2>4. CASE IoResumable(coro[c], clock, reported)
    <3>1. coro[c].state = "IO" /\ coro[c].events = frame[c].events
      BY <2>2, <2>4 DEF IoResumable, SlotConsistent
    <3>2. coro'[c].revents = reported
      BY <1>1, <2>4, MaybeResumeEffect
    <3> QED BY <1>1, <2>1, <3>1, <3>2 DEF SeenReady
  <2>5. CASE ~ TimerExpired(coro[c], clock) /\ ~ IoResumable(coro[c], clock, reported)
    <3>1. coro'[c] = coro[c]
      BY <1>1, <2>5, MaybeResumeEffect
    <3> QED BY <2>1, <3>1 DEF SeenReady, Runnable, IoResult
  <2> QED BY <2>3, <2>4, <2>5
<1> QED BY <1>1, <1>2, <1>3, LooksStep

-----------------------------------------------------------------------------
(***************************************************************************)
(* The current coroutine goes on, or gives the CPU back.                   *)
(***************************************************************************)
LEMMA CurrentChanges ==
    ASSUME PrI, PrI', pc \in {"switch", "coro"}, pc' \in {"coro", "back"},
           \A c \in Slots : c # current => coro'[c] = coro[c] /\ frame'[c] = frame[c],
           NEW i \in Jobs, i = coro[current].opaque,
           \A j \in Jobs : j # i => jobs'[j] = jobs[j],
           NEW what, DoingOf(i)' = what, i \notin JobsNoticed'
    PROVE  /\ JobsDoing' = [JobsDoing EXCEPT ![i] = what]
           /\ JobsNoticed' = JobsNoticed \ {i}
           /\ Phase = "run" /\ Phase' = "run"
<1> USE DEF PrI
<1>1. ASSUME NEW j \in Jobs, j # i PROVE Kept(j) /\ SameSeen(j)
  <2>1. ASSUME NEW c \in Slots, Holds(c, j)
        PROVE  Holds(c, j)' /\ frame'[c] = frame[c] /\ (SeenReady(c)' <=> SeenReady(c))
    <3>1. c # current
      BY <1>1, <2>1 DEF Holds
    <3> QED BY <2>1, <3>1, SeenKept DEF Holds, Live
  <2> QED BY <1>1, <2>1 DEF Kept, SameSeen
<1>2. /\ JobsDoing' = [JobsDoing EXCEPT ![i] = what]
      /\ \A j \in Jobs : j # i => (j \in JobsNoticed' <=> j \in JobsNoticed)
  BY <1>1, OthersKept
<1>3. JobsNoticed' = JobsNoticed \ {i}
  BY <1>2 DEF JobsNoticed
<1> QED BY <1>2, <1>3 DEF Phase

LEMMA SwitchStep ==
    ASSUME PrI, PrI', Switch, NEW i \in Jobs, i = coro[current].opaque
    PROVE  R!Resumes(i)
<1> USE DEF PrI
<1>1. ~ SwitchAborts
  BY DEF SwitchAborts, Inv, NoAssertFires
<1>2. StartEntry \/ ReturnFromYield \/ ResumeTimer \/ ResumeIo
  BY <1>1, SwitchCases
<1>3. /\ pc = "switch" /\ pc' = "coro" /\ UNCHANGED <<current, clock, ready>>
      /\ frame' = [frame EXCEPT ![current] = NoFrame]
  BY <1>2 DEF StartEntry, ReturnFromYield, ResumeTimer, ResumeIo, SwitchTo
<1>4. current \in Slots /\ Runnable(current) /\ Holds(current, i)
  BY <1>3, CurrentJob
<1>5. /\ coro \in [Slots -> Coroutine] /\ frame \in [Slots -> Frame]
      /\ jobs \in [Jobs -> {"caller", "queued", "running"}]
      /\ WokenOnTime(current)
  BY <1>4 DEF Inv, TypeOK, NoEarlyWake
<1>6. /\ coro'[current].opaque = i /\ coro'[current].state = coro[current].state
      /\ \A c \in Slots : c # current => coro'[c] = coro[c]
  BY <1>2, <1>4, <1>5 DEF StartEntry, ReturnFromYield, ResumeTimer, ResumeIo, Coroutine
<1>7. \A j \in Jobs : j # i => jobs'[j] = jobs[j]
  BY <1>2, <1>5 DEF StartEntry, ReturnFromYield, ResumeTimer, ResumeIo
<1>8. frame'[current] = NoFrame /\ \A c \in Slots : c # current => frame'[c] = frame[c]
  BY <1>3, <1>4, <1>5
<1>9. PICK c \in Slots : c = current
  BY <1>4
<1>10. DoingOf(i)' = R!Running /\ SlotOf(i)' = current
  <2>0. Holds(c, i)'
    BY <1>4, <1>6, <1>9 DEF Holds, Live
  <2>1. DoingOf(i)' = View(frame'[c]) /\ SlotOf(i)' = c
    BY <2>0, JobInSlotNext
  <2>2. View(NoFrame) = R!Running
    BY DEF View, Activity, NoFrame, R!Running, R!Doing, InvalidSocket
  <2> QED BY <1>8, <1>9, <2>1, <2>2
<1>11. i \notin JobsNoticed'
  <2>1. ~ SeenReady(SlotOf(i))'
    BY <1>3, <1>8, <1>10 DEF SeenReady, NoFrame
  <2>2. i \in JobsNoticed' => SeenReady(SlotOf(i))'
    BY DEF JobsNoticed
  <2> QED BY <2>1, <2>2
<1>12. /\ JobsDoing' = [JobsDoing EXCEPT ![i] = R!Running]
       /\ JobsNoticed' = JobsNoticed \ {i}
       /\ Phase = "run" /\ Phase' = "run"
  BY <1>3, <1>4, <1>6, <1>7, <1>8, <1>10, <1>11, CurrentChanges
<1>13. \A k \in Jobs : ~ R!HasCpu(k)
  BY <1>3, NobodyHasCpu
<1>14. JobsDoing[i] = View(frame[current]) /\ frame[current] \in Frame
  BY <1>4, <1>5, JobInSlot DEF JobsDoing
<1>15. /\ JobsDoing[i].at = Activity[frame[current].at]
       /\ JobsDoing[i].until = frame[current].until
  BY <1>14 DEF View, Frame
<1>16. \/ JobsDoing[i].at \in {"queued", "paused"} /\ ret' = "none"
       \/ JobsDoing[i].at = "asleep" /\ clock >= JobsDoing[i].until /\ ret' = "none"
       \/ JobsDoing[i].at = "waiting" /\ i \in JobsNoticed /\ ret' = "OK"
       \/ JobsDoing[i].at = "waiting" /\ clock >= JobsDoing[i].until /\ ret' = "ETIMEDOUT"
  <2>1. CASE StartEntry
    BY <1>15, <2>1 DEF StartEntry, SwitchTo, Activity
  <2>2. CASE ReturnFromYield
    BY <1>15, <2>2 DEF ReturnFromYield, SwitchTo, Activity
  <2>3. CASE ResumeTimer
    <3>1. frame[current].at = "timer" /\ ret' = "none"
      BY <2>3 DEF ResumeTimer, SwitchTo
    <3>2. clock >= frame[current].until
      BY <1>4, <1>5, <3>1 DEF WokenOnTime
    <3> QED BY <1>15, <3>1, <3>2 DEF Activity
  <2>4. CASE ResumeIo
    <3>1. /\ frame[current].at = "io"
          /\ ret' = IoResult(coro[current], frame[current].events)
      BY <2>4 DEF ResumeIo, SwitchTo
    <3>2. JobsDoing[i].at = "waiting"
      BY <1>15, <3>1 DEF Activity
    <3>3. CASE ret' = "OK"
      <4>1. SeenReady(current)
        BY <1>4, <3>1, <3>3 DEF SeenReady
      <4>2. i \in JobsNoticed
        BY <1>4, <4>1, JobInSlot DEF JobsNoticed
      <4> QED BY <3>2, <3>3, <4>2
    <3>4. CASE ret' # "OK"
      <4>1. clock >= frame[current].until
        BY <1>4, <1>5, <3>1, <3>4 DEF WokenOnTime
      <4>2. ret' = "ETIMEDOUT"
        BY <3>1, <3>4 DEF IoResult
      <4> QED BY <1>15, <3>2, <4>1, <4>2
    <3> QED BY <3>3, <3>4
  <2> QED BY <1>2, <2>1, <2>2, <2>3, <2>4
<1>17. UNCHANGED <<clock, ready>>
  BY <1>3
<1> QED BY <1>12, <1>13, <1>16, <1>17 DEF R!Resumes, R!Becomes

\* Whatever it saves in its frame, it loses the CPU and nothing was noticed.
LEMMA GaveBack ==
    ASSUME PrI, PrI', pc = "coro", pc' = "back", current' = current,
           UNCHANGED <<clock, ready>>, ret' = "none",
           \A c \in Slots : c # current => coro'[c] = coro[c] /\ frame'[c] = frame[c],
           NEW i \in Jobs, i = coro[current].opaque,
           \A j \in Jobs : j # i => jobs'[j] = jobs[j],
           NEW what, DoingOf(i)' = what, i \notin JobsNoticed'
    PROVE  /\ R!HasCpu(i) /\ R!Becomes(i, what) /\ ret' = "none"
           /\ UNCHANGED <<Phase, JobsNoticed, clock, ready>>
<1> USE DEF PrI
<1>1. current \in Slots /\ Holds(current, i) /\ OnCpu(current) /\ SlotConsistent(current)
  BY CurrentJob DEF OnCpu, Inv, SlotsConsistent
<1>2. R!HasCpu(i)
  BY <1>1, OnCpuHasCpu
<1>3. i \notin JobsNoticed
  <2>1. frame[current].at = "none"
    BY <1>1, CurrentJob DEF SlotConsistent, Runnable
  <2>2. ~ SeenReady(current)
    BY <2>1 DEF SeenReady
  <2>3. SlotOf(i) = current
    BY <1>1, JobInSlot
  <2> QED BY <2>2, <2>3 DEF JobsNoticed
<1>4. /\ JobsDoing' = [JobsDoing EXCEPT ![i] = what]
      /\ JobsNoticed' = JobsNoticed \ {i}
      /\ Phase' = Phase
  BY CurrentChanges
<1> QED BY <1>2, <1>3, <1>4 DEF R!Becomes

\* It suspends: its slot still holds its job.
LEMMA Suspends ==
    ASSUME PrI, PrI', NEW f, GiveBack(f), jobs' = jobs,
           NEW c \in Slots, c = current, coro' = [coro EXCEPT ![c] = coro'[c]],
           NEW i \in Jobs, i = coro[c].opaque,
           coro'[c].opaque = i, Live(c)',
           f.at = "io" => coro'[c].state = "IO"
    PROVE  /\ R!HasCpu(i) /\ R!Becomes(i, View(f)) /\ ret' = "none"
           /\ UNCHANGED <<Phase, JobsNoticed, clock, ready>>
<1> USE DEF PrI
<1>1. /\ pc = "coro" /\ pc' = "back" /\ ret' = "none" /\ UNCHANGED <<current, clock, ready>>
      /\ frame' = [frame EXCEPT ![current] = f]
  BY DEF GiveBack
<1>3. /\ \A d \in Slots : d # current => coro'[d] = coro[d] /\ frame'[d] = frame[d]
      /\ frame'[c] = f
  BY <1>1 DEF Inv, TypeOK
<1>4. Holds(c, i)'
  BY DEF Holds
<1>5. DoingOf(i)' = View(f) /\ SlotOf(i)' = c
  BY <1>3, <1>4, JobInSlotNext
<1>6. i \notin JobsNoticed'
  <2>1. ~ SeenReady(SlotOf(i))'
    BY <1>1, <1>3, <1>5 DEF SeenReady, Runnable
  <2>2. i \in JobsNoticed' => SeenReady(SlotOf(i))'
    BY DEF JobsNoticed
  <2> QED BY <2>1, <2>2
<1> QED BY <1>1, <1>3, <1>5, <1>6, GaveBack

LEMMA ViewOf ==
    ASSUME NEW a, NEW u, NEW s, NEW E, NEW f,
           f = [at |-> a, until |-> u, sock |-> s, events |-> E]
    PROVE  View(f) = [at |-> Activity[a], until |-> u, sock |-> s, events |-> E]
BY DEF View

LEMMA SleeperView ==
    ASSUME NEW u, NEW f, f = [At("timer") EXCEPT !.until = u]
    PROVE  View(f) = [R!Doing("asleep") EXCEPT !.until = u]
<1>1. At("timer") = [at |-> "timer", until |-> 0, sock |-> -1, events |-> {}]
  BY DEF At, NoFrame, InvalidSocket
<1>2. f = [at |-> "timer", until |-> u, sock |-> -1, events |-> {}]
  BY <1>1
<1>3. View(f) = [at |-> Activity["timer"], until |-> u, sock |-> -1, events |-> {}]
  BY <1>2, ViewOf
<1>4. R!Doing("asleep") = [at |-> "asleep", until |-> 0, sock |-> -1, events |-> {}]
  BY DEF R!Doing
<1>5. [R!Doing("asleep") EXCEPT !.until = u]
        = [at |-> "asleep", until |-> u, sock |-> -1, events |-> {}]
  BY <1>4
<1>6. Activity["timer"] = "asleep"
  BY DEF Activity
<1> QED BY <1>3, <1>5, <1>6

LEMMA WaiterView ==
    ASSUME NEW u, NEW s, NEW E, NEW f, f = [at |-> "io", until |-> u, sock |-> s, events |-> E]
    PROVE  View(f) = [at |-> "waiting", until |-> u, sock |-> s, events |-> E]
BY DEF View, Activity

LEMMA OnCpuToGiveBack == CoroutineGivesBack => pc = "coro"
<1>1. \A d \in Durations : Nanosleep(d) => pc = "coro"
  BY DEF Nanosleep, GiveBack
<1>2. \A s \in Fds, e \in Requestable, d \in Durations : SuspendIo(s, e, d) => pc = "coro"
  BY DEF SuspendIo, GiveBack
<1>3. Yield \/ EntryReturns => pc = "coro"
  BY DEF Yield, EntryReturns, GiveBack
<1> QED BY <1>1, <1>2, <1>3 DEF CoroutineGivesBack

LEMMA GivesBackStep ==
    ASSUME PrI, PrI', CoroutineGivesBack, NEW i \in Jobs,
           NEW c \in Slots, c = current, i = coro[c].opaque
    PROVE  R!GivesBack(i)
<1> USE DEF PrI
<1>0. pc = "coro"
  BY OnCpuToGiveBack
<1>1. /\ Runnable(c) /\ Live(c)
      /\ coro \in [Slots -> Coroutine] /\ coro[c] \in Coroutine
      /\ clock \in U64 /\ jobs \in [Jobs -> {"caller", "queued", "running"}]
      /\ frame \in [Slots -> Frame]
  BY <1>0, CurrentJob, ConstantTypes DEF Runnable, Live, Inv, TypeOK
<1>2. CASE Yield
  <2>1. /\ GiveBack(At("yield")) /\ jobs' = jobs /\ coro' = coro
        /\ coro' = [coro EXCEPT ![c] = coro'[c]]
    BY <1>1, <1>2 DEF Yield
  <2>2. Live(c)' /\ coro'[c].opaque = i
    BY <1>1, <2>1 DEF Live, GiveBack
  <2>3. At("yield").at # "io"
    BY SlotEffects
  <2>4. View(At("yield")) = R!Doing("paused")
    <3>1. At("yield") = [at |-> "yield", until |-> 0, sock |-> -1, events |-> {}]
      BY DEF At, NoFrame, InvalidSocket
    <3> QED BY <3>1 DEF View, Activity, R!Doing
  <2>5. /\ R!HasCpu(i) /\ R!Becomes(i, View(At("yield"))) /\ ret' = "none"
        /\ UNCHANGED <<Phase, JobsNoticed, clock, ready>>
    BY <2>1, <2>2, <2>3, Suspends
  <2> QED BY <2>4, <2>5 DEF R!GivesBack
<1>3. ASSUME NEW d \in Durations, Nanosleep(d) PROVE R!GivesBack(i)
  <2> DEFINE until == Until(d)
             f == [NoFrame EXCEPT !.at = "timer", !.until = until]
  <2>1. /\ GiveBack(f) /\ jobs' = jobs
        /\ coro' = [coro EXCEPT ![c] = SuspendedTimer(coro[c], until)]
    <3>1. SatAdd(clock, d) = until
      BY <1>1, SchedulerAssumption, SatAddIsMeant DEF Until
    <3> QED BY <1>1, <1>3, <3>1 DEF Nanosleep
  <2>2. coro'[c] = SuspendedTimer(coro[c], until)
    BY <1>1, <2>1
  <2>3. coro'[c].opaque = i /\ coro'[c].state = "TIMER"
    BY <1>1, <2>2 DEF SuspendedTimer, Coroutine
  <2>4. Live(c)'
    BY <2>1, <2>3 DEF Live, GiveBack
  <2>5. f.at # "io"
    BY DEF NoFrame
  <2>6. View(f) = [R!Doing("asleep") EXCEPT !.until = until]
    <3>1. f = [At("timer") EXCEPT !.until = until]
      BY DEF At
    <3> HIDE DEF f, until
    <3> QED BY <3>1, SleeperView
  <2>8. until = R!SumOrMax(clock, d)
    BY DEF Until, SumOrMax, R!SumOrMax
  <2> HIDE DEF f, until
  <2>7. /\ R!HasCpu(i) /\ R!Becomes(i, View(f)) /\ ret' = "none"
        /\ UNCHANGED <<Phase, JobsNoticed, clock, ready>>
    BY <1>1, <2>1, <2>2, <2>3, <2>4, <2>5, Suspends
  <2> QED BY <2>6, <2>7, <2>8 DEF R!GivesBack
<1>4. ASSUME NEW s \in Fds, NEW e \in Requestable, NEW d \in Durations, SuspendIo(s, e, d)
      PROVE  R!GivesBack(i)
  <2> DEFINE until == Until(d)
             f == [at |-> "io", until |-> until, sock |-> s, events |-> {e}]
  <2>1. /\ GiveBack(f) /\ jobs' = jobs
        /\ coro' = [coro EXCEPT ![c] = SuspendedIo(coro[c], s, {e}, until)]
    <3>1. SatAdd(clock, d) = until
      BY <1>1, SchedulerAssumption, SatAddIsMeant DEF Until
    <3> QED BY <1>1, <1>4, <3>1 DEF SuspendIo
  <2>2. coro'[c] = SuspendedIo(coro[c], s, {e}, until)
    BY <1>1, <2>1
  <2>3. coro'[c].opaque = i /\ coro'[c].state = "IO"
    BY <1>1, <2>2 DEF SuspendedIo, Coroutine
  <2>4. Live(c)'
    BY <2>1, <2>3 DEF Live, GiveBack
  <2>5. View(f) = [at |-> "waiting", until |-> until, sock |-> s, events |-> {e}]
    <3>1. f = [at |-> "io", until |-> until, sock |-> s, events |-> {e}]
      OBVIOUS
    <3> HIDE DEF f, until
    <3> QED BY <3>1, WaiterView
  <2>7. until = R!SumOrMax(clock, d) /\ e \in PollBits \intersect {"in", "out"}
    BY DEF Until, SumOrMax, R!SumOrMax, Requestable
  <2> HIDE DEF f, until
  <2>6. /\ R!HasCpu(i) /\ R!Becomes(i, View(f)) /\ ret' = "none"
        /\ UNCHANGED <<Phase, JobsNoticed, clock, ready>>
    BY <1>1, <2>1, <2>2, <2>3, <2>4, Suspends
  <2> QED BY <2>5, <2>6, <2>7 DEF R!GivesBack
<1>5. CASE EntryReturns
  <2>1. /\ GiveBack(At("dead")) /\ jobs' = [jobs EXCEPT ![i] = "caller"]
        /\ coro' = [coro EXCEPT ![c].state = "EXITED"]
    BY <1>5 DEF EntryReturns
  <2>2. /\ jobs'[i] = "caller" /\ \A j \in Jobs : j # i => jobs'[j] = jobs[j]
        /\ \A d \in Slots : d # current => coro'[d] = coro[d] /\ frame'[d] = frame[d]
    BY <1>1, <2>1 DEF GiveBack
  <2>3. DoingOf(i)' = R!Idle
    BY <2>2 DEF DoingOf, At, NoFrame, R!Idle, R!Doing, InvalidSocket
  <2>4. i \notin JobsNoticed'
    BY <2>2 DEF JobsNoticed
  <2>5. /\ pc' = "back" /\ ret' = "none" /\ UNCHANGED <<current, clock, ready>>
    BY <2>1 DEF GiveBack
  <2>6. /\ R!HasCpu(i) /\ R!Becomes(i, R!Idle) /\ ret' = "none"
        /\ UNCHANGED <<Phase, JobsNoticed, clock, ready>>
    BY <1>0, <2>2, <2>3, <2>4, <2>5, GaveBack
  <2> QED BY <2>6 DEF R!GivesBack
<1> QED BY <1>2, <1>3, <1>4, <1>5 DEF CoroutineGivesBack

-----------------------------------------------------------------------------
LEMMA PrInit == Init => PrI
<1> SUFFICES ASSUME Init PROVE PrI
  OBVIOUS
<1>1. Inv
  BY InvInit
<1>2. \A c \in Slots : coro[c].state = "NULL"
  BY SlotEffects DEF Init
<1>3. NoEarlyWake /\ LiveHaveJobs /\ JobsHaveOneOwner
  BY <1>2 DEF Init, NoEarlyWake, WokenOnTime, Runnable, LiveHaveJobs, Live,
              JobsHaveOneOwner, Holds
<1> QED BY <1>1, <1>3 DEF PrI

LEMMA PrStep == PrI /\ [Next]_vars => PrI'
BY InvStep, WakeStep, OwnersStep, LiveJobsStep DEF PrI

LEMMA PromiseInit == Init => R!RuntimeInit
<1> SUFFICES ASSUME Init PROVE R!RuntimeInit
  OBVIOUS
<1>1. \A j \in Jobs : DoingOf(j) = R!Idle /\ jobs[j] = "caller"
  BY DEF Init, DoingOf, At, NoFrame, R!Idle, R!Doing, InvalidSocket
<1>2. JobsDoing = [j \in Jobs |-> R!Idle] /\ JobsNoticed = {}
  BY <1>1 DEF JobsDoing, JobsNoticed
<1> QED BY <1>2 DEF Init, R!RuntimeInit, Phase

LEMMA PromiseStep == PrI /\ PrI' /\ [Next]_vars => [R!RuntimeNext]_(R!promise)
<1> SUFFICES ASSUME PrI, PrI', [Next]_vars PROVE [R!RuntimeNext]_(R!promise)
  OBVIOUS
<1> USE DEF R!RuntimeNext
<1>1. CASE Go
  BY <1>1, GoStep DEF Go
<1>2. CASE Run \/ LoopEnds \/ Environment
  BY <1>2, RunSteps
<1>3. CASE Unseen
  BY <1>3, UnseenStep
<1>4. CASE PollReturns \/ PollResume
  BY <1>4, PollReturnsStep, PollResumeStep
<1>5. CASE Switch
  BY <1>5, CurrentJob, SwitchStep DEF Switch
<1>6. CASE CoroutineGivesBack
  <2>1. pc = "coro"
    BY <1>6, OnCpuToGiveBack
  <2> QED BY <1>6, <2>1, CurrentJob, GivesBackStep
<1>7. CASE UNCHANGED vars
  <2>1. jobs' = jobs /\ coro' = coro /\ frame' = frame /\ poll' = poll /\ pc' = pc
        /\ UNCHANGED <<ret, clock, ready>>
    BY <1>7 DEF vars
  <2>2. JobsDoing' = JobsDoing /\ JobsNoticed' = JobsNoticed
    BY <2>1, SlotsUntouched
  <2>3. Phase' = Phase
    BY <2>1 DEF Phase
  <2> QED BY <2>1, <2>2, <2>3 DEF R!promise
<1> QED
  BY <1>1, <1>2, <1>3, <1>4, <1>5, <1>6, <1>7 DEF Next, LoopStep, PollOutcome, Unseen

(***************************************************************************)
(* The scheduler implements the runtime its clients were promised, for any *)
(* number of slots, jobs and descriptors, any durations, and any schedule  *)
(* of poll: entry called once per go, one coroutine on the CPU, sleeps     *)
(* that last, waits that end with what poll reported for them or with      *)
(* their timeout, and a run that outlives them all.                        *)
(***************************************************************************)
THEOREM RuntimeImplemented == Spec => ImplementsRuntime
<1>1. Init => PrI /\ R!RuntimeInit
  BY PrInit, PromiseInit
<1>2. PrI /\ [Next]_vars => PrI' /\ [R!RuntimeNext]_(R!promise)
  BY PrStep, PromiseStep
<1>3. Spec => R!RuntimeInit /\ [][R!RuntimeNext]_(R!promise)
  BY <1>1, <1>2, PTL DEF Spec
<1> QED BY <1>3 DEF ImplementsRuntime, R!RuntimeSpec

-----------------------------------------------------------------------------
(***************************************************************************)
(* Bounded bypass, for any number of slots (module RoundRobin).            *)
(***************************************************************************)
RRInv ==
    /\ TypeOK
    /\ passed \in [Slots -> SUBSET Slots]
    /\ PassedAreBehind
    /\ NothingPassedBeforeRun

\* Probing starts after the slot that was picked: it is probed last, and the
\* others keep their order.
LEMMA CursorMoves ==
    ASSUME NEW f \in Slots, NEW e \in Slots, NEW c \in Slots, NEW d \in Slots,
           Dist(f, e) < Dist(f, c)
    PROVE  /\ Next1(e) \in Slots
           /\ Dist(Next1(e), c) < Dist(Next1(e), e)
           /\ Dist(f, c) < Dist(f, d) => Dist(Next1(e), c) < Dist(Next1(e), d)
BY SchedulerAssumption DEF Dist, Next1, Slots

LEMMA DistInjective ==
    ASSUME NEW f \in Slots, NEW c \in Slots, NEW d \in Slots,
           Dist(f, c) <= Dist(f, d), c # d
    PROVE  Dist(f, c) < Dist(f, d)
BY SchedulerAssumption DEF Dist, Slots

LEMMA RRInitInv == RRInit => RRInv
BY TypeInit DEF RRInit, RRInv, PassedAreBehind, NothingPassedBeforeRun

\* Every step but a pick only removes from passed, and none but Run, before
\* which nothing was passed, moves the cursor.
LEMMA OtherSteps ==
    ASSUME TypeOK, Next, ~ PickRunnable
    PROVE  /\ ~ Picks
           /\ fair' = fair \/ pc = "main"
           /\ pc' = "main" => pc = "main"
BY DEF Next, Go, GoCreates, GoStackAllocFails, GoNoSlot, Run, LoopStep, LoopEnds,
       CleanExited, MaybeExpireDeadlines, PickNothing, PollScan, PollEnter, PollResume,
       StartEntry, ReturnFromYield, ResumeTimer, ResumeIo, SwitchTo, Switch,
       SwitchBack, PollOutcome, PollReturns, PollInterrupted, PollFails,
       CoroutineGivesBack, Yield, Nanosleep, SuspendIo, EntryReturns, GiveBack,
       Environment, Tick, ReadyChanges, runtime, Picks

LEMMA RRStep == RRInv /\ [RRNext]_rrVars => RRInv'
<1> SUFFICES ASSUME RRInv, [RRNext]_rrVars PROVE RRInv'
  OBVIOUS
<1>1. TypeOK'
  BY TypeStep DEF RRInv, RRNext, Remembers, rrVars
<1>2. CASE UNCHANGED rrVars
  BY <1>1, <1>2 DEF RRInv, rrVars, vars, PassedAreBehind, NothingPassedBeforeRun, Runnable
<1>3. CASE RRNext /\ PickRunnable
  <2>1. PICK e \in Slots : PickedFirst(e) /\ current' = e /\ fair' = Next1(e)
    BY <1>3 DEF PickRunnable
  <2>2. Picks /\ coro' = coro /\ pc' # "main"
    BY <1>3 DEF PickRunnable, Picks
  <2>3. passed' \in [Slots -> SUBSET Slots]
    BY <1>3, <2>1 DEF RRNext, Remembers, RRInv
  <2>4. ASSUME NEW c \in Slots, NEW d \in passed'[c]
        PROVE  Runnable(c)' /\ c # current' /\ Dist(fair', c) < Dist(fair', d)
    <3>1. Runnable(c) /\ Runnable(c)' /\ c # e /\ d \in passed[c] \union {e} /\ d \in Slots
      BY <1>3, <2>1, <2>2, <2>3, <2>4 DEF RRNext, Remembers, Runnable
    <3>2. Dist(fair, e) < Dist(fair, c) /\ fair \in Slots
      BY <2>1, <3>1, DistInjective DEF PickedFirst, RRInv, TypeOK
    <3>3. d = e \/ Dist(fair, c) < Dist(fair, d)
      BY <3>1 DEF RRInv, PassedAreBehind
    <3> QED BY <2>1, <3>1, <3>2, <3>3, CursorMoves
  <2>5. PassedAreBehind'
    BY <2>4 DEF PassedAreBehind
  <2> QED BY <1>1, <2>2, <2>3, <2>5 DEF RRInv, NothingPassedBeforeRun
<1>4. CASE RRNext /\ ~ PickRunnable
  <2>1. /\ ~ Picks
        /\ fair' = fair \/ pc = "main"
        /\ pc' = "main" => pc = "main"
    BY <1>4, OtherSteps DEF RRNext, Remembers, RRInv
  <2>2. ASSUME NEW c \in Slots
        PROVE  /\ passed'[c] \in SUBSET Slots
               /\ passed'[c] \in {passed[c], {}}
               /\ passed'[c] # {} => Runnable(c)' /\ current' # c
    BY <1>4, <2>1 DEF RRNext, Remembers, RRInv
  <2>3. passed' \in [Slots -> SUBSET Slots]
    BY <1>4, <2>2 DEF RRNext, Remembers
  <2>4. ASSUME NEW c \in Slots, NEW d \in passed'[c]
        PROVE  Runnable(c)' /\ c # current' /\ Dist(fair', c) < Dist(fair', d)
    <3>1. d \in passed[c] /\ Runnable(c)' /\ current' # c
      BY <2>2, <2>4
    <3>2. fair' = fair
      BY <2>1, <3>1 DEF RRInv, NothingPassedBeforeRun
    <3> QED BY <3>1, <3>2 DEF RRInv, PassedAreBehind
  <2>5. PassedAreBehind'
    BY <2>4 DEF PassedAreBehind
  <2>6. NothingPassedBeforeRun'
    BY <2>1, <2>2 DEF RRInv, NothingPassedBeforeRun
  <2> QED BY <1>1, <2>3, <2>5, <2>6 DEF RRInv
<1> QED BY <1>2, <1>3, <1>4

(***************************************************************************)
(* Whoever was picked while c could run is behind c in the order in which  *)
(* the cursor probes the slots, for any number of slots (pick_runnable).   *)
(***************************************************************************)
THEOREM PassedStayBehind == RRSpec => []PassedAreBehind
<1>1. RRInv => PassedAreBehind
  BY DEF RRInv
<1> QED BY RRInitInv, RRStep, <1>1, PTL DEF RRSpec

(***************************************************************************)
(* Nobody gets the CPU twice while another coroutine waits for it.         *)
(***************************************************************************)
THEOREM BoundedBypass == RRSpec => NobodyRunsTwice
<1>1. ASSUME RRInv, RRNext, Picks, NEW c \in Slots PROVE current' \notin passed[c]
  <2>1. PICK e \in Slots : PickedFirst(e) /\ current' = e
    BY <1>1, OtherSteps DEF RRNext, Remembers, RRInv, PickRunnable
  <2>2. SUFFICES ASSUME e \in passed[c] PROVE FALSE
    BY <2>1
  <2>3. Runnable(c) /\ Dist(fair, c) < Dist(fair, e)
    BY <1>1, <2>2 DEF RRInv, PassedAreBehind
  <2>4. Dist(fair, e) <= Dist(fair, c)
    BY <2>1, <2>3 DEF PickedFirst
  <2>5. Dist(fair, e) \in Int /\ Dist(fair, c) \in Int
    BY <1>1, SchedulerAssumption DEF RRInv, TypeOK, Dist, Slots
  <2> QED BY <2>3, <2>4, <2>5
<1>2. RRInv /\ [RRNext]_rrVars
        => [Picks => \A c \in Slots : current' \notin passed[c]]_rrVars
  BY <1>1
<1>3. RRSpec => [][Picks => \A c \in Slots : current' \notin passed[c]]_rrVars
  BY <1>2, RRInitInv, RRStep, PTL DEF RRSpec
<1> QED BY <1>3 DEF NobodyRunsTwice
=============================================================================
