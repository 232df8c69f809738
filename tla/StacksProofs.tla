---------------------------- MODULE StacksProofs ----------------------------
(***************************************************************************)
(* Stacks are neither shared, nor lost, nor unmapped under a coroutine,    *)
(* for any number of slots and regions, and any page size; and therefore   *)
(* whoever is switched to finds its registers and its words again.         *)
(***************************************************************************)
EXTENDS ContextSwitch, SchedulerProofs

(***************************************************************************)
(* Rounding up: a whole number of pages, at least as much as desired, and  *)
(* less than a page too much (minimk_coro_stack_size_impl).                *)
(***************************************************************************)
LEMMA RoundUp ==
    ASSUME NEW n \in Nat \ {0}, NEW p \in Nat \ {0}
    PROVE  LET pages == (n + (p - 1)) \div p
           IN /\ pages \in Nat
              /\ pages * p \in Nat
              /\ n <= pages * p /\ pages * p < n + p
<1> DEFINE m == n + (p - 1)
           q == m \div p
<1>1. m \in Nat
  OBVIOUS
<1> HIDE DEF m
<1>2. q \in Nat /\ q * p \in Nat /\ q * p <= m /\ m < q * p + p
  BY <1>1
<1> HIDE DEF q
<1>3. n <= q * p /\ q * p < n + p
  BY <1>2 DEF m
<1> QED BY <1>2, <1>3 DEF q, m

(***************************************************************************)
(* For every page size (a power of two, where the mask of the code is this *)
(* division) the stack is a whole number of pages, as large as desired,    *)
(* and less than a page larger.                                            *)
(***************************************************************************)
THEOREM StackSizeFits ==
    ASSUME NEW p \in Nat \ {0}
    PROVE  /\ stack_size(p) \in Nat
           /\ stack_size(p) >= DesiredStack
           /\ \E pages \in Nat : stack_size(p) = pages * p
           /\ stack_size(p) < DesiredStack + p
<1>0. DesiredStack \in Nat \ {0}
  BY StacksAssumption
<1>1. CASE p > DesiredStack
  <2>1. stack_size(p) = p /\ p = 1 * p
    BY <1>1 DEF stack_size
  <2> QED BY <1>0, <1>1, <2>1
<1>2. CASE ~ p > DesiredStack
  <2> DEFINE pages == (DesiredStack + (p - 1)) \div p
  <2>1. stack_size(p) = pages * p
    BY <1>2 DEF stack_size
  <2>2. /\ pages \in Nat /\ pages * p \in Nat
        /\ DesiredStack <= pages * p /\ pages * p < DesiredStack + p
    BY <1>0, RoundUp
  <2> HIDE DEF pages
  <2> QED BY <1>0, <2>1, <2>2
<1> QED BY <1>1, <1>2

LEMMA Sizes ==
    /\ TotalSize \in Nat \ {0} /\ PageSize \in Nat \ {0}
    /\ TotalSize >= PageSize + DesiredStack
BY StacksAssumption, StackSizeFits DEF TotalSize

-----------------------------------------------------------------------------
(***************************************************************************)
(* The inductive invariant: the struct stack of a coroutine is exactly     *)
(* what stack_alloc left in it, and its region exactly what mmap and       *)
(* mprotect left there.  For unused slots nothing is known of the struct   *)
(* stack, but nobody frees it.                                             *)
(***************************************************************************)
Guarded == [mapped |-> TotalSize, guard |-> PageSize]

Owns(c, r) == HasStack(c) /\ stacks[c] = StackAt(r)

StacksInv ==
    /\ Inv
    /\ DOMAIN stacks = Slots /\ DOMAIN memory = Regions
    /\ \A c \in Slots : HasStack(c) => \E r \in Regions : Owns(c, r) /\ memory[r] = Guarded
    /\ \A c, d \in Slots, r \in Regions : Owns(c, r) /\ Owns(d, r) => c = d
    /\ \A r \in Regions : memory[r] # Unmapped => \E c \in Slots : Owns(c, r)

LEMMA MappingFacts ==
    /\ mprotect(mmap(TotalSize), PageSize) = Guarded
    /\ munmap(mmap(TotalSize), TotalSize) = Unmapped
    /\ munmap(Guarded, TotalSize) = Unmapped
    /\ Guarded # Unmapped
    /\ \A r : StackAt(r).base = r /\ StackAt(r).size = TotalSize
BY Sizes DEF mprotect, mmap, munmap, Guarded, Unmapped, StackAt

\* Steps that change nothing but coroutines that exist.
LEMMA StacksKept ==
    ASSUME StacksInv, Inv', UNCHANGED memVars,
           \A c \in Slots : HasStack(c)' <=> HasStack(c)
    PROVE  StacksInv'
BY DEF StacksInv, memVars, Owns

\* A resumed or suspended coroutine exists before and after.
LEMMA OthersKeepStacks ==
    ASSUME Inv, LeavesStacks \/ UNCHANGED vars
    PROVE  \A c \in Slots : HasStack(c)' <=> HasStack(c)
<1> USE DEF Inv, SlotsConsistent, CurrentConsistent
<1>0. /\ coro \in [Slots -> Coroutine] /\ clock \in U64
      /\ pc = "resume" => \A c \in Slots : poll.revents[c] \in SUBSET (PollBits \union Unrequested)
      /\ {} \in SUBSET (PollBits \union Unrequested)
  BY ConstantTypes DEF TypeOK
<1>1. ASSUME NEW c \in Slots, NEW revents \in SUBSET (PollBits \union Unrequested),
             coro'[c] = MaybeResume(coro[c], clock, revents)
      PROVE  HasStack(c)' <=> HasStack(c)
  <2>1. coro[c] \in Coroutine
    BY <1>0
  <2>2. CASE TimerExpired(coro[c], clock) \/ IoResumable(coro[c], clock, revents)
    <3>1. coro'[c].state = "RUNNABLE"
      BY <1>0, <1>1, <2>1, <2>2, MaybeResumeEffect
    <3>2. coro[c].state \in {"TIMER", "IO"}
      BY <2>2 DEF TimerExpired, IoResumable
    <3> QED BY <3>1, <3>2 DEF HasStack
  <2>3. CASE ~ (TimerExpired(coro[c], clock) \/ IoResumable(coro[c], clock, revents))
    <3>1. coro'[c] = coro[c]
      BY <1>0, <1>1, <2>1, <2>3, MaybeResumeEffect
    <3> QED BY <3>1 DEF HasStack
  <2> QED BY <2>2, <2>3
<1>2. CASE MaybeExpireDeadlines
  BY <1>0, <1>1, <1>2 DEF MaybeExpireDeadlines
<1>3. CASE PollResume
  BY <1>0, <1>1, <1>3 DEF PollResume
<1>4. CASE CoroutineGivesBack
  <2>1. current \in Slots /\ coro[current].state = "RUNNABLE"
    BY <1>4 DEF CoroutineGivesBack, Yield, Nanosleep, SuspendIo, EntryReturns, GiveBack,
                Runnable, TypeOK
  <2>2. /\ \A c \in Slots : c # current => coro'[c] = coro[c]
        /\ coro'[current].state # "NULL"
    <3>1. CASE Yield
      BY <2>1, <3>1 DEF Yield
    <3>2. ASSUME NEW d \in Durations, Nanosleep(d)
          PROVE  /\ \A c \in Slots : c # current => coro'[c] = coro[c]
                 /\ coro'[current].state # "NULL"
      <4>1. coro' = [coro EXCEPT ![current] = SuspendedTimer(coro[current], SatAdd(clock, d))]
        BY <3>2 DEF Nanosleep
      <4>2. SuspendedTimer(coro[current], SatAdd(clock, d)).state = "TIMER"
        BY <1>0, <2>1 DEF SuspendedTimer, Coroutine
      <4> QED BY <1>0, <2>1, <4>1, <4>2
    <3>3. ASSUME NEW s \in Fds, NEW e \in Requestable, NEW d \in Durations, SuspendIo(s, e, d)
          PROVE  /\ \A c \in Slots : c # current => coro'[c] = coro[c]
                 /\ coro'[current].state # "NULL"
      <4>1. coro' = [coro EXCEPT ![current] = SuspendedIo(coro[current], s, {e}, SatAdd(clock, d))]
        BY <3>3 DEF SuspendIo
      <4>2. SuspendedIo(coro[current], s, {e}, SatAdd(clock, d)).state = "IO"
        BY <1>0, <2>1 DEF SuspendedIo, Coroutine
      <4> QED BY <1>0, <2>1, <4>1, <4>2
    <3>4. CASE EntryReturns
      BY <1>0, <2>1, <3>4 DEF EntryReturns, Coroutine
    <3> QED BY <1>4, <3>1, <3>2, <3>3, <3>4 DEF CoroutineGivesBack
  <2> QED BY <2>1, <2>2 DEF HasStack
<1>5. CASE ResumeTimer \/ ResumeIo
  <2>1. coro' = [coro EXCEPT ![current].deadline = 0] \/ coro' = [coro EXCEPT ![current].revents = {}]
    BY <1>5 DEF ResumeTimer, ResumeIo
  <2> QED BY <1>0, <2>1 DEF HasStack, Coroutine
<1>6. CASE \/ \E j \in Jobs : GoNoSlot(j)
           \/ Run \/ LoopEnds \/ PickRunnable \/ PickNothing \/ PollScan \/ PollEnter
           \/ PollOutcome \/ StartEntry \/ ReturnFromYield \/ SwitchAborts \/ SwitchBack
           \/ Environment \/ UNCHANGED vars
  <2>1. coro' = coro
    BY <1>6
    DEF GoNoSlot, Run, LoopEnds, PickRunnable, PickNothing, PollScan, PollEnter,
        PollOutcome, PollReturns, PollInterrupted, PollFails, StartEntry, ReturnFromYield,
        SwitchAborts, SwitchBack, Environment, Tick, ReadyChanges, runtime, vars
  <2> QED BY <2>1 DEF HasStack
<1> QED BY <1>2, <1>3, <1>4, <1>5, <1>6, SwitchCases DEF LeavesStacks

-----------------------------------------------------------------------------
LEMMA StacksNextIsNext == StacksNext => Next
BY DEF StacksNext, LeavesStacks, Next, Go, LoopStep

LEMMA StacksStart == StacksInit => StacksInv
<1> SUFFICES ASSUME StacksInit PROVE StacksInv
  OBVIOUS
<1>1. Inv
  BY InvInit DEF StacksInit
<1>2. \A c \in Slots : ~ HasStack(c)
  BY SlotEffects DEF StacksInit, Init, HasStack
<1> QED BY <1>1, <1>2 DEF StacksInit, StacksInv, Owns

LEMMA StacksStep == StacksInv /\ [StacksNext]_<<vars, memVars>> => StacksInv'
<1> SUFFICES ASSUME StacksInv, [StacksNext]_<<vars, memVars>> PROVE StacksInv'
  OBVIOUS
<1>0. /\ Inv /\ Inv'
      /\ coro \in [Slots -> Coroutine]
      /\ DOMAIN stacks = Slots /\ DOMAIN memory = Regions
  BY InvStep, StacksNextIsNext DEF StacksInv, Inv, TypeOK
\* The slot that go takes had no stack; nor has it one when go fails.
<1>1. ASSUME NEW j \in Jobs, GoCreates(j), StackAlloc PROVE StacksInv'
  <2>1. PICK c \in Slots, r \in Regions :
            /\ FirstFree(c) /\ memory[r] = Unmapped
            /\ memory' = [memory EXCEPT ![r] = mprotect(mmap(TotalSize), PageSize)]
            /\ stacks' = [stacks EXCEPT ![c] = StackAt(r)]
    BY <1>1 DEF StackAlloc
  <2>2. PICK b \in Slots : FirstFree(b) /\ coro' = [coro EXCEPT ![b] = Fresh(j)]
    BY <1>1 DEF GoCreates
  <2>3. b = c
    BY <2>1, <2>2 DEF FirstFree, Slots
  <2>4. ~ HasStack(c) /\ HasStack(c)' /\ \A d \in Slots : d # c => (HasStack(d)' <=> HasStack(d))
    BY <1>0, <2>1, <2>2, <2>3, SlotEffects DEF HasStack, FirstFree, FreeSlot
  <2>5. /\ memory'[r] = Guarded /\ \A s \in Regions : s # r => memory'[s] = memory[s]
        /\ stacks'[c] = StackAt(r) /\ \A d \in Slots : d # c => stacks'[d] = stacks[d]
        /\ DOMAIN stacks' = Slots /\ DOMAIN memory' = Regions
    BY <1>0, <2>1, MappingFacts
  <2>6. /\ Owns(c, r)' /\ \A s \in Regions : Owns(c, s)' => s = r
        /\ \A d \in Slots, s \in Regions : d # c => (Owns(d, s)' <=> Owns(d, s))
    BY <2>4, <2>5, MappingFacts DEF Owns
  <2>7. \A d \in Slots : ~ Owns(d, r)
    <3> SUFFICES ASSUME NEW d \in Slots, Owns(d, r) PROVE FALSE
      OBVIOUS
    <3>1. PICK s \in Regions : Owns(d, s) /\ memory[s] = Guarded
      BY DEF StacksInv, Owns
    <3>2. s = r
      BY <3>1, MappingFacts DEF Owns
    <3> QED BY <2>1, <3>1, <3>2, MappingFacts
  <2>8. ASSUME NEW d \in Slots, HasStack(d)'
        PROVE  \E s \in Regions : Owns(d, s)' /\ memory'[s] = Guarded
    <3>1. CASE d = c
      BY <2>5, <2>6, <3>1
    <3>2. CASE d # c
      <4>1. PICK s \in Regions : Owns(d, s) /\ memory[s] = Guarded
        BY <2>4, <2>8, <3>2 DEF StacksInv
      <4> QED BY <2>5, <2>6, <2>7, <3>2, <4>1
    <3> QED BY <3>1, <3>2
  <2>9. \A d, e \in Slots, s \in Regions : Owns(d, s)' /\ Owns(e, s)' => d = e
    BY <2>6, <2>7 DEF StacksInv
  <2>10. ASSUME NEW s \in Regions, memory'[s] # Unmapped PROVE \E d \in Slots : Owns(d, s)'
    <3>1. CASE s = r
      BY <2>6, <3>1
    <3>2. CASE s # r
      <4>1. PICK d \in Slots : Owns(d, s)
        BY <2>5, <2>10, <3>2 DEF StacksInv
      <4>2. d # c
        BY <2>4, <4>1 DEF Owns
      <4> QED BY <2>6, <4>1, <4>2
    <3> QED BY <3>1, <3>2
  <2> QED BY <1>0, <2>5, <2>8, <2>9, <2>10 DEF StacksInv
<1>2. ASSUME NEW j \in Jobs, GoStackAllocFails(j), MmapFails \/ MprotectFails
      PROVE  StacksInv'
  <2>1. PICK c \in Slots : /\ FirstFree(c)
                           /\ \A d \in Slots : d # c => stacks'[d] = stacks[d]
                           /\ DOMAIN stacks' = Slots
    BY <1>0, <1>2 DEF MmapFails, MprotectFails
  <2>2. (\A s \in Regions : memory'[s] = memory[s]) /\ DOMAIN memory' = Regions
    <3>1. CASE MmapFails
      BY <1>0, <3>1 DEF MmapFails
    <3>2. CASE MprotectFails
      <4>1. PICK r \in Regions : memory[r] = Unmapped /\ memory' = [memory EXCEPT ![r] = Unmapped]
        BY <3>2, MappingFacts DEF MprotectFails
      <4> QED BY <1>0, <4>1
    <3> QED BY <1>2, <3>1, <3>2
  <2>3. PICK b \in Slots : FirstFree(b) /\ coro' = [coro EXCEPT ![b] = Dirty(j)]
    BY <1>2 DEF GoStackAllocFails
  <2>4. b = c
    BY <2>1, <2>3 DEF FirstFree, Slots
  <2>5. \A d \in Slots : HasStack(d)' <=> HasStack(d)
    BY <1>0, <2>3, SlotEffects DEF HasStack, FirstFree, FreeSlot
  <2>6. \A d \in Slots, s \in Regions : Owns(d, s)' <=> Owns(d, s)
    BY <2>1, <2>3, <2>4, <2>5 DEF Owns, HasStack, FirstFree, FreeSlot
  <2>7. ASSUME NEW d \in Slots, HasStack(d)'
        PROVE  \E s \in Regions : Owns(d, s)' /\ memory'[s] = Guarded
    BY <2>2, <2>5, <2>6, <2>7 DEF StacksInv
  <2>8. /\ \A d, e \in Slots, s \in Regions : Owns(d, s)' /\ Owns(e, s)' => d = e
        /\ \A s \in Regions : memory'[s] # Unmapped => \E d \in Slots : Owns(d, s)'
        /\ DOMAIN memory' = Regions
    BY <1>0, <2>2, <2>6 DEF StacksInv
  <2> QED BY <1>0, <2>1, <2>7, <2>8 DEF StacksInv
\* Only the stacks of exited coroutines are unmapped, and as a whole.
<1>3. CASE CleanExited /\ StackFree
  <2> DEFINE Exited(c) == coro[c].state = "EXITED"
  <2>1. \A c \in Slots : /\ Exited(c) => ~ HasStack(c)'
                         /\ ~ Exited(c) => (HasStack(c)' <=> HasStack(c))
                         /\ Exited(c) => HasStack(c)
    BY <1>3, SlotEffects DEF CleanExited, Finish, HasStack
  <2>2. \A c \in Slots : ~ Exited(c) => stacks'[c] = stacks[c]
    BY <1>3 DEF StackFree
  <2>3. \A c \in Slots, s \in Regions : Owns(c, s)' <=> Owns(c, s) /\ ~ Exited(c)
    BY <2>1, <2>2 DEF Owns
  <2>4. ASSUME NEW s \in Regions, NEW c \in Slots, Owns(c, s), Exited(c)
        PROVE  memory'[s] = Unmapped
    <3>1. Frees(c, s)
      BY <2>4, MappingFacts DEF Owns, Frees
    <3> DEFINE f == CHOOSE d \in Slots : Frees(d, s)
    <3>2. f \in Slots /\ Frees(f, s)
      BY <3>1
    <3>3. memory'[s] = munmap(memory[s], stacks[f].size)
      BY <1>3, <3>1 DEF StackFree
    <3> HIDE DEF f
    <3>4. PICK r \in Regions : Owns(f, r) /\ memory[r] = Guarded
      BY <2>1, <3>2 DEF StacksInv, Frees
    <3>5. r = s /\ stacks[f].size = TotalSize
      BY <3>2, <3>4, MappingFacts DEF Owns, Frees
    <3> QED BY <3>3, <3>4, <3>5, MappingFacts
  <2>5. ASSUME NEW s \in Regions, \A c \in Slots : Owns(c, s) => ~ Exited(c)
        PROVE  memory'[s] = memory[s]
    <3>1. \A c \in Slots : ~ Frees(c, s)
      <4> SUFFICES ASSUME NEW c \in Slots, Frees(c, s) PROVE FALSE
        OBVIOUS
      <4>1. PICK r \in Regions : Owns(c, r)
        BY <2>1 DEF StacksInv, Frees
      <4>2. r = s
        BY <4>1, MappingFacts DEF Owns, Frees
      <4> QED BY <2>5, <4>1, <4>2 DEF Frees
    <3> QED BY <1>3, <3>1 DEF StackFree
  <2>6. ASSUME NEW d \in Slots, HasStack(d)'
        PROVE  \E s \in Regions : Owns(d, s)' /\ memory'[s] = Guarded
    <3>1. ~ Exited(d) /\ HasStack(d)
      BY <2>1, <2>6
    <3>2. PICK s \in Regions : Owns(d, s) /\ memory[s] = Guarded
      BY <3>1 DEF StacksInv
    <3>3. \A c \in Slots : Owns(c, s) => ~ Exited(c)
      BY <3>1, <3>2 DEF StacksInv
    <3>4. memory'[s] = memory[s]
      BY <2>5, <3>3
    <3> QED BY <2>3, <3>1, <3>2, <3>4
  <2>7. ASSUME NEW s \in Regions, memory'[s] # Unmapped PROVE \E d \in Slots : Owns(d, s)'
    <3>1. \A c \in Slots : Owns(c, s) => ~ Exited(c)
      BY <2>4, <2>7
    <3>2. memory[s] # Unmapped
      BY <2>5, <2>7, <3>1
    <3> QED BY <2>3, <3>1, <3>2 DEF StacksInv
  <2>8. \A d, e \in Slots, s \in Regions : Owns(d, s)' /\ Owns(e, s)' => d = e
    BY <2>3 DEF StacksInv
  <2>9. DOMAIN stacks' = Slots /\ DOMAIN memory' = Regions
    BY <1>3 DEF StackFree
  <2> QED BY <1>0, <2>6, <2>7, <2>8, <2>9 DEF StacksInv
<1>4. CASE (LeavesStacks /\ UNCHANGED memVars) \/ UNCHANGED <<vars, memVars>>
  BY <1>0, <1>4, OthersKeepStacks, StacksKept
<1> QED BY <1>1, <1>2, <1>3, <1>4 DEF StacksNext

\* The invariant says what the properties need.
LEMMA StacksInvImplies == StacksInv => EveryCoroutineHasItsStack /\ NoMappingLeaks
<1> SUFFICES ASSUME StacksInv PROVE EveryCoroutineHasItsStack /\ NoMappingLeaks
  OBVIOUS
<1>1. ASSUME NEW c \in Slots, HasStack(c)
      PROVE  /\ StackIsMapped(stacks[c])
             /\ \A d \in Slots : HasStack(d) /\ stacks[d].base = stacks[c].base => d = c
  <2>1. PICK r \in Regions : Owns(c, r) /\ memory[r] = Guarded
    BY <1>1 DEF StacksInv
  <2>2. StackIsMapped(stacks[c])
    BY <2>1, Sizes DEF Owns, StackIsMapped, StackAt, Guarded
  <2>3. ASSUME NEW d \in Slots, HasStack(d), stacks[d].base = stacks[c].base PROVE d = c
    <3>1. PICK s \in Regions : Owns(d, s)
      BY <2>3 DEF StacksInv
    <3>2. s = r
      BY <2>1, <2>3, <3>1, MappingFacts DEF Owns
    <3> QED BY <2>1, <3>1, <3>2 DEF StacksInv
  <2> QED BY <2>2, <2>3
<1>2. NoMappingLeaks
  BY MappingFacts DEF StacksInv, NoMappingLeaks, Owns
<1> QED BY <1>1, <1>2 DEF EveryCoroutineHasItsStack

(***************************************************************************)
(* Whatever allocations failed before it, every coroutine has a mapped     *)
(* stack of its own, as large as desired, with a guard page below, until   *)
(* it has exited and is cleaned up.                                        *)
(***************************************************************************)
THEOREM StacksOwned == StacksSpec => []EveryCoroutineHasItsStack
BY StacksStart, StacksStep, StacksInvImplies, PTL DEF StacksSpec

(***************************************************************************)
(* No mapping outlives the coroutine it was made for, and none is left by  *)
(* an allocation that failed.                                              *)
(***************************************************************************)
THEOREM MappingsReleased == StacksSpec => []NoMappingLeaks
BY StacksStart, StacksStep, StacksInvImplies, PTL DEF StacksSpec

-----------------------------------------------------------------------------
(***************************************************************************)
(* What minimk_runtime_switch leaves on a stack, word by word.             *)
(***************************************************************************)
Labels == {"none", "main", "yield", "timer", "io", "dead", "run"}
Words == [of : Jobs \union {NoJob}, n : Nat,
          what : Labels \union CalleeSaved \union {"local", "zero", "sched"}]
Saved == [locals : Seq(Words), regs : [CalleeSaved -> Words], rip : Words]

Saves(st, h) ==
    LET n == Len(h.locals)
    IN  /\ h \in Saved
        /\ DOMAIN st = 1 .. n + 7
        /\ \A i \in 1 .. n : st[i] = h.locals[i]
        /\ st[n + 1] = h.rip
        /\ \A r \in CalleeSaved : st[n + 7 - PopsBefore[r]] = h.regs[r]

LEMMA PopsInRange ==
    /\ \A r \in CalleeSaved : PopsBefore[r] \in 0 .. 5
    /\ PopsBefore["r15"] = 0 /\ PopsBefore["r14"] = 1 /\ PopsBefore["r13"] = 2
    /\ PopsBefore["r12"] = 3 /\ PopsBefore["rbp"] = 4 /\ PopsBefore["rbx"] = 5
BY DEF CalleeSaved, PopsBefore

LEMMA Joined ==
    ASSUME NEW s \in Seq(Words), NEW t \in Seq(Words)
    PROVE  /\ Len(s \o t) = Len(s) + Len(t)
           /\ DOMAIN (s \o t) = 1 .. Len(s) + Len(t)
           /\ \A i \in 1 .. Len(s) : (s \o t)[i] = s[i]
           /\ \A i \in 1 .. Len(t) : (s \o t)[Len(s) + i] = t[i]
OBVIOUS

LEMMA SwitchSaves ==
    ASSUME NEW h \in Saved, NEW st, st = h.locals \o <<h.rip>> \o Pushed(h.regs)
    PROVE  Saves(st, h) /\ Len(st) = Len(h.locals) + 7
<1>1. PICK n : n = Len(h.locals)
  OBVIOUS
<1>2. PICK locals, regs, at : locals = h.locals /\ regs = h.regs /\ at = h.rip
  OBVIOUS
<1> DEFINE top == locals \o <<at>>
           six == <<regs["rbx"], regs["rbp"], regs["r12"], regs["r13"],
                    regs["r14"], regs["r15"]>>
<1>3. /\ locals \in Seq(Words) /\ n = Len(locals) /\ n \in Nat
      /\ at \in Words /\ regs \in [CalleeSaved -> Words]
  BY <1>1, <1>2 DEF Saved
<1>4. st = top \o six
  BY <1>2 DEF Pushed
<1>5. /\ top \in Seq(Words) /\ Len(top) = n + 1
      /\ \A i \in 1 .. n : top[i] = locals[i]
      /\ top[n + 1] = at
  BY <1>3
<1>6. six \in Seq(Words)
  BY <1>3 DEF CalleeSaved
<1>7. Len(six) = 6
  OBVIOUS
<1>8. /\ Len(st) = n + 7 /\ DOMAIN st = 1 .. n + 7
      /\ \A i \in 1 .. n + 1 : st[i] = top[i]
      /\ \A i \in 1 .. 6 : st[n + 1 + i] = six[i]
  <2> HIDE DEF top, six
  <2>1. /\ Len(top \o six) = Len(top) + Len(six)
        /\ DOMAIN (top \o six) = 1 .. Len(top) + Len(six)
        /\ \A i \in 1 .. Len(top) : (top \o six)[i] = top[i]
        /\ \A i \in 1 .. Len(six) : (top \o six)[Len(top) + i] = six[i]
    BY <1>5, <1>6, Joined
  <2>2. Len(top) = n + 1 /\ Len(six) = 6 /\ n + 1 + 6 = n + 7
    BY <1>3, <1>5, <1>7
  <2> QED BY <1>4, <2>1, <2>2
<1>9. /\ n + 7 - 0 = n + 1 + 6 /\ n + 7 - 1 = n + 1 + 5 /\ n + 7 - 2 = n + 1 + 4
      /\ n + 7 - 3 = n + 1 + 3 /\ n + 7 - 4 = n + 1 + 2 /\ n + 7 - 5 = n + 1 + 1
  BY <1>3
<1>10. /\ st[n + 1 + 1] = regs["rbx"] /\ st[n + 1 + 2] = regs["rbp"]
       /\ st[n + 1 + 3] = regs["r12"] /\ st[n + 1 + 4] = regs["r13"]
       /\ st[n + 1 + 5] = regs["r14"] /\ st[n + 1 + 6] = regs["r15"]
  <2>1. /\ six[1] = regs["rbx"] /\ six[2] = regs["rbp"] /\ six[3] = regs["r12"]
        /\ six[4] = regs["r13"] /\ six[5] = regs["r14"] /\ six[6] = regs["r15"]
    OBVIOUS
  <2>2. 1 \in 1 .. 6 /\ 2 \in 1 .. 6 /\ 3 \in 1 .. 6 /\ 4 \in 1 .. 6 /\ 5 \in 1 .. 6 /\ 6 \in 1 .. 6
    OBVIOUS
  <2> HIDE DEF six
  <2> QED BY <1>8, <2>1, <2>2, Zenon
<1>11. ASSUME NEW r \in CalleeSaved PROVE st[n + 7 - PopsBefore[r]] = regs[r]
  <2>1. CASE r = "rbx"
    BY <1>9, <1>10, <2>1, PopsInRange, Zenon
  <2>2. CASE r = "rbp"
    BY <1>9, <1>10, <2>2, PopsInRange, Zenon
  <2>3. CASE r = "r12"
    BY <1>9, <1>10, <2>3, PopsInRange, Zenon
  <2>4. CASE r = "r13"
    BY <1>9, <1>10, <2>4, PopsInRange, Zenon
  <2>5. CASE r = "r14"
    BY <1>9, <1>10, <2>5, PopsInRange, Zenon
  <2>6. CASE r = "r15"
    BY <1>9, <1>10, <2>6, PopsInRange, Zenon
  <2> QED BY <2>1, <2>2, <2>3, <2>4, <2>5, <2>6 DEF CalleeSaved
<1>12. (\A i \in 1 .. n : st[i] = locals[i]) /\ st[n + 1] = at
  <2>1. n + 1 \in 1 .. n + 1 /\ \A i \in 1 .. n : i \in 1 .. n + 1
    BY <1>3
  <2> HIDE DEF top
  <2> QED BY <1>5, <1>8, <2>1, Zenon
<1> QED BY <1>1, <1>2, <1>3, <1>8, <1>11, <1>12 DEF Saves

\* The pops find what the pushes left.
LEMMA PoppedIsSaved ==
    ASSUME NEW w, NEW stack \in DOMAIN w, NEW h, Saves(w[stack], h), NEW p,
           p = Pointer(stack, Len(h.locals) + 7)
    PROVE  Popped(w, p) = [rsp |-> Pointer(stack, Len(h.locals)), regs |-> h.regs,
                           rip |-> h.rip]
<1>1. PICK n : n = Len(h.locals)
  OBVIOUS
<1>2. /\ n \in Nat /\ DOMAIN w[stack] = 1 .. n + 7 /\ w[stack][n + 1] = h.rip
      /\ h.regs \in [CalleeSaved -> Words]
      /\ \A r \in CalleeSaved : w[stack][n + 7 - PopsBefore[r]] = h.regs[r]
  BY <1>1 DEF Saves, Saved
<1>3. p.stack = stack /\ p.used = n + 7
  BY <1>1 DEF Pointer
<1>4. ASSUME NEW r \in CalleeSaved
      PROVE  Load(w, p.stack, p.used - PopsBefore[r]) = h.regs[r]
  <2>1. n + 7 - PopsBefore[r] \in 1 .. n + 7
    BY <1>2, PopsInRange
  <2>2. p.used - PopsBefore[r] = n + 7 - PopsBefore[r]
    BY <1>2, <1>3, PopsInRange
  <2> QED BY <1>2, <1>3, <2>1, <2>2 DEF Load
<1>5. p.used - 6 = n + 1 /\ p.used - 7 = n /\ n + 1 \in 1 .. n + 7
  BY <1>2, <1>3
<1>6. Load(w, p.stack, p.used - 6) = h.rip
  BY <1>2, <1>3, <1>5 DEF Load
<1>7. [r \in CalleeSaved |-> Load(w, p.stack, p.used - PopsBefore[r])] = h.regs
  BY <1>2, <1>4
<1> QED BY <1>1, <1>3, <1>5, <1>6, <1>7 DEF Popped

-----------------------------------------------------------------------------
(***************************************************************************)
(* The invariant of the machine: every context that is not on the CPU lies *)
(* intact on its own stack, below its locals, and its stack pointer points *)
(* there; and rsp points into the stack of the context that is on the CPU. *)
(***************************************************************************)
Intact(x) ==
    /\ Saves(words[StackOf(x)], held[x])
    /\ sp[x] = Pointer(StackOf(x), Len(held[x].locals) + 7)

Waits(c) == HasStack(c) /\ ~ OnCpu(c)

PointsTo(c) ==
    /\ held[c].rip = Code(frame[c].at)
    /\ frame[c].at = "main" => held[c].locals = <<Sched>>

MachineInv ==
    /\ DOMAIN words = Regions \union {MainStack}
    /\ DOMAIN sp = Contexts /\ DOMAIN held = Contexts
    /\ \A c \in Slots : Waits(c) => Intact(c) /\ PointsTo(c)
    /\ pc = "coro" => Intact(Null)
    /\ cpu.rsp.stack = IF pc = "coro" THEN stacks[current].base ELSE MainStack

\* What StacksInv says about stacks that the machine needs.
LEMMA OwnBase ==
    ASSUME StacksInv, NEW c \in Slots, HasStack(c)
    PROVE  /\ stacks[c].base \in Regions /\ stacks[c].base # MainStack
           /\ memory[stacks[c].base] # Unmapped
           /\ \A d \in Slots : HasStack(d) /\ stacks[d].base = stacks[c].base => d = c
<1>1. EveryCoroutineHasItsStack
  BY StacksInvImplies
<1>2. PICK r \in Regions : Owns(c, r) /\ memory[r] = Guarded
  BY DEF StacksInv
<1>3. stacks[c].base = r
  BY <1>2, MappingFacts DEF Owns
<1> QED BY <1>1, <1>2, <1>3, MappingFacts, ContextAssumption DEF EveryCoroutineHasItsStack

LEMMA ContextKinds == /\ Null \in Contexts /\ Slots \subseteq Contexts
                      /\ \A c \in Slots : c # Null /\ StackOf(c) = stacks[c].base
                      /\ StackOf(Null) = MainStack
BY SchedulerAssumption DEF Contexts, Slots, Null, StackOf

\* A context whose stack, pointer and history a step leaves alone.
LEMMA IntactKept ==
    ASSUME NEW c \in Slots, Intact(c), stacks'[c] = stacks[c],
           words'[stacks[c].base] = words[stacks[c].base],
           sp'[c] = sp[c], held'[c] = held[c]
    PROVE  Intact(c)'
BY ContextKinds DEF Intact, StackOf

LEMMA PointsKept ==
    ASSUME NEW c \in Slots, PointsTo(c), held'[c] = held[c], frame'[c] = frame[c]
    PROVE  PointsTo(c)'
BY DEF PointsTo

LEMMA SchedulerKept ==
    ASSUME Intact(Null), words'[MainStack] = words[MainStack],
           sp'[Null] = sp[Null], held'[Null] = held[Null]
    PROVE  Intact(Null)'
BY ContextKinds DEF Intact, StackOf

-----------------------------------------------------------------------------
LEMMA HasIsSaved ==
    ASSUME NEW owner \in Jobs \union {NoJob}, NEW n \in Nat, NEW at \in Labels
    PROVE  [locals |-> Locals(owner, n), regs |-> Registers(owner, n), rip |-> Code(at)]
             \in Saved
<1>w. ASSUME NEW i \in Nat, NEW what \in Labels \union CalleeSaved \union {"local", "zero", "sched"}
      PROVE  Word(owner, i, what) \in Words
  BY DEF Word, Words
<1>1. Locals(owner, n) \in [1 .. n -> Words]
  <2>1. \A i \in 1 .. n : i \in Nat
    OBVIOUS
  <2>2. \A i \in 1 .. n : Word(owner, i, "local") \in Words
    BY <1>w, <2>1
  <2> QED BY <2>2 DEF Locals
<1>2. Locals(owner, n) \in Seq(Words)
  BY <1>1
<1>3. Registers(owner, n) \in [CalleeSaved -> Words]
  <2>1. \A r \in CalleeSaved : Word(owner, n, r) \in Words
    BY <1>w
  <2> QED BY <2>1 DEF Registers
<1>4. Code(at) \in Words
  BY DEF Code, Word, Words, Labels
<1> QED BY <1>2, <1>3, <1>4 DEF Saved

\* A switch from x, on the stack here, to y, which lies intact on there.
CanSwitch(x, y, here, there) ==
    /\ x \in Contexts /\ y \in Contexts /\ x # y
    /\ DOMAIN sp = Contexts /\ DOMAIN held = Contexts
    /\ here \in DOMAIN words /\ here = cpu.rsp.stack
    /\ there \in DOMAIN words /\ there # here
    /\ Saves(words[there], held[y])
    /\ sp[y] = Pointer(there, Len(held[y].locals) + 7)

Switched(x, y, at, here, there) ==
    /\ DOMAIN words' = DOMAIN words
    /\ DOMAIN sp' = Contexts /\ DOMAIN held' = Contexts
    /\ \A s \in DOMAIN words : s # here => words'[s] = words[s]
    /\ \A z \in Contexts : z # x => sp'[z] = sp[z] /\ held'[z] = held[z]
    /\ Saves(words'[here], held'[x])
    /\ sp'[x] = Pointer(here, Len(held'[x].locals) + 7)
    /\ held'[x].rip = Code(at)
    /\ cpu' = [rsp |-> Pointer(there, Len(held[y].locals)), regs |-> held[y].regs,
               rip |-> held[y].rip]

LEMMA SwitchDone ==
    ASSUME NEW x, NEW y, NEW owner \in Jobs \union {NoJob}, NEW depths \in SUBSET Nat,
           NEW at \in Labels, minimk_runtime_switch(x, y, owner, depths, at),
           NEW here, NEW there, CanSwitch(x, y, here, there)
    PROVE  Switched(x, y, at, here, there)
<1>0. /\ x \in Contexts /\ y \in Contexts /\ x # y
      /\ DOMAIN sp = Contexts /\ DOMAIN held = Contexts
      /\ here \in DOMAIN words /\ here = cpu.rsp.stack
      /\ there \in DOMAIN words /\ there # here
      /\ Saves(words[there], held[y])
      /\ sp[y] = Pointer(there, Len(held[y].locals) + 7)
  BY DEF CanSwitch
<1>1. PICK n \in depths :
        LET has == [locals |-> Locals(owner, n), regs |-> Registers(owner, n),
                    rip |-> Code(at)]
            pushed == has.locals \o <<has.rip>> \o Pushed(has.regs)
        IN  /\ words' = [words EXCEPT ![here] = pushed]
            /\ sp' = [sp EXCEPT ![x] = Pointer(here, Len(pushed))]
            /\ cpu' = Popped(words', sp[y])
            /\ held' = [held EXCEPT ![x] = has]
  BY <1>0 DEF minimk_runtime_switch
<1>2. PICK has : has = [locals |-> Locals(owner, n), regs |-> Registers(owner, n),
                        rip |-> Code(at)]
  OBVIOUS
<1>3. PICK pushed : pushed = has.locals \o <<has.rip>> \o Pushed(has.regs)
  OBVIOUS
<1>4. /\ words' = [words EXCEPT ![here] = pushed]
      /\ sp' = [sp EXCEPT ![x] = Pointer(here, Len(pushed))]
      /\ cpu' = Popped(words', sp[y])
      /\ held' = [held EXCEPT ![x] = has]
  BY <1>1, <1>2, <1>3, Zenon
<1>5. has \in Saved
  BY <1>2, HasIsSaved
<1>6. Saves(pushed, has) /\ Len(pushed) = Len(has.locals) + 7
  BY <1>3, <1>5, SwitchSaves
<1>7. has.rip = Code(at)
  BY <1>2
<1>8. words'[there] = words[there] /\ DOMAIN words' = DOMAIN words
  BY <1>0, <1>4
<1>9. cpu' = [rsp |-> Pointer(there, Len(held[y].locals)), regs |-> held[y].regs,
              rip |-> held[y].rip]
  <2>1. PICK w : w = words'
    OBVIOUS
  <2>2. PICK p, h : p = sp[y] /\ h = held[y]
    OBVIOUS
  <2>3. there \in DOMAIN w /\ Saves(w[there], h) /\ p = Pointer(there, Len(h.locals) + 7)
    BY <1>0, <1>8, <2>1, <2>2
  <2>4. Popped(w, p) = [rsp |-> Pointer(there, Len(h.locals)), regs |-> h.regs,
                        rip |-> h.rip]
    BY <2>3, PoppedIsSaved
  <2> QED BY <1>4, <2>1, <2>2, <2>4, Zenon
<1>10. words'[here] = pushed /\ held'[x] = has /\ sp'[x] = Pointer(here, Len(pushed))
  BY <1>0, <1>4
<1>11. /\ Saves(words'[here], held'[x])
       /\ sp'[x] = Pointer(here, Len(held'[x].locals) + 7)
       /\ held'[x].rip = Code(at)
  BY <1>6, <1>7, <1>10
<1>12. /\ DOMAIN sp' = Contexts /\ DOMAIN held' = Contexts
       /\ \A s \in DOMAIN words : s # here => words'[s] = words[s]
       /\ \A z \in Contexts : z # x => sp'[z] = sp[z] /\ held'[z] = held[z]
  BY <1>0, <1>4
<1> QED BY <1>8, <1>9, <1>11, <1>12 DEF Switched

-----------------------------------------------------------------------------
(***************************************************************************)
(* The two switches.                                                       *)
(***************************************************************************)
LEMMA EntersCoroutineDone ==
    ASSUME StacksInv, MachineInv, EntersCoroutine, NEW c \in Slots, c = current
    PROVE  /\ Continues(c) /\ cpu'.rip = Code(frame[c].at)
           /\ DOMAIN words' = DOMAIN words /\ DOMAIN sp' = Contexts /\ DOMAIN held' = Contexts
           /\ \A s \in Regions : words'[s] = words[s]
           /\ \A d \in Slots : sp'[d] = sp[d] /\ held'[d] = held[d]
           /\ Intact(Null)'
           /\ cpu'.rsp.stack = stacks[c].base
<1>1. pc = "switch" /\ Waits(c)
  BY DEF EntersCoroutine, ToCoroutine, StacksInv, Inv, SlotsConsistent, CurrentConsistent,
         Runnable, Waits, HasStack, OnCpu
<1>2. Intact(c) /\ held[c].rip = Code(frame[c].at)
  BY <1>1 DEF MachineInv, PointsTo
<1> DEFINE there == stacks[c].base
<1>3. /\ there \in Regions /\ there # MainStack
      /\ there \in DOMAIN words /\ MainStack \in DOMAIN words
      /\ cpu.rsp.stack = MainStack
  BY <1>1, OwnBase DEF Waits, MachineInv
<1>4. /\ Saves(words[there], held[c])
      /\ sp[c] = Pointer(there, Len(held[c].locals) + 7)
  BY <1>2, ContextKinds DEF Intact
<1>5. /\ Null \in Contexts /\ c \in Contexts /\ c # Null
      /\ NoJob \in Jobs \union {NoJob} /\ {RunDepth} \in SUBSET Nat /\ "run" \in Labels
      /\ DOMAIN sp = Contexts /\ DOMAIN held = Contexts
      /\ minimk_runtime_switch(Null, c, NoJob, {RunDepth}, "run")
  BY ContextKinds, ContextAssumption DEF Labels, MachineInv, EntersCoroutine
<1> HIDE DEF there
<1>6. /\ DOMAIN words' = DOMAIN words
      /\ DOMAIN sp' = Contexts /\ DOMAIN held' = Contexts
      /\ \A s \in DOMAIN words : s # MainStack => words'[s] = words[s]
      /\ \A z \in Contexts : z # Null => sp'[z] = sp[z] /\ held'[z] = held[z]
      /\ Saves(words'[MainStack], held'[Null])
      /\ sp'[Null] = Pointer(MainStack, Len(held'[Null].locals) + 7)
      /\ cpu' = [rsp |-> Pointer(there, Len(held[c].locals)), regs |-> held[c].regs,
                 rip |-> held[c].rip]
  <2>1. CanSwitch(Null, c, MainStack, there)
    BY <1>3, <1>4, <1>5 DEF CanSwitch
  <2>2. Switched(Null, c, "run", MainStack, there)
    BY <1>5, <2>1, SwitchDone
  <2> QED BY <2>2 DEF Switched
<1>7. Continues(c)
  BY <1>3, <1>4, <1>6, ContextKinds DEF Continues, there, Saves
<1>8. cpu'.rip = Code(frame[c].at) /\ cpu'.rsp.stack = there
  BY <1>2, <1>6 DEF Pointer
<1>9. /\ \A s \in Regions : words'[s] = words[s]
      /\ \A d \in Slots : sp'[d] = sp[d] /\ held'[d] = held[d]
  BY <1>6, ContextKinds, ContextAssumption DEF MachineInv
<1>10. Intact(Null)'
  BY <1>6, ContextKinds DEF Intact, StackOf
<1> QED BY <1>6, <1>7, <1>8, <1>9, <1>10 DEF there

LEMMA EntersSchedulerDone ==
    ASSUME StacksInv, MachineInv, EntersScheduler, NEW c \in Slots, c = current,
           frame'[c].at \in Labels
    PROVE  /\ Continues(Null)
           /\ DOMAIN words' = DOMAIN words /\ DOMAIN sp' = Contexts /\ DOMAIN held' = Contexts
           /\ \A s \in Regions : s # stacks[c].base => words'[s] = words[s]
           /\ \A d \in Slots : d # c => sp'[d] = sp[d] /\ held'[d] = held[d]
           /\ Saves(words'[stacks[c].base], held'[c])
           /\ sp'[c] = Pointer(stacks[c].base, Len(held'[c].locals) + 7)
           /\ held'[c].rip = Code(frame'[c].at)
           /\ cpu'.rsp.stack = MainStack
<1>1. pc = "coro" /\ HasStack(c) /\ coro[c].opaque \in Jobs \union {NoJob}
  BY ConstantTypes DEF EntersScheduler, ToScheduler, StacksInv, Inv, SlotsConsistent,
         CurrentConsistent, Runnable, HasStack, TypeOK, Coroutine
<1>2. Intact(Null)
  BY <1>1 DEF MachineInv
<1> DEFINE here == stacks[c].base
<1>3. /\ here \in Regions /\ here # MainStack
      /\ here \in DOMAIN words /\ MainStack \in DOMAIN words
      /\ here = cpu.rsp.stack
  BY <1>1, OwnBase DEF MachineInv
<1>4. /\ Saves(words[MainStack], held[Null])
      /\ sp[Null] = Pointer(MainStack, Len(held[Null].locals) + 7)
  BY <1>2, ContextKinds DEF Intact
<1>5. /\ Null \in Contexts /\ c \in Contexts /\ c # Null
      /\ Depths \in SUBSET Nat
      /\ DOMAIN sp = Contexts /\ DOMAIN held = Contexts
      /\ minimk_runtime_switch(c, Null, coro[c].opaque, Depths, frame'[c].at)
  BY ContextKinds, ContextAssumption DEF MachineInv, EntersScheduler
<1> HIDE DEF here
<1>6. /\ DOMAIN words' = DOMAIN words
      /\ DOMAIN sp' = Contexts /\ DOMAIN held' = Contexts
      /\ \A s \in DOMAIN words : s # here => words'[s] = words[s]
      /\ \A z \in Contexts : z # c => sp'[z] = sp[z] /\ held'[z] = held[z]
      /\ Saves(words'[here], held'[c])
      /\ sp'[c] = Pointer(here, Len(held'[c].locals) + 7)
      /\ held'[c].rip = Code(frame'[c].at)
      /\ cpu' = [rsp |-> Pointer(MainStack, Len(held[Null].locals)),
                 regs |-> held[Null].regs, rip |-> held[Null].rip]
  <2>1. CanSwitch(c, Null, here, MainStack)
    BY <1>3, <1>4, <1>5 DEF CanSwitch
  <2>2. Switched(c, Null, frame'[c].at, here, MainStack)
    BY <1>1, <1>5, <2>1, SwitchDone
  <2> QED BY <2>2 DEF Switched
<1>7. Continues(Null)
  BY <1>3, <1>4, <1>6, ContextKinds DEF Continues, Saves
<1>8. cpu'.rsp.stack = MainStack
  BY <1>6 DEF Pointer
<1>9. /\ \A s \in Regions : s # here => words'[s] = words[s]
      /\ \A d \in Slots : d # c => sp'[d] = sp[d] /\ held'[d] = held[d]
  BY <1>6, ContextKinds DEF MachineInv
<1> QED BY <1>6, <1>7, <1>8, <1>9 DEF here

LEMMA InitialFrameSaves ==
    LET h == [locals |-> <<Sched>>, regs |-> Zeroed, rip |-> Code("main")]
    IN  Saves(InitialFrame, h) /\ Len(InitialFrame) = Len(h.locals) + 7
<1>1. PICK h : h = [locals |-> <<Sched>>, regs |-> Zeroed, rip |-> Code("main")]
  OBVIOUS
<1>2. Sched \in Words /\ Zero \in Words /\ Code("main") \in Words
  BY DEF Sched, Zero, Code, Word, Words, Labels
<1>3. <<Sched>> \in Seq(Words) /\ Zeroed \in [CalleeSaved -> Words]
  BY <1>2 DEF Zeroed
<1>4. h \in Saved
  BY <1>1, <1>2, <1>3 DEF Saved
<1>5. InitialFrame = h.locals \o <<h.rip>> \o Pushed(h.regs)
  BY <1>1 DEF InitialFrame
<1> QED BY <1>1, <1>4, <1>5, SwitchSaves

-----------------------------------------------------------------------------
(***************************************************************************)
(* Every step of the scheduler and its stacks keeps the machine's          *)
(* invariant.                                                              *)
(***************************************************************************)
LEMMA MachineStart == StacksInit /\ ContextInit => MachineInv
<1> SUFFICES ASSUME StacksInit, ContextInit PROVE MachineInv
  OBVIOUS
<1>1. pc = "main" /\ \A c \in Slots : ~ HasStack(c)
  BY SlotEffects DEF StacksInit, Init, HasStack
<1>2. cpu.rsp.stack = MainStack
  BY DEF ContextInit, Pointer
<1> QED BY <1>1, <1>2 DEF ContextInit, MachineInv, Waits

\* Steps that leave the machine alone, and every slot, stack and frame that
\* it remembers something of.
LEMMA MachineKept ==
    ASSUME MachineInv, UNCHANGED machine,
           \A c \in Slots : HasStack(c)' => HasStack(c) /\ stacks'[c] = stacks[c]
                                                        /\ frame'[c] = frame[c],
           pc' = "coro" <=> pc = "coro",
           pc = "coro" => /\ current' = current /\ current \in Slots
                          /\ stacks'[current] = stacks[current]
    PROVE  MachineInv'
<1>1. ASSUME NEW c \in Slots, Waits(c)'
      PROVE  Intact(c)' /\ PointsTo(c)'
  <2>1. Waits(c) /\ stacks'[c] = stacks[c] /\ frame'[c] = frame[c]
    BY <1>1 DEF Waits, OnCpu
  <2> QED BY <2>1, IntactKept, PointsKept DEF MachineInv, machine
<1>2. pc' = "coro" => Intact(Null)'
  BY SchedulerKept DEF MachineInv, machine
<1>3. cpu'.rsp.stack = IF pc' = "coro" THEN stacks'[current'].base ELSE MainStack
  BY DEF MachineInv, machine
<1> QED BY <1>1, <1>2, <1>3 DEF MachineInv, machine

\* The kinds of steps that leave stacks alone.
LEMMA LeavesKinds ==
    ASSUME Inv, LeavesStacks \/ UNCHANGED vars
    PROVE  \/ /\ ToCoroutine /\ current' = current /\ current \in Slots
              /\ \A d \in Slots : d # current => frame'[d] = frame[d]
           \/ /\ ToScheduler /\ current' = current /\ current \in Slots
              /\ frame'[current].at # "main"
              /\ \A d \in Slots : d # current => frame'[d] = frame[d]
           \/ /\ ~ ToCoroutine /\ ~ ToScheduler /\ frame' = frame
              /\ pc' = "coro" <=> pc = "coro"
              /\ pc = "coro" => current' = current /\ current \in Slots
<1>0. /\ pc \in {"switch", "coro"} => current \in Slots
      /\ frame \in [Slots -> Frame]
  BY DEF Inv, TypeOK, SlotsConsistent, CurrentConsistent
<1>1. CASE StartEntry \/ ReturnFromYield \/ ResumeTimer \/ ResumeIo
  <2>1. /\ pc = "switch" /\ pc' = "coro" /\ current' = current
        /\ frame' = [frame EXCEPT ![current] = NoFrame]
    BY <1>1 DEF StartEntry, ReturnFromYield, ResumeTimer, ResumeIo, SwitchTo
  <2> QED BY <1>0, <2>1 DEF ToCoroutine
<1>2. CASE CoroutineGivesBack
  <2>1. PICK f : GiveBack(f) /\ f.at # "main"
    <3>1. CASE Yield
      BY <3>1, SlotEffects DEF Yield
    <3>2. CASE EntryReturns
      BY <3>2, SlotEffects DEF EntryReturns
    <3>3. ASSUME NEW d \in Durations, Nanosleep(d) PROVE \E f : GiveBack(f) /\ f.at # "main"
      <4>1. GiveBack([NoFrame EXCEPT !.at = "timer", !.until = Until(d)])
        BY <3>3 DEF Nanosleep
      <4>2. [NoFrame EXCEPT !.at = "timer", !.until = Until(d)].at = "timer"
        BY DEF NoFrame
      <4> QED BY <4>1, <4>2
    <3>4. ASSUME NEW s \in Fds, NEW e \in Requestable, NEW d \in Durations, SuspendIo(s, e, d)
          PROVE  \E f : GiveBack(f) /\ f.at # "main"
      BY <3>4 DEF SuspendIo
    <3> QED BY <1>2, <3>1, <3>2, <3>3, <3>4 DEF CoroutineGivesBack
  <2>2. /\ pc = "coro" /\ pc' = "back" /\ current' = current
        /\ frame' = [frame EXCEPT ![current] = f]
    BY <2>1 DEF GiveBack
  <2> QED BY <1>0, <2>1, <2>2 DEF ToScheduler
<1>3. CASE \/ \E j \in Jobs : GoNoSlot(j)
           \/ Environment \/ UNCHANGED vars
  <2>1. frame' = frame /\ pc' = pc /\ current' = current
    BY <1>3 DEF GoNoSlot, Environment, Tick, ReadyChanges, runtime, vars
  <2> QED BY <1>0, <2>1 DEF ToCoroutine, ToScheduler
<1>4. CASE \/ Run \/ LoopEnds \/ PickRunnable \/ PickNothing \/ PollScan \/ PollEnter
           \/ PollOutcome \/ SwitchAborts \/ SwitchBack \/ MaybeExpireDeadlines
           \/ PollResume
  <2>1. frame' = frame /\ pc # "coro" /\ pc' # "coro"
    BY <1>4
    DEF Run, LoopEnds, PickRunnable, PickNothing, PollScan, PollEnter, PollOutcome,
        PollReturns, PollInterrupted, PollFails, MaybeExpireDeadlines, PollResume,
        SwitchAborts, SwitchBack
  <2> QED BY <1>0, <2>1 DEF ToCoroutine, ToScheduler
<1> QED BY <1>1, <1>2, <1>3, <1>4, SwitchCases DEF LeavesStacks

\* A switch neither creates nor frees a coroutine.
LEMMA SwitchesOnly ==
    ASSUME Inv, StacksNext, ToCoroutine \/ ToScheduler
    PROVE  \A c \in Slots : ~ Created(c) /\ ~ Freed(c)
<1>1. CASE LeavesStacks
  BY <1>1, OthersKeepStacks DEF HasStack, FreeSlot, Created, Freed
<1>2. ASSUME NEW j \in Jobs, GoCreates(j) \/ GoStackAllocFails(j) PROVE FALSE
  BY <1>2 DEF GoCreates, GoStackAllocFails, ToCoroutine, ToScheduler
<1>3. ~ CleanExited
  BY DEF CleanExited, ToCoroutine, ToScheduler
<1> QED BY <1>1, <1>2, <1>3 DEF StacksNext

LEMMA MachineStep ==
    StacksInv /\ StacksInv' /\ MachineInv /\ [StacksNext /\ Machine]_<<vars, memVars, machine>>
        => MachineInv'
<1> SUFFICES ASSUME StacksInv, StacksInv', MachineInv,
                    [StacksNext /\ Machine]_<<vars, memVars, machine>>
             PROVE  MachineInv'
  OBVIOUS
<1>0. /\ Inv /\ Inv' /\ coro \in [Slots -> Coroutine] /\ frame \in [Slots -> Frame]
      /\ \A c \in Slots : frame'[c].at \in Labels
      /\ DOMAIN stacks = Slots
      /\ pc = "coro" => current \in Slots /\ HasStack(current)
  BY DEF StacksInv, Inv, TypeOK, Frame, Labels, SlotsConsistent, CurrentConsistent,
         Runnable, HasStack
<1>1. ASSUME NEW j \in Jobs, GoCreates(j), StackAlloc, Machine PROVE MachineInv'
  <2>1. PICK c \in Slots, r \in Regions :
            /\ FirstFree(c) /\ memory[r] = Unmapped
            /\ stacks' = [stacks EXCEPT ![c] = StackAt(r)]
    BY <1>1 DEF StackAlloc
  <2>2. PICK b \in Slots : FirstFree(b) /\ coro' = [coro EXCEPT ![b] = Fresh(j)]
                                       /\ frame' = [frame EXCEPT ![b] = At("main")]
    BY <1>1 DEF GoCreates
  <2>3. b = c
    BY <2>1, <2>2 DEF FirstFree, Slots
  <2>4. /\ ~ HasStack(c) /\ Created(c) /\ \A d \in Slots : d # c => ~ Created(d)
        /\ \A d \in Slots : ~ Freed(d)
        /\ \A d \in Slots : d # c => (HasStack(d)' <=> HasStack(d)) /\ frame'[d] = frame[d]
                                                                 /\ stacks'[d] = stacks[d]
        /\ stacks'[c] = StackAt(r) /\ stacks'[c].base = r
        /\ frame'[c].at = "main"
        /\ pc' = pc /\ current' = current
    BY <1>0, <1>1, <2>1, <2>2, <2>3, SlotEffects, MappingFacts
    DEF HasStack, FirstFree, FreeSlot, Created, Freed, GoCreates
  <2>5. minimk_runtime_init_coro_stack(c)
    BY <1>1, <2>4 DEF Machine, InitsStack, EntersCoroutine, EntersScheduler, Forgets, RunsOn,
                      ToCoroutine, ToScheduler
  <2> DEFINE h == [locals |-> <<Sched>>, regs |-> Zeroed, rip |-> Code("main")]
  <2>6. /\ words' = [words EXCEPT ![r] = InitialFrame]
        /\ sp' = [sp EXCEPT ![c] = Pointer(r, Len(InitialFrame))]
        /\ held' = [held EXCEPT ![c] = h] /\ cpu' = cpu
    BY <2>4, <2>5 DEF minimk_runtime_init_coro_stack
  <2>7. Saves(InitialFrame, h) /\ Len(InitialFrame) = Len(h.locals) + 7 /\ h.rip = Code("main")
        /\ h.locals = <<Sched>>
    BY InitialFrameSaves
  <2> HIDE DEF h
  <2>8. /\ c \in Contexts /\ c # Null /\ r \in DOMAIN words /\ r # MainStack
        /\ DOMAIN sp = Contexts /\ DOMAIN held = Contexts
    BY ContextKinds, ContextAssumption DEF MachineInv
  <2>9. /\ words'[r] = InitialFrame /\ sp'[c] = Pointer(r, Len(InitialFrame)) /\ held'[c] = h
        /\ \A s \in Regions \union {MainStack} : s # r => words'[s] = words[s]
        /\ \A x \in Contexts : x # c => sp'[x] = sp[x] /\ held'[x] = held[x]
    BY <2>6, <2>8 DEF MachineInv
  <2>10. Intact(c)' /\ PointsTo(c)'
    BY <2>4, <2>7, <2>8, <2>9 DEF Intact, StackOf, PointsTo
  <2>11. ASSUME NEW d \in Slots, Waits(d)', d # c
         PROVE  Intact(d)' /\ PointsTo(d)'
    <3>1. Waits(d) /\ HasStack(d)
      BY <2>4, <2>11 DEF Waits, OnCpu
    <3>2. stacks[d].base \in Regions /\ stacks[d].base # r
      BY <2>1, <3>1, OwnBase
    <3>3. sp'[d] = sp[d] /\ held'[d] = held[d] /\ words'[stacks[d].base] = words[stacks[d].base]
      BY <2>9, <2>11, <3>2, ContextKinds
    <3>4. stacks'[d] = stacks[d] /\ frame'[d] = frame[d]
      BY <2>4, <2>11
    <3> QED BY <3>1, <3>3, <3>4, IntactKept, PointsKept DEF MachineInv
  <2>12. pc' = "coro" => Intact(Null)'
    BY <2>4, <2>8, <2>9, SchedulerKept, ContextKinds DEF MachineInv
  <2>13. cpu'.rsp.stack = IF pc' = "coro" THEN stacks'[current'].base ELSE MainStack
    <3>1. pc = "coro" => current # c
      BY <1>0, <2>4
    <3> QED BY <1>0, <2>4, <2>6, <3>1 DEF MachineInv
  <2>14. /\ DOMAIN words' = Regions \union {MainStack}
         /\ DOMAIN sp' = Contexts /\ DOMAIN held' = Contexts
    BY <2>6 DEF MachineInv
  <2> QED BY <2>10, <2>11, <2>12, <2>13, <2>14 DEF MachineInv
<1>2. ASSUME NEW j \in Jobs, GoStackAllocFails(j), MmapFails \/ MprotectFails, Machine
      PROVE  MachineInv'
  <2>1. PICK c \in Slots : FirstFree(c) /\ \A d \in Slots : d # c => stacks'[d] = stacks[d]
    BY <1>0, <1>2 DEF MmapFails, MprotectFails
  <2>2. PICK b \in Slots : FirstFree(b) /\ coro' = [coro EXCEPT ![b] = Dirty(j)]
                                       /\ frame' = [frame EXCEPT ![b] = NoFrame]
    BY <1>2 DEF GoStackAllocFails
  <2>3. b = c
    BY <2>1, <2>2 DEF FirstFree, Slots
  <2>4. /\ \A d \in Slots : (HasStack(d)' <=> HasStack(d)) /\ ~ Created(d) /\ ~ Freed(d)
        /\ ~ HasStack(c)
        /\ \A d \in Slots : HasStack(d) => stacks'[d] = stacks[d] /\ frame'[d] = frame[d]
        /\ pc' = pc /\ current' = current
    BY <1>0, <1>2, <2>1, <2>2, <2>3, SlotEffects
    DEF HasStack, FirstFree, FreeSlot, Created, Freed, GoStackAllocFails
  <2>5. UNCHANGED machine
    BY <1>2, <2>4 DEF Machine, InitsStack, EntersCoroutine, EntersScheduler, Forgets, RunsOn,
                      ToCoroutine, ToScheduler
  <2> QED BY <1>0, <2>4, <2>5, MachineKept
<1>3. CASE CleanExited /\ StackFree /\ Machine
  <2>1. /\ pc = "loop" /\ pc' = "expire"
        /\ \A d \in Slots : /\ HasStack(d)' <=> HasStack(d) /\ coro[d].state # "EXITED"
                            /\ Freed(d) <=> coro[d].state = "EXITED"
                            /\ ~ Created(d)
                            /\ HasStack(d)' => stacks'[d] = stacks[d] /\ frame'[d] = frame[d]
    BY <1>0, <1>3, SlotEffects
    DEF CleanExited, StackFree, Finish, HasStack, FreeSlot, Created, Freed
  <2>2. CASE Forgets
    <3>1. ASSUME NEW d \in Slots, Waits(d)'
          PROVE  Intact(d)' /\ PointsTo(d)'
      <4>1. Waits(d) /\ HasStack(d) /\ ~ Freed(d)
        BY <2>1, <3>1 DEF Waits, OnCpu
      <4>2. stacks[d].base \in Regions
            /\ \A e \in Slots : HasStack(e) /\ stacks[e].base = stacks[d].base => e = d
        BY <4>1, OwnBase
      <4>3. ~ \E e \in Slots : Freed(e) /\ stacks[e].base = stacks[d].base
        BY <4>1, <4>2 DEF Freed, FreeSlot, HasStack
      <4>4. words'[stacks[d].base] = words[stacks[d].base]
        BY <2>2, <4>2, <4>3 DEF Forgets, MachineInv
      <4>5. sp'[d] = sp[d] /\ held'[d] = held[d]
        BY <2>2, <4>1, ContextKinds DEF Forgets
      <4>6. stacks'[d] = stacks[d] /\ frame'[d] = frame[d]
        BY <2>1, <3>1 DEF Waits
      <4> QED BY <4>1, <4>4, <4>5, <4>6, IntactKept, PointsKept DEF MachineInv
    <3>2. cpu'.rsp.stack = MainStack
      BY <2>1, <2>2 DEF Forgets, MachineInv
    <3>3. /\ DOMAIN words' = Regions \union {MainStack}
          /\ DOMAIN sp' = Contexts /\ DOMAIN held' = Contexts
      BY <2>2 DEF Forgets, MachineInv
    <3> QED BY <2>1, <3>1, <3>2, <3>3 DEF MachineInv
  <2>3. CASE UNCHANGED machine
    BY <2>1, <2>3, MachineKept
  <2> QED BY <1>3, <2>1, <2>2, <2>3
          DEF Machine, InitsStack, EntersCoroutine, EntersScheduler, RunsOn, ToCoroutine,
              ToScheduler
<1>4. CASE LeavesStacks /\ UNCHANGED memVars /\ Machine
  <2>1. \A d \in Slots : (HasStack(d)' <=> HasStack(d)) /\ ~ Created(d) /\ ~ Freed(d)
                        /\ stacks'[d] = stacks[d]
    BY <1>0, <1>4, OthersKeepStacks DEF HasStack, FreeSlot, Created, Freed, memVars
  <2>2. CASE /\ ToCoroutine /\ current' = current /\ current \in Slots
             /\ \A d \in Slots : d # current => frame'[d] = frame[d]
    <3>1. EntersCoroutine
      BY <1>4, <2>1, <2>2 DEF Machine, InitsStack, EntersScheduler, Forgets, RunsOn,
                              ToCoroutine, ToScheduler
    <3>2. PICK c \in Slots : c = current
      BY <2>2
    <3>3. /\ DOMAIN words' = DOMAIN words /\ DOMAIN sp' = Contexts /\ DOMAIN held' = Contexts
          /\ \A s \in Regions : words'[s] = words[s]
          /\ \A d \in Slots : sp'[d] = sp[d] /\ held'[d] = held[d]
          /\ Intact(Null)'
          /\ cpu'.rsp.stack = stacks[c].base
      BY <3>1, <3>2, EntersCoroutineDone
    <3>4. ASSUME NEW d \in Slots, Waits(d)'
          PROVE  Intact(d)' /\ PointsTo(d)'
      <4>1. d # current
        BY <2>2, <3>4 DEF Waits, OnCpu, ToCoroutine
      <4>2. Waits(d) /\ HasStack(d)
        BY <2>1, <2>2, <3>4 DEF Waits, OnCpu, ToCoroutine
      <4>3. stacks[d].base \in Regions
        BY <4>2, OwnBase
      <4> QED BY <2>1, <2>2, <3>3, <4>1, <4>2, <4>3, IntactKept, PointsKept DEF MachineInv
    <3>5. pc' = "coro" /\ stacks'[current'] = stacks[c]
      BY <2>1, <2>2, <3>2 DEF ToCoroutine
    <3> QED BY <3>3, <3>4, <3>5 DEF MachineInv
  <2>3. CASE /\ ToScheduler /\ current' = current /\ current \in Slots
             /\ frame'[current].at # "main"
             /\ \A d \in Slots : d # current => frame'[d] = frame[d]
    <3>1. EntersScheduler
      BY <1>4, <2>1, <2>3 DEF Machine, InitsStack, EntersCoroutine, Forgets, RunsOn,
                              ToCoroutine, ToScheduler
    <3>2. PICK c \in Slots : c = current
      BY <2>3
    <3>3. pc = "coro" /\ pc' = "back" /\ HasStack(c)
      BY <1>0, <2>3, <3>2 DEF ToScheduler
    <3>4. /\ DOMAIN words' = DOMAIN words /\ DOMAIN sp' = Contexts /\ DOMAIN held' = Contexts
          /\ \A s \in Regions : s # stacks[c].base => words'[s] = words[s]
          /\ \A d \in Slots : d # c => sp'[d] = sp[d] /\ held'[d] = held[d]
          /\ Saves(words'[stacks[c].base], held'[c])
          /\ sp'[c] = Pointer(stacks[c].base, Len(held'[c].locals) + 7)
          /\ held'[c].rip = Code(frame'[c].at)
          /\ cpu'.rsp.stack = MainStack
      BY <1>0, <3>1, <3>2, EntersSchedulerDone
    <3>5. Intact(c)' /\ PointsTo(c)'
      BY <2>1, <2>3, <3>2, <3>4, ContextKinds DEF Intact, StackOf, PointsTo
    <3>6. ASSUME NEW d \in Slots, Waits(d)', d # c
          PROVE  Intact(d)' /\ PointsTo(d)'
      <4>1. Waits(d) /\ HasStack(d)
        BY <2>1, <3>2, <3>6 DEF Waits, OnCpu
      <4>2. stacks[d].base \in Regions /\ stacks[d].base # stacks[c].base
        BY <3>3, <3>6, <4>1, OwnBase
      <4> QED BY <2>1, <2>3, <3>2, <3>4, <3>6, <4>1, <4>2, IntactKept, PointsKept DEF MachineInv
    <3> QED BY <3>3, <3>4, <3>5, <3>6 DEF MachineInv
  <2>4. CASE /\ ~ ToCoroutine /\ ~ ToScheduler /\ frame' = frame
             /\ pc' = "coro" <=> pc = "coro"
             /\ pc = "coro" => current' = current /\ current \in Slots
    <3>1. UNCHANGED machine
      BY <1>4, <2>1, <2>4 DEF Machine, InitsStack, EntersCoroutine, EntersScheduler,
                              Forgets, RunsOn
    <3> QED BY <2>1, <2>4, <3>1, MachineKept
  <2> QED BY <1>0, <1>4, <2>2, <2>3, <2>4, LeavesKinds
<1>5. CASE UNCHANGED <<vars, memVars, machine>>
  BY <1>0, <1>5, MachineKept DEF vars, memVars, HasStack
<1> QED BY <1>1, <1>2, <1>3, <1>4, <1>5 DEF StacksNext

(***************************************************************************)
(* Whoever is switched to finds its own registers, its own stack with      *)
(* every local on it, and continues where it called switch, for any number *)
(* of coroutines, regions and words on a stack.                            *)
(***************************************************************************)
THEOREM SwitchesAreTransparent == ContextSpec => ContinuesWhereItStopped
<1> DEFINE Step ==
      /\ ToCoroutine => Continues(current) /\ cpu'.rip = Code(frame[current].at)
      /\ ToScheduler => Continues(Null)
<1>1. StacksInit /\ ContextInit => StacksInv /\ MachineInv
  BY StacksStart, MachineStart
<1>2. /\ StacksInv /\ MachineInv
      /\ [StacksNext /\ Machine]_<<vars, memVars, machine>>
      => StacksInv' /\ MachineInv'
  BY StacksStep, MachineStep DEF vars, memVars
<1>3. /\ StacksInv /\ StacksInv' /\ MachineInv
      /\ [StacksNext /\ Machine]_<<vars, memVars, machine>>
      => [Step]_<<vars, memVars, machine>>
  <2> SUFFICES ASSUME StacksInv, StacksInv', MachineInv, StacksNext, Machine PROVE Step
    OBVIOUS
  <2>0. Inv
    BY DEF StacksInv
  <2>1. pc \in {"switch", "coro"} => current \in Slots
    BY DEF StacksInv, Inv, TypeOK, SlotsConsistent, CurrentConsistent
  <2>2. \A c \in Slots : frame'[c].at \in Labels
    BY DEF StacksInv, Inv, TypeOK, Frame, Labels
  <2>3. ASSUME ToCoroutine
        PROVE  Continues(current) /\ cpu'.rip = Code(frame[current].at)
    <3>1. EntersCoroutine
      BY <2>0, <2>3, SwitchesOnly DEF Machine, InitsStack, EntersScheduler, Forgets, RunsOn,
                                      ToCoroutine, ToScheduler
    <3> QED BY <2>1, <2>3, <3>1, EntersCoroutineDone DEF ToCoroutine
  <2>4. ASSUME ToScheduler PROVE Continues(Null)
    <3>1. EntersScheduler
      BY <2>0, <2>4, SwitchesOnly DEF Machine, InitsStack, EntersCoroutine, Forgets, RunsOn,
                                      ToCoroutine, ToScheduler
    <3> QED BY <2>1, <2>2, <2>4, <3>1, EntersSchedulerDone DEF ToScheduler
  <2> QED BY <2>3, <2>4
<1> QED BY <1>1, <1>2, <1>3, PTL DEF ContextSpec, ContinuesWhereItStopped

(***************************************************************************)
(* A new coroutine calls coroutine_main with its scheduler, on a stack     *)
(* aligned to 16 bytes.                                                    *)
(***************************************************************************)
THEOREM EntersMain == ContextSpec => EntersMainAligned
<1> DEFINE Step ==
      ToCoroutine /\ frame[current].at = "main" =>
        LET call == minimk_runtime_asm_trampoline(words', cpu'.rsp)
        IN  call.argument = Sched /\ call.used % 2 = 0
<1>1. StacksInit /\ ContextInit => StacksInv /\ MachineInv
  BY StacksStart, MachineStart
<1>2. /\ StacksInv /\ MachineInv
      /\ [StacksNext /\ Machine]_<<vars, memVars, machine>>
      => StacksInv' /\ MachineInv'
  BY StacksStep, MachineStep DEF vars, memVars
<1>3. /\ StacksInv /\ StacksInv' /\ MachineInv
      /\ [StacksNext /\ Machine]_<<vars, memVars, machine>>
      => [Step]_<<vars, memVars, machine>>
  <2> SUFFICES ASSUME StacksInv, StacksInv', MachineInv, StacksNext, Machine,
                      ToCoroutine, frame[current].at = "main"
               PROVE  LET call == minimk_runtime_asm_trampoline(words', cpu'.rsp)
                      IN  call.argument = Sched /\ call.used % 2 = 0
    OBVIOUS
  <2>1. Inv /\ pc = "switch" /\ current \in Slots /\ Waits(current)
    BY DEF StacksInv, Inv, TypeOK, SlotsConsistent, CurrentConsistent, ToCoroutine, Runnable,
           Waits, HasStack, OnCpu
  <2>2. PICK c \in Slots : c = current
    BY <2>1
  <2>3. EntersCoroutine
    BY <2>1, SwitchesOnly DEF Machine, InitsStack, EntersScheduler, Forgets, RunsOn,
                              ToCoroutine, ToScheduler
  <2>4. Continues(c) /\ DOMAIN words' = DOMAIN words /\ \A s \in Regions : words'[s] = words[s]
    BY <2>2, <2>3, EntersCoroutineDone
  <2>5. held[c].locals = <<Sched>> /\ Intact(c)
    BY <2>1, <2>2 DEF MachineInv, PointsTo
  <2>6. PICK there : there = stacks[c].base
    OBVIOUS
  <2>7. there \in DOMAIN words /\ there \in Regions
    BY <2>1, <2>2, <2>6, OwnBase DEF Waits, MachineInv
  <2>8. cpu'.rsp = Pointer(there, 1) /\ words'[there][1] = Sched
    BY <2>4, <2>5, <2>6, ContextKinds DEF Continues
  <2>9. 1 \in DOMAIN words'[there]
    <3>1. DOMAIN words[there] = 1 .. Len(held[c].locals) + 7
      BY <2>5, <2>6, ContextKinds DEF Intact, Saves
    <3>2. Len(held[c].locals) = 1
      BY <2>5
    <3> QED BY <2>4, <2>7, <3>1, <3>2
  <2> QED BY <2>4, <2>7, <2>8, <2>9 DEF minimk_runtime_asm_trampoline, Load, Pointer
<1> QED BY <1>1, <1>2, <1>3, PTL DEF ContextSpec, EntersMainAligned
=============================================================================
