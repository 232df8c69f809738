------------------------------- MODULE Stacks -------------------------------
(***************************************************************************)
(* The stacks of the coroutines in memory (runtime/stack_linux.hpp) beside *)
(* the Scheduler whose slots own them: what minimk_runtime_stack_alloc and *)
(* _free do with mmap(2), mprotect(2) and munmap(2) when go creates a      *)
(* coroutine or fails to, and when the run loop cleans up exited ones.     *)
(*                                                                         *)
(* Scheduler says of a slot only whether it has a stack.  Here a slot has  *)
(* its struct stack, which may be out of date, and memory its mappings.    *)
(***************************************************************************)
EXTENDS Scheduler

CONSTANTS
    Regions,        \* the places where mmap may put a mapping
    NoRegion,       \* the null address, base of a zeroed struct stack
    PageSize,       \* getpagesize()
    DesiredStack    \* 64 KiB

ASSUME StacksAssumption ==
    /\ NoRegion \notin Regions
    /\ PageSize \in Nat \ {0}
    /\ DesiredStack \in Nat \ {0}

VARIABLES
    stacks,    \* the struct stack of each slot
    memory     \* what is mapped at each region

memVars == <<stacks, memory>>

-----------------------------------------------------------------------------
(***************************************************************************)
(* minimk_coro_stack_size_impl.  For a page size that is a power of two,   *)
(* (desired + mask) & ~mask is a division that rounds up.                  *)
(***************************************************************************)
stack_size(page_size) ==
    IF page_size > DesiredStack THEN page_size
    ELSE ((DesiredStack + (page_size - 1)) \div page_size) * page_size

(***************************************************************************)
(* struct stack, with bottom and top as distances from base.  The size     *)
(* includes the guard page and is set before anything can fail; base,      *)
(* bottom and top are set once mmap succeeded.                             *)
(***************************************************************************)
ZeroStack == [base |-> NoRegion, size |-> 0, bottom |-> 0, top |-> 0]
TotalSize == stack_size(PageSize) + PageSize
Sized == [ZeroStack EXCEPT !.size = TotalSize]
StackAt(r) == [base |-> r, size |-> TotalSize, bottom |-> PageSize, top |-> TotalSize]

(***************************************************************************)
(* The memory at a region: how much is mapped from its beginning, and how  *)
(* much of that, from the beginning too, must not be touched.  munmap of   *)
(* less than the whole mapping leaves a rest behind.                       *)
(***************************************************************************)
Unmapped == [mapped |-> 0, guard |-> 0]
mmap(size) == [mapped |-> size, guard |-> 0]
mprotect(m, size) == [m EXCEPT !.guard = size]
munmap(m, size) ==
    IF size >= m.mapped THEN Unmapped ELSE [mapped |-> m.mapped - size, guard |-> 0]

(***************************************************************************)
(* minimk_runtime_stack_alloc for the slot that go takes, which zeroed it  *)
(* first.  When mprotect fails the new mapping is removed again.           *)
(***************************************************************************)
StackAlloc ==
    \E c \in Slots, r \in Regions :
        /\ FirstFree(c) /\ memory[r] = Unmapped
        /\ memory' = [memory EXCEPT ![r] = mprotect(mmap(TotalSize), PageSize)]
        /\ stacks' = [stacks EXCEPT ![c] = StackAt(r)]

MmapFails ==
    \E c \in Slots :
        /\ FirstFree(c)
        /\ stacks' = [stacks EXCEPT ![c] = Sized]
        /\ UNCHANGED memory

\* Slip: the mapping without a guard page stays.
MprotectFailsLeaks ==
    \E c \in Slots, r \in Regions :
        /\ FirstFree(c) /\ memory[r] = Unmapped
        /\ memory' = [memory EXCEPT ![r] = mmap(TotalSize)]
        /\ stacks' = [stacks EXCEPT ![c] = StackAt(r)]
MprotectFails ==
    \E c \in Slots, r \in Regions :
        /\ FirstFree(c) /\ memory[r] = Unmapped
        /\ memory' = [memory EXCEPT ![r] = munmap(mmap(TotalSize), TotalSize)]
        /\ stacks' = [stacks EXCEPT ![c] = StackAt(r)]

(***************************************************************************)
(* minimk_runtime_stack_free for every exited coroutine; finish zeroes the *)
(* struct stack with the rest of the slot.  The slip frees unused slots    *)
(* too, whose struct stack may be that of an allocation that failed.       *)
(***************************************************************************)
FreesUnused(c, r) == coro[c].state \in {"NULL", "EXITED"} /\ stacks[c].base = r
Frees(c, r) == coro[c].state = "EXITED" /\ stacks[c].base = r

StackFree ==
    /\ memory' = [r \in Regions |->
                    IF \E c \in Slots : Frees(c, r)
                    THEN munmap(memory[r], stacks[CHOOSE c \in Slots : Frees(c, r)].size)
                    ELSE memory[r]]
    /\ stacks' = [c \in Slots |->
                    IF coro[c].state = "EXITED" THEN ZeroStack ELSE stacks[c]]

-----------------------------------------------------------------------------
StacksInit ==
    /\ Init
    /\ stacks = [c \in Slots |-> ZeroStack]
    /\ memory = [r \in Regions |-> Unmapped]

\* The steps of Scheduler that neither allocate nor free a stack.
LeavesStacks ==
    \/ \E j \in Jobs : GoNoSlot(j)
    \/ Run \/ LoopEnds \/ MaybeExpireDeadlines \/ PickRunnable \/ PickNothing
    \/ PollScan \/ PollEnter \/ PollResume \/ Switch \/ SwitchBack
    \/ PollOutcome \/ CoroutineGivesBack \/ Environment

StacksNext ==
    \/ \E j \in Jobs :
        \/ GoCreates(j) /\ StackAlloc
        \/ GoStackAllocFails(j) /\ (MmapFails \/ MprotectFails)
    \/ CleanExited /\ StackFree
    \/ LeavesStacks /\ UNCHANGED memVars

StacksSpec == StacksInit /\ [][StacksNext]_<<vars, memVars>>

-----------------------------------------------------------------------------
(***************************************************************************)
(* Every coroutine that exists, also one that exited and was not cleaned   *)
(* up yet, has a stack of its own that is mapped as a whole, is as large   *)
(* as desired, and ends in a guard page: whatever go failed before, in     *)
(* whatever slot, and whichever regions the kernel reuses.                 *)
(***************************************************************************)
HasStack(c) == coro[c].state # "NULL"

StackIsMapped(s) ==
    /\ s.base \in Regions
    /\ memory[s.base] = [mapped |-> s.top, guard |-> s.bottom]
    /\ s.bottom > 0
    /\ s.top >= s.bottom + DesiredStack

EveryCoroutineHasItsStack ==
    \A c \in Slots : HasStack(c) =>
        /\ StackIsMapped(stacks[c])
        /\ \A d \in Slots : HasStack(d) /\ stacks[d].base = stacks[c].base => d = c

(***************************************************************************)
(* No mapping outlives its coroutine: what is mapped is the stack of some  *)
(* coroutine, also when mprotect failed after mmap had succeeded.          *)
(***************************************************************************)
NoMappingLeaks ==
    \A r \in Regions :
        memory[r] # Unmapped => \E c \in Slots : HasStack(c) /\ stacks[c].base = r
=============================================================================
