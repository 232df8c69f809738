--------------------------- MODULE ContextSwitch ---------------------------
(***************************************************************************)
(* The context switch (runtime/switch_linux_amd64.S) beside the scheduler  *)
(* and its stacks: what minimk_runtime_switch and _init_coro_stack do to   *)
(* the stack pointer, the callee-saved registers and the words on the      *)
(* stacks.  Scheduler says with frame where a coroutine continues; here    *)
(* that is a return address, which has to be found again where it was      *)
(* pushed, on a stack that its coroutine does not share.                   *)
(*                                                                         *)
(* The context of a coroutine is its slot; Null is that of the scheduler,  *)
(* on the stack of the thread.                                             *)
(***************************************************************************)
EXTENDS Stacks, Sequences

CONSTANTS
    MainStack,    \* the stack of the thread that calls run
    RunDepth,     \* how many words run has on its stack when it switches
    Depths        \* how many a coroutine may have

ASSUME ContextAssumption ==
    /\ MainStack \notin Regions \union {NoRegion}
    /\ RunDepth \in Nat
    /\ Depths \subseteq Nat

VARIABLES
    words,    \* the words on each stack, from its top down
    sp,       \* the field sp of each coroutine and of the scheduler
    cpu,      \* rsp, the callee-saved registers and rip after a switch
    held      \* history: what each context had when it called switch

machine == <<words, sp, cpu, held>>

-----------------------------------------------------------------------------
Contexts == Slots \union {Null}
CalleeSaved == {"rbx", "rbp", "r12", "r13", "r14", "r15"}

\* A word: a local variable or a register of some context, or what the
\* runtime itself puts on a stack.
Word(owner, n, what) == [of |-> owner, n |-> n, what |-> what]
Zero == Word(NoJob, 0, "zero")
Sched == Word(NoJob, 0, "sched")
Code(label) == Word(NoJob, 0, label)
Locals(owner, n) == [i \in 1 .. n |-> Word(owner, i, "local")]
Registers(owner, n) == [r \in CalleeSaved |-> Word(owner, n, r)]
Zeroed == [r \in CalleeSaved |-> Zero]

\* A stack pointer: the stack it points into, and how many words are above.
Pointer(stack, used) == [stack |-> stack, used |-> used]
NullPointer == Pointer(NoRegion, 0)

\* The word at a place; memory that nobody wrote is zero.
Load(memory_words, stack, i) ==
    IF stack \in DOMAIN memory_words /\ i \in DOMAIN memory_words[stack]
    THEN memory_words[stack][i] ELSE Zero

(***************************************************************************)
(* The six pushes and the six pops of minimk_runtime_switch.               *)
(***************************************************************************)
Pushed(regs) ==
    <<regs["rbx"], regs["rbp"], regs["r12"], regs["r13"], regs["r14"], regs["r15"]>>

\* How many pops come before that of a register.  Slip: the pops of rbp and
\* rbx in the order of the pushes.
PopsBeforeSwapped ==
    [r15 |-> 0, r14 |-> 1, r13 |-> 2, r12 |-> 3, rbx |-> 4, rbp |-> 5]
PopsBefore ==
    [r15 |-> 0, r14 |-> 1, r13 |-> 2, r12 |-> 3, rbp |-> 4, rbx |-> 5]

\* Pop the registers at the stack pointer p, then the return address.
Popped(w, p) ==
    [rsp  |-> Pointer(p.stack, p.used - 7),
     regs |-> [r \in CalleeSaved |-> Load(w, p.stack, p.used - PopsBefore[r])],
     rip  |-> Load(w, p.stack, p.used - 6)]

(***************************************************************************)
(* minimk_runtime_switch, called by the context x, which saves its own     *)
(* stack pointer and continues the context y.  By then x has some locals   *)
(* on the stack it is on and some values in its registers; the call itself *)
(* pushes the return address.                                              *)
(***************************************************************************)
minimk_runtime_switch(x, y, owner, depths, at) ==
    \E n \in depths :
        LET has == [locals |-> Locals(owner, n), regs |-> Registers(owner, n),
                    rip |-> Code(at)]
            here == cpu.rsp.stack
            pushed == has.locals \o <<has.rip>> \o Pushed(has.regs)
        IN  /\ words' = [words EXCEPT ![here] = pushed]
            /\ sp' = [sp EXCEPT ![x] = Pointer(here, Len(pushed))]
            /\ cpu' = Popped(words', sp[y])
            /\ held' = [held EXCEPT ![x] = has]

(***************************************************************************)
(* minimk_runtime_init_coro_stack, for the stack that was just allocated   *)
(* for c: as if the trampoline, with the scheduler above it, had called    *)
(* switch.  The slip leaves the scheduler out.                             *)
(***************************************************************************)
BareFrame == <<Code("main")>> \o Pushed(Zeroed)
InitialFrame == <<Sched, Code("main")>> \o Pushed(Zeroed)

minimk_runtime_init_coro_stack(c) ==
    /\ words' = [words EXCEPT ![stacks'[c].base] = InitialFrame]
    /\ sp' = [sp EXCEPT ![c] = Pointer(stacks'[c].base, Len(InitialFrame))]
    /\ held' = [held EXCEPT ![c] = [locals |-> <<Sched>>, regs |-> Zeroed,
                                    rip |-> Code("main")]]
    /\ UNCHANGED cpu

\* minimk_runtime_asm_trampoline: load the scheduler, push a zero, call.
minimk_runtime_asm_trampoline(w, rsp) ==
    [argument |-> Load(w, rsp.stack, rsp.used), used |-> rsp.used + 1]

-----------------------------------------------------------------------------
Nothing == [locals |-> <<>>, regs |-> Registers(NoJob, 0), rip |-> Code("none")]

ContextInit ==
    /\ words = [s \in Regions \union {MainStack} |-> <<>>]
    /\ sp = [x \in Contexts |-> NullPointer]
    /\ cpu = [rsp |-> Pointer(MainStack, 0), regs |-> Registers(NoJob, 0),
              rip |-> Code("run")]
    /\ held = [x \in Contexts |-> Nothing]

(***************************************************************************)
(* What the steps of the scheduler do to the machine: create a coroutine,  *)
(* switch to it and back, and free its stack and zero its slot.            *)
(***************************************************************************)
Created(c) == FreeSlot(c) /\ coro'[c].state # "NULL"
Freed(c) == ~ FreeSlot(c) /\ coro'[c].state = "NULL"
ToCoroutine == pc = "switch" /\ pc' = "coro"
ToScheduler == pc = "coro" /\ pc' = "back"

InitsStack == \E c \in Slots : Created(c) /\ minimk_runtime_init_coro_stack(c)

EntersCoroutine ==
    ToCoroutine /\ minimk_runtime_switch(Null, current, NoJob, {RunDepth}, "run")

EntersScheduler ==
    ToScheduler
    /\ minimk_runtime_switch(current, Null, coro[current].opaque, Depths,
                             frame'[current].at)

Forgets ==
    /\ \E c \in Slots : Freed(c)
    /\ words' = [s \in DOMAIN words |->
                    IF \E c \in Slots : Freed(c) /\ stacks[c].base = s
                    THEN <<>> ELSE words[s]]
    /\ sp' = [x \in Contexts |->
                IF x \in Slots /\ Freed(x) THEN NullPointer ELSE sp[x]]
    /\ held' = [x \in Contexts |->
                IF x \in Slots /\ Freed(x) THEN Nothing ELSE held[x]]
    /\ UNCHANGED cpu

RunsOn ==
    /\ ~ ToCoroutine /\ ~ ToScheduler
    /\ \A c \in Slots : ~ Created(c) /\ ~ Freed(c)
    /\ UNCHANGED machine

Machine ==
    InitsStack \/ EntersCoroutine \/ EntersScheduler \/ Forgets \/ RunsOn

ContextSpec ==
    StacksInit /\ ContextInit /\ [][StacksNext /\ Machine]_<<vars, memVars, machine>>

-----------------------------------------------------------------------------
(***************************************************************************)
(* Whoever is switched to, the scheduler or a coroutine, finds its own     *)
(* registers, its own stack with every local on it, and continues where it *)
(* called switch: a coroutine at the point that Scheduler's frame names.   *)
(* That is so however many others ran, exited, and left their stacks to    *)
(* new coroutines in between.                                              *)
(***************************************************************************)
StackOf(x) == IF x = Null THEN MainStack ELSE stacks[x].base

Continues(x) ==
    LET h == held[x]
        n == Len(h.locals)
    IN  /\ cpu' = [rsp |-> Pointer(StackOf(x), n), regs |-> h.regs, rip |-> h.rip]
        /\ \A i \in 1 .. n : words'[StackOf(x)][i] = h.locals[i]

ContinuesWhereItStopped ==
    [][/\ ToCoroutine => Continues(current) /\ cpu'.rip = Code(frame[current].at)
       /\ ToScheduler => Continues(Null)
      ]_<<vars, memVars, machine>>

(***************************************************************************)
(* A new coroutine calls coroutine_main with the scheduler that owns it,   *)
(* on a stack that is aligned to 16 bytes, two words, from the top of the  *)
(* stack ("Otherwise, we'll segfault immediately on the first SIMD         *)
(* instruction", switch_linux_amd64.S:58).                                 *)
(***************************************************************************)
EntersMainAligned ==
    [][ToCoroutine /\ frame[current].at = "main" =>
        LET call == minimk_runtime_asm_trampoline(words', cpu'.rsp)
        IN  call.argument = Sched /\ call.used % 2 = 0
      ]_<<vars, memVars, machine>>
=============================================================================
