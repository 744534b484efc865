------------------------------- MODULE Context -------------------------------
(***************************************************************************)
(* The part of a task's context that is not in its saved frame, composed   *)
(* with the process table of Sched: the frames of its program and of its   *)
(* stack, which all tasks map at the same addresses of the one page table, *)
(* and its FS base (kernel/process/process.c, SYS_ARCH_PRCTL).             *)
(*                                                                         *)
(* Programs and stacks are named by numbers, 0 is none; a name that no     *)
(* slot has any more may be used again.  A value of the FS base is the pid *)
(* it was made for.                                                        *)
(***************************************************************************)
EXTENDS Sched

VARIABLES
  tgid, segments, stack_phys_base, fs_base,   \* fields of process_t
  mapped,    \* the program and the stack the page table maps
  fs,        \* the register MSR_FS_BASE
  mixed      \* history: groups with threads in which a task called execve

context == <<tgid, segments, stack_phys_base, fs_base, mapped, fs, mixed>>

Names == 1 .. MAX_PROCESSES + 2

\* A name that no slot has and that is not mapped (frames are never freed).
Fresh(names, inUse) ==
  CHOOSE n \in Names :
    /\ n # inUse /\ \A s \in Slots : names[s] # n
    /\ \A m \in 1 .. n - 1 : m = inUse \/ \E s \in Slots : names[s] = m

ContextInit ==
  /\ Init
  /\ tgid = [s \in Slots |-> IF s = 0 THEN 1 ELSE 0]
  /\ segments = [s \in Slots |-> IF s = 0 THEN 1 ELSE 0]
  /\ stack_phys_base = [s \in Slots |-> IF s = 0 THEN 1 ELSE 0]
  /\ fs_base = [s \in Slots |-> 0]
  /\ mapped = [program |-> 1, stack |-> 1]
  /\ fs = 0
  /\ mixed = {}

-----------------------------------------------------------------------------
\* Mutant: threads are never remapped.
Remaps_Processes(curr, next) == ~is_thread[next]

\* The tick maps the program and the stack of the task it resumes, unless
\* that is a thread of the group of the interrupted task.
Remaps(curr, next) == ~is_thread[next] \/ tgid[next] # tgid[curr]

\* Mutant: the FS base is only restored together with the program.
SwitchFs_Process(curr, next) ==
  fs' = IF Remaps(curr, next) /\ fs_base[next] # 0 THEN fs_base[next] ELSE fs

\* An FS base of 0 is not restored.
SwitchFs(curr, next) == fs' = IF fs_base[next] # 0 THEN fs_base[next] ELSE fs

SwitchTo(curr, next) ==
  /\ SwitchFs(curr, next)
  /\ mapped' = IF Remaps(curr, next)
               THEN [program |-> IF segments[next] = 0 THEN mapped.program ELSE segments[next],
                     stack |-> IF stack_phys_base[next] = 0 THEN mapped.stack
                               ELSE stack_phys_base[next]]
               ELSE mapped

Tick ==
  /\ scheduler_tick
  /\ IF current' = current THEN UNCHANGED <<mapped, fs>> ELSE SwitchTo(current, current')
  /\ UNCHANGED <<tgid, segments, stack_phys_base, fs_base, mixed>>

\* The fields of the parent a new task in slot i is made from: a task that
\* killed itself and is given its own slot has cleared them.
Inherited(field, i) == IF i = current THEN 0 ELSE field[current]

Fork ==
  /\ process_fork
  /\ \E i \in Slots :
       /\ FirstFree(i)
       /\ tgid' = [tgid EXCEPT ![i] = next_pid]
       /\ segments' = [segments EXCEPT ![i] = Inherited(segments, i)]
       /\ stack_phys_base' = [stack_phys_base EXCEPT ![i] = Fresh(stack_phys_base, mapped.stack)]
       /\ fs_base' = [fs_base EXCEPT ![i] = Inherited(fs_base, i)]
  /\ UNCHANGED <<mapped, fs, mixed>>

\* newtls may be NULL.
Clone ==
  /\ process_clone
  /\ \E i \in Slots, newtls \in {0, next_pid} :
       /\ FirstFree(i)
       /\ tgid' = [tgid EXCEPT ![i] = IF i = current THEN next_pid ELSE tgid[current]]
       /\ segments' = [segments EXCEPT ![i] = Inherited(segments, i)]
       /\ stack_phys_base' = [stack_phys_base EXCEPT ![i] = Inherited(stack_phys_base, i)]
       /\ fs_base' = [fs_base EXCEPT ![i] = IF newtls = 0 THEN Inherited(fs_base, i) ELSE newtls]
  /\ UNCHANGED <<mapped, fs, mixed>>

\* The loader maps the new program; the stack is reused if there is one.
Exec ==
  /\ process_execve
  /\ LET program == Fresh(segments, mapped.program)
         stack == IF stack_phys_base[current] = 0
                  THEN Fresh(stack_phys_base, mapped.stack) ELSE stack_phys_base[current]
     IN  /\ segments' = [segments EXCEPT ![current] = program]
         /\ stack_phys_base' = [stack_phys_base EXCEPT ![current] = stack]
         /\ mapped' = [program |-> program, stack |-> stack]
  /\ mixed' = IF is_thread[current]
                 \/ \E s \in Slots \ {current} : active[s] /\ tgid[s] = tgid[current]
              THEN mixed \cup {tgid[current]} ELSE mixed
  /\ UNCHANGED <<tgid, fs_base, fs>>

\* SYS_ARCH_PRCTL with ARCH_SET_FS.
sys_arch_prctl ==
  /\ UserDoes("arch_prctl")
  /\ fs_base' = [fs_base EXCEPT ![current] = pid[current]]
  /\ fs' = pid[current]
  /\ UNCHANGED <<vars, tgid, segments, stack_phys_base, mapped, mixed>>

Elsewise ==
  /\ \/ sys_set_tid_address \/ futex_wait \/ futex_wake \/ sys_nanosleep
     \/ schedule_yield \/ process_exit \/ exception_handler \/ process_kill
     \/ process_wait4 \/ KernelStep \/ power_off
  /\ UNCHANGED context

ContextNext == Tick \/ Fork \/ Clone \/ Exec \/ sys_arch_prctl \/ Elsewise

ContextSpec == ContextInit /\ [][ContextNext]_<<vars, context>>

-----------------------------------------------------------------------------
\* A task that killed itself runs on until the next tick; a task it creates
\* may take its slot, and has nothing of its parent, which it is itself.
SelfMade(s) == ppid[s] = pid[s] \/ segments[s] = 0

\* Whatever the order of switches, exits and reused slots, the task that runs
\* has the frames of its own program and stack mapped, although the tick
\* remaps nothing when it resumes a thread of the same group.
OwnMemory ==
  active[current] /\ ~SelfMade(current) /\ tgid[current] \notin mixed =>
    mapped = [program |-> segments[current], stack |-> stack_phys_base[current]]

\* A task that has an FS base runs with it (its thread-local storage),
\* although tasks without one run with whatever was there.
OwnFsBase ==
  active[current] /\ ~SelfMade(current) /\ fs_base[current] # 0 => fs = fs_base[current]

=============================================================================
