-------------------------------- MODULE Sched --------------------------------
(***************************************************************************)
(* The process table, the 100 Hz round-robin scheduler and the blocking    *)
(* system calls of the kernel (kernel/process/process.c, the process cases *)
(* of do_syscall in kernel/syscall/syscall.c and the exception handler in  *)
(* kernel/arch/x86_64/idt.c).                                              *)
(*                                                                         *)
(* The kernel runs on one CPU.  A system call runs with interrupts         *)
(* disabled (SFMASK clears IF), so a handler is one step up to its first   *)
(* `sti; hlt'.  From there on interrupts stay enabled in that handler: the *)
(* rest of it can be preempted anywhere and is split into steps, one for   *)
(* each store.                                                             *)
(*                                                                         *)
(* One function per field of process_t, indexed by the slot of the table.  *)
(* cpu is the place where the CPU executes (always inside `current'),      *)
(* saved_frame[s] the place where slot s resumes.  A place is a record:    *)
(*   at  - "user", or the hlt loop or scan step of a system call,          *)
(*   arg - the futex address or the pid the call works on,                 *)
(*   idx - the loop index of wait4's scan,                                 *)
(*   val - has_children of the scan, or the status wait4 delivers.         *)
(***************************************************************************)
EXTENDS Integers, FiniteSets

CONSTANTS
  MAX_PROCESSES,  \* slots of process_table
  MAX_PID,        \* bound: the last pid handed out
  Futexes,        \* futex addresses the programs use (nonzero)
  Requests,       \* <<tv_sec, tv_nsec>> pairs the programs sleep for
  Codes,          \* exit codes and signal numbers the programs use
  Calls,          \* the system calls the program of each pid makes
  WaitAny         \* TRUE if programs wait for pids that are not their children

ASSUME ProcessesAssumption == MAX_PROCESSES \in Nat \ {0}
ASSUME PidAssumption == MAX_PID \in Nat \ {0}
ASSUME FutexAssumption == Futexes \subseteq Nat \ {0}
ASSUME RequestAssumption == Requests \subseteq Nat \X Nat
ASSUME CodeAssumption == Codes \subseteq Int
ASSUME WaitAssumption == WaitAny \in BOOLEAN

Slots == 0 .. MAX_PROCESSES - 1
States == {"FREE", "READY", "RUNNING", "SLEEPING", "ZOMBIE"}
Pids == 1 .. MAX_PID

TickNsec == 10000000     \* one tick of the 100 Hz timer
SecNsec == 1000000000

ECHILD == -10
SIGSEGV == -11   \* exit code of a task with an unresolved page fault
ALIVE == -1      \* died[p] of a pid that has not terminated

\* The places before each of the stores that release the slot of a child.
Releasing == {"clear", "clear_exited", "clear_state"}

Place(a, x, i, v) == [at |-> a, arg |-> x, idx |-> i, val |-> v]
User == Place("user", 0, 0, 0)
Places ==
       [at : {"user", "yield", "futex", "sleep", "exit", "wait", "waited"},
        arg : Int, idx : {0}, val : Int]
  \cup [at : {"scan"}, arg : Int, idx : 0 .. MAX_PROCESSES, val : {0, 1}]
  \cup [at : {"take"} \cup Releasing, arg : Int, idx : Slots, val : Int]

VARIABLES
  active, exited, state, pid, ppid, is_thread, exit_code,
  sleep_ticks, wait_channel, clear_child_tid, saved_frame,
  current,        \* current_proc_idx
  next_pid,
  cpu,            \* where the CPU executes
  halted,         \* the machine is powered off
  died            \* history: the status each pid terminated with

idVars == <<pid, ppid, is_thread, next_pid>>
blockVars == <<sleep_ticks, wait_channel, clear_child_tid>>
endVars == <<exited, exit_code, died>>
vars == <<active, state, endVars, idVars, blockVars, saved_frame,
          current, cpu, halted>>

TypeOK ==
  /\ active \in [Slots -> BOOLEAN]
  /\ exited \in [Slots -> BOOLEAN]
  /\ state \in [Slots -> States]
  /\ pid \in [Slots -> Nat]
  /\ ppid \in [Slots -> Nat]
  /\ is_thread \in [Slots -> BOOLEAN]
  /\ exit_code \in [Slots -> Int]
  /\ sleep_ticks \in [Slots -> Nat]
  /\ wait_channel \in [Slots -> Nat]
  /\ clear_child_tid \in [Slots -> Nat]
  /\ saved_frame \in [Slots -> Places]
  /\ current \in Slots
  /\ next_pid \in Nat \ {0, 1}
  /\ cpu \in Places
  /\ halted \in BOOLEAN
  /\ died \in [Pids -> Int]

\* process_init, process_create_from_elf for /bin/init and process_jump_to_user.
Init ==
  /\ active = [s \in Slots |-> s = 0]
  /\ exited = [s \in Slots |-> FALSE]
  /\ state = [s \in Slots |-> IF s = 0 THEN "RUNNING" ELSE "FREE"]
  /\ pid = [s \in Slots |-> IF s = 0 THEN 1 ELSE 0]
  /\ ppid = [s \in Slots |-> 0]
  /\ is_thread = [s \in Slots |-> FALSE]
  /\ exit_code = [s \in Slots |-> 0]
  /\ sleep_ticks = [s \in Slots |-> 0]
  /\ wait_channel = [s \in Slots |-> 0]
  /\ clear_child_tid = [s \in Slots |-> 0]
  /\ saved_frame = [s \in Slots |-> User]
  /\ current = 0
  /\ next_pid = 2
  /\ cpu = User
  /\ halted = FALSE
  /\ died = [p \in Pids |-> ALIVE]

-----------------------------------------------------------------------------
(* scheduler_tick: the timer interrupt.                                     *)

\* Slots whose sleep_ticks_remaining the tick decrements.
Expiring(s) ==
  active[s] /\ state[s] = "SLEEPING" /\ sleep_ticks[s] > 0

\* Mutant: the expiry test comes before the decrement.
Woken_TestsFirst ==
  [s \in Slots |-> IF Expiring(s) /\ sleep_ticks[s] = 0 /\ wait_channel[s] = 0
                   THEN "READY" ELSE state[s]]

\* Step 1: the states after the sleepers whose timer expired are woken.
Woken ==
  [s \in Slots |-> IF Expiring(s) /\ sleep_ticks[s] = 1 /\ wait_channel[s] = 0
                   THEN "READY" ELSE state[s]]

\* Step 2: the interrupted task, if it was running, becomes ready again.
Preempted ==
  IF active[current] /\ Woken[current] = "RUNNING"
  THEN [Woken EXCEPT ![current] = "READY"]
  ELSE Woken

\* How many slots the round-robin scan from c looks at until it reaches s.
Distance(c, s) == IF s > c THEN s - c ELSE s - c + MAX_PROCESSES

\* Mutant: the scan only skips sleeping tasks.
Selected_AnyAwake(n) ==
  LET Ready(s) == active[s] /\ Preempted[s] # "SLEEPING"
  IN  \/ /\ Ready(n)
         /\ \A s \in Slots : Ready(s) => Distance(current, n) <= Distance(current, s)
      \/ (\A s \in Slots : ~Ready(s)) /\ n = 0

\* Mutant: every scan starts at slot 0.
Selected_FromZero(n) ==
  LET Ready(s) == active[s] /\ Preempted[s] = "READY"
  IN  \/ Ready(n) /\ \A s \in Slots : Ready(s) => n <= s
      \/ (\A s \in Slots : ~Ready(s)) /\ n = 0

\* Step 3: n is the slot the scan from current_proc_idx + 1 selects.
Selected(n) ==
  LET Ready(s) == active[s] /\ Preempted[s] = "READY"
  IN  \/ /\ Ready(n)
         /\ \A s \in Slots : Ready(s) => Distance(current, n) <= Distance(current, s)
      \/ /\ \A s \in Slots : ~Ready(s)
         /\ n = IF active[current] /\ Preempted[current] \in {"READY", "RUNNING"}
                THEN current ELSE 0

\* Mutant: wait4 halts again without a new scan.
AfterHlt_NoRescan(place) == IF place.at = "yield" THEN User ELSE place

\* An interrupt ends the hlt: yield returns to user mode, wait4 rescans.
AfterHlt(place) ==
  IF place.at = "yield" THEN User
  ELSE IF place.at = "wait" THEN Place("scan", place.arg, 0, 0)
  ELSE place

scheduler_tick ==
  /\ ~halted
  /\ sleep_ticks' = [s \in Slots |-> IF Expiring(s) THEN sleep_ticks[s] - 1
                                     ELSE sleep_ticks[s]]
  /\ saved_frame' = IF active[current]
                    THEN [saved_frame EXCEPT ![current] = AfterHlt(cpu)]
                    ELSE saved_frame
  /\ \E n \in Slots :
       /\ Selected(n)
       /\ state' = [Preempted EXCEPT ![n] = "RUNNING"]
       /\ current' = n
       /\ cpu' = saved_frame'[n]
  /\ UNCHANGED <<active, endVars, idVars, wait_channel, clear_child_tid, halted>>

-----------------------------------------------------------------------------
(* Task creation.                                                           *)

\* The program in `current' makes a system call, or faults.
UserDoes(call) ==
  /\ ~halted
  /\ cpu.at = "user"
  /\ call \in Calls[pid[current]]

\* Mutant: a slot with an exited task counts as free.
FirstFree_Exited(i) ==
  /\ i \in Slots \ {0}
  /\ ~active[i] \/ exited[i]
  /\ \A j \in Slots \ {0} : j < i => active[j] /\ ~exited[j]

\* The first slot the creation loops find inactive; slot 0 is never taken.
FirstFree(i) ==
  /\ i \in Slots \ {0}
  /\ ~active[i]
  /\ \A j \in Slots \ {0} : j < i => active[j]

\* Pid, parent and kind of a new task.  A task that killed itself still runs
\* and may be given its own slot: parent is then child, and ppid is read
\* after pid was written.
Identify(i, thread) ==
  /\ pid' = [pid EXCEPT ![i] = next_pid]
  /\ ppid' = [ppid EXCEPT ![i] = IF i = current THEN next_pid ELSE pid[current]]
  /\ is_thread' = [is_thread EXCEPT ![i] = thread]
  /\ next_pid' = next_pid + 1

\* Mutant: the slot is not cleared before it is used again.
ClearSlot_Stale(i) == UNCHANGED <<sleep_ticks, wait_channel, exited, exit_code>>

\* kmemset of the slot.
ClearSlot(i) ==
  /\ exited' = [exited EXCEPT ![i] = FALSE]
  /\ exit_code' = [exit_code EXCEPT ![i] = 0]
  /\ sleep_ticks' = [sleep_ticks EXCEPT ![i] = 0]
  /\ wait_channel' = [wait_channel EXCEPT ![i] = 0]

Spawn(i, thread, ctid) ==
  /\ next_pid <= MAX_PID
  /\ Identify(i, thread)
  /\ ClearSlot(i)
  /\ active' = [active EXCEPT ![i] = TRUE]
  /\ clear_child_tid' = [clear_child_tid EXCEPT ![i] = ctid]
  /\ saved_frame' = [saved_frame EXCEPT ![i] = User]
  /\ state' = [state EXCEPT ![i] = "READY"]
  /\ UNCHANGED <<current, cpu, halted, died>>

process_fork ==
  /\ UserDoes("fork")
  /\ \E i \in Slots : FirstFree(i) /\ Spawn(i, FALSE, 0)

\* With CLONE_VM; without it clone is fork.  ctid is 0 unless
\* CLONE_CHILD_CLEARTID is given.
process_clone ==
  /\ UserDoes("clone")
  /\ \E i \in Slots, ctid \in Futexes \cup {0} :
       FirstFree(i) /\ Spawn(i, TRUE, ctid)

\* The new image starts in user mode; the task keeps its identity.
process_execve ==
  /\ UserDoes("execve")
  /\ saved_frame' = [saved_frame EXCEPT ![current] = User]
  /\ state' = [state EXCEPT ![current] = "RUNNING"]
  /\ UNCHANGED <<active, endVars, idVars, blockVars, current, cpu, halted>>

sys_set_tid_address ==
  /\ UserDoes("set_tid")
  /\ \E ch \in Futexes :
       clear_child_tid' = [clear_child_tid EXCEPT ![current] = ch]
  /\ UNCHANGED <<active, state, endVars, idVars, sleep_ticks, wait_channel,
                 saved_frame, current, cpu, halted>>

-----------------------------------------------------------------------------
(* Futexes, nanosleep and sched_yield.                                      *)

\* The word at uaddr had the expected value; otherwise the call returns
\* -EAGAIN and changes nothing.
futex_wait ==
  /\ UserDoes("futex")
  /\ \E ch \in Futexes :
       /\ wait_channel' = [wait_channel EXCEPT ![current] = ch]
       /\ cpu' = Place("futex", ch, 0, 0)
  /\ state' = [state EXCEPT ![current] = "SLEEPING"]
  /\ UNCHANGED <<active, endVars, idVars, sleep_ticks, clear_child_tid,
                 saved_frame, current, halted>>

\* The loop condition fails after a wake-up.
futex_wait_return ==
  /\ ~halted
  /\ cpu.at = "futex"
  /\ wait_channel[current] # cpu.arg
  /\ cpu' = User
  /\ UNCHANGED <<active, state, endVars, idVars, blockVars, saved_frame,
                 current, halted>>

Waiters(ch) ==
  {s \in Slots : active[s] /\ state[s] = "SLEEPING" /\ wait_channel[s] = ch}

\* The slots a futex_wake(ch, count) wakes: the lowest waiting ones.
ToWake(ch, count) ==
  {s \in Waiters(ch) : Cardinality({t \in Waiters(ch) : t < s}) < count}

futex_wake ==
  /\ UserDoes("futex")
  /\ \E ch \in Futexes, count \in 1 .. MAX_PROCESSES :
       /\ wait_channel' = [s \in Slots |-> IF s \in ToWake(ch, count) THEN 0
                                           ELSE wait_channel[s]]
       /\ state' = [s \in Slots |-> IF s \in ToWake(ch, count) THEN "READY"
                                    ELSE state[s]]
  /\ UNCHANGED <<active, endVars, idVars, sleep_ticks, clear_child_tid,
                 saved_frame, current, cpu, halted>>

\* 100 ticks a second, the nanoseconds rounded up to ticks, at least one.
TotalTicks(sec, nsec) ==
  LET total == sec * 100 + (nsec + TickNsec - 1) \div TickNsec
  IN  IF total = 0 THEN 1 ELSE total

sys_nanosleep ==
  /\ UserDoes("nanosleep")
  /\ \E req \in Requests :
       /\ req[2] < SecNsec
       /\ sleep_ticks' = [sleep_ticks EXCEPT ![current] = TotalTicks(req[1], req[2])]
  /\ state' = [state EXCEPT ![current] = "SLEEPING"]
  /\ cpu' = Place("sleep", 0, 0, 0)
  /\ UNCHANGED <<active, endVars, idVars, wait_channel, clear_child_tid,
                 saved_frame, current, halted>>

sys_nanosleep_return ==
  /\ ~halted
  /\ cpu.at = "sleep"
  /\ sleep_ticks[current] = 0
  /\ cpu' = User
  /\ UNCHANGED <<active, state, endVars, idVars, blockVars, saved_frame,
                 current, halted>>

schedule_yield ==
  /\ UserDoes("yield")
  /\ cpu' = Place("yield", 0, 0, 0)
  /\ UNCHANGED <<active, state, endVars, idVars, blockVars, saved_frame,
                 current, halted>>

-----------------------------------------------------------------------------
(* Termination.                                                             *)

Status(code) == code % 256   \* code & 0xFF

\* The history records the status of every pid that terminates in a step.
Dies(ended, code) ==
  died' = [p \in Pids |-> IF died[p] = ALIVE /\ \E s \in ended : pid[s] = p
                          THEN Status(code) ELSE died[p]]

\* The slots woken because the exiting task's clear_child_tid is a futex.
ClearTidWakes ==
  IF clear_child_tid[current] = 0 THEN {} ELSE ToWake(clear_child_tid[current], 1)

\* The exit of pid 1 powers the machine off.
ExitInit ==
  /\ pid[current] = 1
  /\ halted' = TRUE
  /\ state' = [s \in Slots |-> IF s \in ClearTidWakes THEN "READY" ELSE state[s]]
  /\ UNCHANGED <<active, endVars, cpu>>

\* A thread leaves its slot at once; nobody waits for it.
ExitThread(code) ==
  /\ pid[current] # 1
  /\ is_thread[current]
  /\ state' = [s \in Slots |-> IF s = current THEN "ZOMBIE"
                               ELSE IF s \in ClearTidWakes THEN "READY" ELSE state[s]]
  /\ exit_code' = [exit_code EXCEPT ![current] = code]
  /\ active' = [active EXCEPT ![current] = FALSE]
  /\ Dies({current}, code)
  /\ cpu' = Place("exit", 0, 0, 0)
  /\ UNCHANGED <<exited, halted>>

\* Mutant: the exit code is stored in the children only.
ExitProcess_NoCode(code) ==
  LET children == {s \in Slots : active[s] /\ ppid[s] = pid[current]}
      ended == children \cup {current}
  IN  /\ pid[current] # 1
      /\ ~is_thread[current]
      /\ exited' = [s \in Slots |-> s \in ended \/ exited[s]]
      /\ exit_code' = [s \in Slots |-> IF s \in children THEN code ELSE exit_code[s]]
      /\ active' = [s \in Slots |-> active[s] /\ s \notin children]
      /\ state' = [s \in Slots |-> IF s \in ended THEN "ZOMBIE" ELSE state[s]]
      /\ Dies(ended, code)
      /\ cpu' = Place("exit", 0, 0, 0)
      /\ UNCHANGED halted

\* A process becomes a zombie, terminates its children and wakes its parent.
ExitProcess(code) ==
  LET children == {s \in Slots : active[s] /\ ppid[s] = pid[current]}
      ended == children \cup {current}
      Parent(s) == active[s] /\ pid[s] = ppid[current] /\ state[s] = "SLEEPING"
  IN  /\ pid[current] # 1
      /\ ~is_thread[current]
      /\ exited' = [s \in Slots |-> s \in ended \/ exited[s]]
      /\ exit_code' = [s \in Slots |-> IF s \in ended THEN code ELSE exit_code[s]]
      /\ active' = [s \in Slots |-> active[s] /\ s \notin children]
      /\ state' = [s \in Slots |-> IF s \in ended THEN "ZOMBIE"
                                   ELSE IF s \in ClearTidWakes \/ Parent(s) THEN "READY"
                                   ELSE state[s]]
      /\ Dies(ended, code)
      /\ cpu' = Place("exit", 0, 0, 0)
      /\ UNCHANGED halted

ExitWith(code) ==
  /\ wait_channel' = [s \in Slots |-> IF s \in ClearTidWakes THEN 0 ELSE wait_channel[s]]
  /\ ExitInit \/ ExitThread(code) \/ ExitProcess(code)
  /\ UNCHANGED <<idVars, sleep_ticks, clear_child_tid, saved_frame, current>>

process_exit ==
  /\ UserDoes(IF is_thread[current] THEN "thread_exit" ELSE "exit")
  /\ \E code \in Codes : ExitWith(code)

\* An unresolved page fault ends the task, unless it is pid 1; every other
\* exception, and a fault of pid 1, powers the machine off.
exception_handler ==
  /\ UserDoes("fault")
  /\ \/ pid[current] > 1 /\ ExitWith(SIGSEGV)
     \/ /\ halted' = TRUE
        /\ UNCHANGED <<active, state, endVars, idVars, blockVars, saved_frame,
                       current, cpu>>

\* The target is unscheduled and its slot is free at once; a parent asleep
\* in any call is made ready.
process_kill ==
  /\ UserDoes("kill")
  /\ \E i \in Slots, sig \in Codes :
       LET Parent(s) == active[s] /\ s # i /\ pid[s] = ppid[i] /\ state[s] = "SLEEPING"
       IN  /\ active[i]
           /\ active' = [active EXCEPT ![i] = FALSE]
           /\ exited' = [exited EXCEPT ![i] = TRUE]
           /\ exit_code' = [exit_code EXCEPT ![i] = sig]
           /\ state' = [s \in Slots |-> IF s = i THEN "ZOMBIE"
                                        ELSE IF Parent(s) THEN "READY" ELSE state[s]]
           /\ Dies({i}, sig)
  /\ UNCHANGED <<idVars, blockVars, saved_frame, current, cpu, halted>>

-----------------------------------------------------------------------------
(* wait4.                                                                   *)

Matches(s, p) ==
  active[s] /\ (pid[s] = p \/ (p <= 0 /\ ppid[s] = pid[current]))

Ended(s) == state[s] = "ZOMBIE" \/ exited[s]

\* The stores that free the slot of a reaped child, in one piece.
Release(s) ==
  /\ active' = [active EXCEPT ![s] = FALSE]
  /\ exited' = [exited EXCEPT ![s] = FALSE]
  /\ state' = [state EXCEPT ![s] = "FREE"]

WaitArgs ==
  {-1} \cup (IF WaitAny THEN Pids
            ELSE {pid[s] : s \in {t \in Slots : active[t] /\ ppid[t] = pid[current]}})

\* The first scan runs with interrupts disabled: it reaps the first ended
\* match, fails if there is no match, or halts.
process_wait4 ==
  /\ UserDoes("wait")
  /\ \E p \in WaitArgs :
       \/ \E s \in Slots :
            /\ Matches(s, p) /\ Ended(s)
            /\ \A t \in Slots : t < s => ~(Matches(t, p) /\ Ended(t))
            /\ Release(s)
            /\ cpu' = Place("waited", pid[s], 0, Status(exit_code[s]))
       \/ /\ \A s \in Slots : ~Matches(s, p)
          /\ cpu' = Place("waited", ECHILD, 0, 0)
          /\ UNCHANGED <<active, exited, state>>
       \/ /\ \E s \in Slots : Matches(s, p)
          /\ \A s \in Slots : ~(Matches(s, p) /\ Ended(s))
          /\ cpu' = Place("wait", p, 0, 0)
          /\ UNCHANGED <<active, exited, state>>
  /\ UNCHANGED <<exit_code, died, idVars, blockVars, saved_frame, current, halted>>

\* Mutant: has_children is set for ended matches only.
wait4_scan_OnlyEnded ==
  LET i == cpu.idx
  IN  /\ ~halted
      /\ cpu.at = "scan"
      /\ \/ /\ i \in Slots
            /\ cpu' = IF Matches(i, cpu.arg) /\ Ended(i) THEN Place("take", cpu.arg, i, cpu.val)
                      ELSE Place("scan", cpu.arg, i + 1, cpu.val)
         \/ i = MAX_PROCESSES /\ cpu' = Place("waited", ECHILD, 0, 0)
      /\ UNCHANGED <<active, state, endVars, idVars, blockVars, saved_frame,
                     current, halted>>

\* A later scan runs with interrupts enabled: one step tests slot idx, one
\* reads its pid and status, and three free it.
wait4_scan ==
  LET i == cpu.idx
  IN  /\ ~halted
      /\ cpu.at = "scan"
      /\ \/ /\ i \in Slots
            /\ cpu' = IF ~Matches(i, cpu.arg) THEN Place("scan", cpu.arg, i + 1, cpu.val)
                      ELSE IF Ended(i) THEN Place("take", cpu.arg, i, cpu.val)
                      ELSE Place("scan", cpu.arg, i + 1, 1)
         \/ /\ i = MAX_PROCESSES
            /\ cpu' = IF cpu.val = 1 THEN Place("wait", cpu.arg, 0, 0)
                      ELSE Place("waited", ECHILD, 0, 0)
      /\ UNCHANGED <<active, state, endVars, idVars, blockVars, saved_frame,
                     current, halted>>

wait4_take ==
  /\ ~halted
  /\ cpu.at = "take"
  /\ cpu' = Place("clear", pid[cpu.idx], cpu.idx, Status(exit_code[cpu.idx]))
  /\ UNCHANGED <<active, state, endVars, idVars, blockVars, saved_frame,
                 current, halted>>

\* The place before the next store of the release, for the same child.
Then(at) == cpu' = Place(at, cpu.arg, cpu.idx, cpu.val)

\* From here on fork and clone may take the slot.
wait4_clear ==
  /\ ~halted
  /\ cpu.at = "clear"
  /\ active' = [active EXCEPT ![cpu.idx] = FALSE]
  /\ Then("clear_exited")
  /\ UNCHANGED <<state, endVars, idVars, blockVars, saved_frame, current, halted>>

\* The last two stores go to the slot, whoever has it by then.
wait4_clear_exited ==
  /\ ~halted
  /\ cpu.at = "clear_exited"
  /\ exited' = [exited EXCEPT ![cpu.idx] = FALSE]
  /\ Then("clear_state")
  /\ UNCHANGED <<active, state, exit_code, died, idVars, blockVars, saved_frame,
                 current, halted>>

wait4_clear_state ==
  /\ ~halted
  /\ cpu.at = "clear_state"
  /\ state' = [state EXCEPT ![cpu.idx] = "FREE"]
  /\ cpu' = Place("waited", cpu.arg, 0, cpu.val)
  /\ UNCHANGED <<active, endVars, idVars, blockVars, saved_frame, current, halted>>

wait4_return ==
  /\ ~halted
  /\ cpu.at = "waited"
  /\ cpu' = User
  /\ UNCHANGED <<active, state, endVars, idVars, blockVars, saved_frame,
                 current, halted>>

\* After the power-off request the kernel executes `cli; hlt' forever.
power_off == halted /\ UNCHANGED vars

-----------------------------------------------------------------------------
UserCall ==
  \/ process_fork \/ process_clone \/ process_execve \/ sys_set_tid_address
  \/ futex_wait \/ futex_wake \/ sys_nanosleep \/ schedule_yield
  \/ process_exit \/ exception_handler \/ process_kill \/ process_wait4

KernelStep ==
  \/ futex_wait_return \/ sys_nanosleep_return
  \/ wait4_scan \/ wait4_take \/ wait4_return
  \/ wait4_clear \/ wait4_clear_exited \/ wait4_clear_state

Next == scheduler_tick \/ UserCall \/ KernelStep \/ power_off

Spec == Init /\ [][Next]_vars

\* The PIT keeps firing, and a task that is dispatched again and again
\* executes instructions: a quantum is 10 ms.
Fairness ==
  /\ WF_vars(scheduler_tick)
  /\ \A s \in Slots : SF_vars(current = s /\ KernelStep)

FairSpec == Spec /\ Fairness

-----------------------------------------------------------------------------
(* Properties.                                                              *)

Where(s) == IF s = current THEN cpu ELSE saved_frame[s]

\* No two slots ever hold the same pid, and the next pid is fresh: fork,
\* clone, exit, kill and a reaping wait4 in any order never make getpid,
\* kill or wait4 ambiguous (next_pid++ in process_fork and process_clone).
PidsUnique ==
  /\ \A s \in Slots : pid[s] < next_pid
  /\ \A s, t \in Slots : pid[s] = pid[t] /\ pid[s] # 0 => s = t

\* A task whose slot a wait4 has marked FREE after fork or clone gave it the
\* slot: the late stores of the release went to the wrong task.
Overwritten(s) == active[s] /\ state[s] = "FREE"

\* Slot 0 belongs to pid 1 for ever, so the fallback of scheduler_tick can only
\* resume pid 1; no other slot is ever taken for init (the loops of fork and
\* clone start at slot 1).
InitInSlotZero ==
  /\ pid[0] = 1 /\ ppid[0] = 0
  /\ \A s \in Slots \ {0} : pid[s] # 1
  /\ \A s \in Slots : active[s] \/ s = current => pid[s] # 0

\* Until it is killed, pid 1 is no zombie and no wait4 releases its slot: the
\* fallback never resumes a task that has ended.
InitNeverEnds ==
  active[0] => ~exited[0] /\ state[0] \notin {"ZOMBIE", "FREE"}

\* Whatever was interrupted, at most one active task is RUNNING, and it is
\* the one in current_proc_idx (step 2 and the end of scheduler_tick).
OneRunning ==
  \A s \in Slots : active[s] /\ state[s] = "RUNNING" => s = current

\* A sleeping task can always be woken: it has a timer running or a futex
\* that futex_wake looks for.  Zero-length sleeps included (sys_nanosleep).
SleeperHasWaker ==
  \A s \in Slots : active[s] /\ state[s] = "SLEEPING" =>
    sleep_ticks[s] > 0 \/ wait_channel[s] # 0

\* The wait fields of a task are those of the call it is blocked in: no
\* futex address or timer survives the call, or leaks from the dead task
\* that used the slot before (kmemset in process_fork and process_clone).
BlockedWhereItWaits ==
  \A s \in Slots : active[s] =>
    /\ wait_channel[s] # 0 => Where(s) = Place("futex", wait_channel[s], 0, 0)
    /\ sleep_ticks[s] > 0 => Where(s) = Place("sleep", 0, 0, 0)

\* What a task waits for is what will wake it: futex_wait, sys_nanosleep, the
\* tick and the exit of others together leave no sleeper without a waker and
\* no wait field without its sleeper.
WaitsSound == SleeperHasWaker /\ BlockedWhereItWaits

\* A task that exited stays a zombie in process_exit's hlt loop until it is
\* reaped; a task that did not exit is not in that loop.  The exception is a
\* task that was overwritten by the end of a release: it never runs again.
ZombieNeverRuns ==
  \A s \in Slots : active[s] =>
    /\ exited[s] => Where(s).at = "exit"
    /\ Overwritten(s) \/ (state[s] = "ZOMBIE" <=> Where(s).at = "exit")
    /\ Overwritten(s) => s # current

\* A release is never of slot 0 nor of the releasing task's own slot, not even
\* in a frame that is saved and resumed later: the late stores of process_wait4
\* cannot take the CPU from the task that makes them, nor pid 1's slot.
ReleasesOthers ==
  /\ cpu.at \in {"take"} \cup Releasing => cpu.idx \notin {0, current}
  /\ \A s \in Slots : saved_frame[s].at \in {"take"} \cup Releasing =>
       saved_frame[s].idx \notin {0, s}

\* The process table is consistent, whatever tasks call, wherever the timer
\* interrupts them and whatever is killed: pids name one task each, slot 0 is
\* pid 1's, only the current task is RUNNING, and zombies stay where they are,
\* also when a wait4 ends its release of a slot that has been taken again.
TableSound ==
  /\ TypeOK /\ PidsUnique /\ InitInSlotZero /\ InitNeverEnds
  /\ OneRunning /\ ZombieNeverRuns /\ ReleasesOthers

\* Round robin: whenever the tick switches to a task other than a ready s,
\* s gets strictly closer in scan order, so at most MAX_PROCESSES - 1 other
\* tasks run before it (the candidate loop of scheduler_tick).
ReadyGetsCloser ==
  [][\A s \in Slots :
       active[s] /\ state[s] = "READY" /\ s # current /\ current' \notin {current, s}
         => Distance(current', s) < Distance(current, s)]_vars

-----------------------------------------------------------------------------
(* Properties of wait4.                                                     *)

MatchesFor(s, i, p) ==
  active[i] /\ (pid[i] = p \/ (p <= 0 /\ ppid[i] = pid[s]))

\* wait4's rescan can be preempted between the test of a slot, the read of
\* its pid and status, and the store that frees it: the slot still holds the
\* ended child it found (process_wait4, active = false), even if another
\* wait4 that had released the slot before overwrites its state.
ClaimedChildStays ==
  \A s \in Slots : active[s] /\ Where(s).at \in {"take", "clear"} =>
    LET i == Where(s).idx
    IN  MatchesFor(s, i, Where(s).arg) /\ (Ended(i) \/ Overwritten(i))

\* The status wait4 hands to the parent is the low byte of what the child
\* it names exited with, whatever happened in between (process_exit's
\* exit_code, WEXITSTATUS of the status word).
StatusIsExitStatus ==
  \A s \in Slots : active[s] /\ Where(s).at \in Releasing \cup {"waited"} /\ Where(s).arg > 0
    => Where(s).val = died[Where(s).arg]

\* wait4 never fails with -ECHILD while a child it was asked for exists:
\* the slots an interruptible scan passed without has_children hold none.
NoChildMissed ==
  \A s \in Slots : active[s] =>
    /\ Where(s).at = "scan" /\ Where(s).val = 0 =>
         \A i \in Slots : i < Where(s).idx => ~MatchesFor(s, i, Where(s).arg)

\* A task halted in wait4 for a child that has ended gets that child's or
\* another child's pid, unless it is itself terminated first.  Either of the
\* two may be lost to the late stores of another release.
WaitReturns ==
  \A s \in Slots :
    (active[s] /\ Where(s).at = "wait" /\ \E i \in Slots :
       MatchesFor(s, i, Where(s).arg) /\ Ended(i))
      ~> (\/ halted \/ ~active[s] \/ (Where(s).at = "waited" /\ Where(s).arg > 0)
          \/ Overwritten(s) \/ \E i \in Slots : MatchesFor(s, i, Where(s).arg) /\ Overwritten(i))

\* The child a task waits for by pid stays in the table until this wait4
\* reaps it, whatever other tasks create, end and reap, so that wait4
\* "retrieves exit status code".  (kill is the exception: it frees the slot.)
AwaitedChildStays ==
  \A s \in Slots : active[s] /\ Where(s).at \in {"wait", "scan"} /\ Where(s).arg > 0
    => \E i \in Slots : active[i] /\ pid[i] = Where(s).arg

\* A child that wait4 looks for or is about to reap is not replaced in the
\* table by another task in the meantime.
WaitedChildStays == ClaimedChildStays /\ AwaitedChildStays

\* Reaping with interrupts enabled takes the child it found and leaves the
\* table consistent, whichever tasks run between its five steps.
ReapingSound == TableSound /\ WaitedChildStays

-----------------------------------------------------------------------------
(* Progress.                                                                *)

\* A ready task is dispatched, whatever the other tasks do (round robin),
\* unless the late store of a wait4 makes its slot FREE.
ReadyRuns ==
  \A s \in Slots : (active[s] /\ state[s] = "READY") ~>
    (halted \/ ~active[s] \/ current = s \/ Overwritten(s))

\* nanosleep returns: the tick decrements the timer of the sleeper, wakes it
\* when the timer expires, and the loop in the system call sees it.  The
\* exit of a child must not disturb this (process_exit, "Wake parent if
\* waiting").
NanosleepReturns ==
  \A s \in Slots : (active[s] /\ Where(s).at = "sleep") ~>
    (halted \/ ~active[s] \/ Where(s).at = "user")

\* A sleeper that nothing takes out of SLEEPING before its time returns, also
\* while the tick falls back to a pid 1 that is asleep or waits on a futex.
\* One that is made READY by its child's exit, RUNNING by the fallback or FREE
\* by a release keeps its timer for ever.
UndisturbedSleepEnds ==
  \A s \in Slots : (active[s] /\ Where(s).at = "sleep") ~>
    (\/ halted \/ ~active[s] \/ Where(s).at = "user"
     \/ state[s] # "SLEEPING" /\ sleep_ticks[s] > 0
     \/ Overwritten(s))

\* A futex waiter whose wait_channel a futex_wake, or the exit of a thread
\* with clear_child_tid, has cleared returns from futex_wait.
WokenReturns ==
  \A s \in Slots : (active[s] /\ Where(s).at = "futex" /\ wait_channel[s] = 0) ~>
    (halted \/ ~active[s] \/ Where(s).at = "user" \/ Overwritten(s))

\* Ready tasks are dispatched, sleeps end and woken futex waiters return
\* (scheduler_tick with the loops around hlt in futex_wait and sys_nanosleep).
TasksProgress == ReadyRuns /\ UndisturbedSleepEnds /\ WokenReturns

=============================================================================
