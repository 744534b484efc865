----------------------------- MODULE SchedProofs -----------------------------
(***************************************************************************)
(* The safety properties of Sched, for every size of the process table,    *)
(* every set of futexes, sleeps, exit codes and system calls.              *)
(***************************************************************************)
EXTENDS Sched, TLAPS

\* The constants' assumptions, cited together.
LEMMA Constants ==
  /\ MAX_PROCESSES \in Nat \ {0}
  /\ MAX_PID \in Nat \ {0}
  /\ Futexes \subseteq Nat \ {0}
  /\ Requests \subseteq Nat \X Nat
  /\ Codes \subseteq Int
BY ProcessesAssumption, PidAssumption, FutexAssumption, RequestAssumption, CodeAssumption

\* The successor of a slot is a legal scan index.
LEMMA SlotBounds ==
  ASSUME NEW i \in Slots
  PROVE  i \in Nat /\ i + 1 \in 0 .. MAX_PROCESSES /\ i # MAX_PROCESSES
BY Constants DEF Slots

\* Every place a step builds with Place is one of Places.
LEMMA PlaceType ==
  ASSUME NEW a \in {"user", "yield", "futex", "sleep", "exit", "wait", "waited"},
         NEW x \in Int, NEW v \in Int
  PROVE  Place(a, x, 0, v) \in Places
BY DEF Place, Places

\* User mode is a place.
LEMMA UserType == User \in Places
BY PlaceType DEF User

\* Places of the interruptible scan.
LEMMA ScanPlaceType ==
  /\ \A x \in Int, i \in 0 .. MAX_PROCESSES, v \in {0, 1} : Place("scan", x, i, v) \in Places
  /\ \A a \in {"take"} \cup Releasing, x \in Int, i \in Slots, v \in Int :
       Place(a, x, i, v) \in Places
BY DEF Place, Places, Releasing

\* A place has its four fields.
LEMMA PlaceFields ==
  ASSUME NEW p \in Places
  PROVE  /\ p.arg \in Int /\ p.idx \in Int /\ p.val \in Int
         /\ p.at = "scan" => p.idx \in 0 .. MAX_PROCESSES /\ p.val \in {0, 1}
         /\ p.at \in {"take"} \cup Releasing => p.idx \in Slots
BY Constants DEF Places, Slots, Releasing

\* Where a task is at some place.
LEMMA PlaceAt ==
  /\ \A a, x, i, v : Place(a, x, i, v).at = a
  /\ User.at = "user"
BY DEF Place, User

\* The first scan of wait4 frees one slot or none, and ends the call or halts.
LEMMA FirstScan ==
  ASSUME process_wait4
  PROVE  /\ cpu.at = "user"
         /\ UNCHANGED <<exit_code, died, idVars, blockVars, saved_frame, current, halted>>
         /\ \/ UNCHANGED <<active, exited, state>>
            \/ \E s \in Slots : Release(s)
         /\ \E x, v : cpu' \in {Place("waited", x, 0, v), Place("wait", x, 0, v)}
<1>1. cpu.at = "user"
  BY Zenon DEF process_wait4, UserDoes
<1>2. UNCHANGED <<exit_code, died, idVars, blockVars, saved_frame, current, halted>>
  BY Zenon DEF process_wait4
<1>3. UNCHANGED <<active, exited, state>> \/ \E s \in Slots : Release(s)
  BY Zenon DEF process_wait4
<1>4. \E x, v : cpu' \in {Place("waited", x, 0, v), Place("wait", x, 0, v)}
  BY Zenon DEF process_wait4
<1> QED
  BY <1>1, <1>2, <1>3, <1>4, Zenon

\* What a release does to a slot it finds.
LEMMA ReleaseFrees ==
  ASSUME TypeOK, NEW s \in Slots, Release(s)
  PROVE  \A t \in Slots : active'[t] =>
           /\ active[t] /\ (exited'[t] => exited[t]) /\ state'[t] = state[t]
BY DEF Release, TypeOK

\* Where the steps of a later scan of wait4 start and end.
LEMMA WaitPlaces ==
  ASSUME \/ wait4_scan \/ wait4_take \/ wait4_return
         \/ wait4_clear \/ wait4_clear_exited \/ wait4_clear_state
  PROVE  /\ cpu.at \notin {"exit", "futex", "sleep"} /\ cpu'.at # "exit"
         /\ UNCHANGED <<blockVars, saved_frame, current>>
<1>1. UNCHANGED <<blockVars, saved_frame, current>>
  BY Zenon DEF wait4_scan, wait4_take, wait4_return, wait4_clear, wait4_clear_exited,
    wait4_clear_state
<1>2. cpu.at \in {"scan", "take", "waited", "clear", "clear_exited", "clear_state"}
  BY Zenon DEF wait4_scan, wait4_take, wait4_return, wait4_clear, wait4_clear_exited,
    wait4_clear_state
<1>3. \E a \in {"scan", "take", "wait", "waited", "clear", "clear_exited", "clear_state"} :
        \E x, i, v : cpu' = Place(a, x, i, v) \/ cpu' = User
  <2>1. CASE wait4_scan
    BY <2>1, Zenon DEF wait4_scan
  <2>2. CASE wait4_take
    BY <2>2, Zenon DEF wait4_take
  <2>3. CASE wait4_return
    BY <2>3, Zenon DEF wait4_return
  <2>4. CASE wait4_clear \/ wait4_clear_exited \/ wait4_clear_state
    BY <2>4, Zenon DEF wait4_clear, wait4_clear_exited, wait4_clear_state, Then
  <2> QED
    BY <2>1, <2>2, <2>3, <2>4, Zenon
<1>4. cpu'.at \in {"scan", "take", "wait", "waited", "clear", "clear_exited", "clear_state", "user"}
  BY <1>3, PlaceAt
<1> QED
  BY <1>1, <1>2, <1>4

\* Where the blocking calls start and end.
LEMMA BlockPlaces ==
  ASSUME \/ futex_wait \/ sys_nanosleep \/ schedule_yield
         \/ futex_wait_return \/ sys_nanosleep_return
  PROVE  /\ cpu.at # "exit" /\ cpu'.at \in {"futex", "sleep", "yield", "user"}
         /\ UNCHANGED <<active, exited, saved_frame, current>>
<1>1. UNCHANGED <<active, endVars, saved_frame, current>>
  BY Zenon DEF futex_wait, sys_nanosleep, schedule_yield, futex_wait_return, sys_nanosleep_return
<1>2. cpu.at \in {"user", "futex", "sleep"}
  BY Zenon DEF futex_wait, sys_nanosleep, schedule_yield, futex_wait_return, sys_nanosleep_return,
    UserDoes
<1>3. \E a \in {"futex", "sleep", "yield"} : \E x : cpu' = Place(a, x, 0, 0) \/ cpu' = User
  BY Zenon DEF futex_wait, sys_nanosleep, schedule_yield, futex_wait_return, sys_nanosleep_return
<1>4. cpu'.at \in {"futex", "sleep", "yield", "user"}
  BY <1>3, PlaceAt
<1> QED
  BY <1>1, <1>2, <1>4 DEF endVars

\* futex_wake changes the state of sleepers only.
LEMMA WakesSleepers ==
  ASSUME futex_wake, NEW s \in Slots
  PROVE  state'[s] = state[s] \/ (state[s] = "SLEEPING" /\ state'[s] = "READY")
<1>1. PICK ch \in Futexes, count \in 1 .. MAX_PROCESSES :
        state' = [t \in Slots |-> IF t \in ToWake(ch, count) THEN "READY" ELSE state[t]]
  BY Zenon DEF futex_wake
<1>2. s \in ToWake(ch, count) => state[s] = "SLEEPING"
  BY Zenon DEF ToWake, Waiters
<1>3. state'[s] = IF s \in ToWake(ch, count) THEN "READY" ELSE state[s]
  BY <1>1, Zenon
<1> QED
  BY <1>2, <1>3, Zenon

\* What hlt's end makes of a place is a place.
LEMMA AfterHltType ==
  ASSUME NEW p \in Places
  PROVE  AfterHlt(p) \in Places
<1>1. User \in Places
  BY UserType
<1>2. Place("scan", p.arg, 0, 0) \in Places
  BY ScanPlaceType, PlaceFields, Constants
<1> QED
  BY <1>1, <1>2 DEF AfterHlt

-----------------------------------------------------------------------------
(* Type correctness.                                                        *)

\* The states the tick computes are states.
LEMMA PreemptedType ==
  ASSUME TypeOK
  PROVE  Preempted \in [Slots -> States] /\ Woken \in [Slots -> States]
<1>1. Woken \in [Slots -> States]
  BY DEF TypeOK, Woken, States
<1> QED
  BY <1>1, Zenon DEF Preempted, States

\* A task slot's tick count never goes below zero.
LEMMA TotalTicksType ==
  ASSUME NEW sec \in Nat, NEW nsec \in Nat
  PROVE  TotalTicks(sec, nsec) \in Nat \ {0}
<1>1. (nsec + TickNsec - 1) \div TickNsec \in Nat
  BY SMT DEF TickNsec
<1>2. sec * 100 \in Nat
  BY SMT
<1> QED
  BY <1>1, <1>2, SMT DEF TotalTicks

\* process_init and the start of /bin/init.
LEMMA TypeInit == Init => TypeOK
<1> SUFFICES ASSUME Init PROVE TypeOK
  OBVIOUS
<1>1. active \in [Slots -> BOOLEAN]
  BY Zenon DEF Init
<1>2. 0 \in Slots
  BY Constants DEF Slots
<1>3. ALIVE \in Int
  BY DEF ALIVE
<1>4. exited \in [Slots -> BOOLEAN] /\ is_thread \in [Slots -> BOOLEAN]
  BY Zenon DEF Init
<1>5. state \in [Slots -> States] /\ pid \in [Slots -> Nat]
  BY DEF Init, States
<1>6. saved_frame \in [Slots -> Places] /\ cpu \in Places
  BY UserType, Zenon DEF Init
<1>7. died \in [Pids -> Int]
  BY <1>3, Zenon DEF Init
<1>8. /\ ppid \in [Slots -> Nat] /\ exit_code \in [Slots -> Int]
      /\ sleep_ticks \in [Slots -> Nat] /\ wait_channel \in [Slots -> Nat]
      /\ clear_child_tid \in [Slots -> Nat]
  BY DEF Init
<1>9. current \in Slots /\ next_pid \in Nat \ {0, 1}
  BY <1>2 DEF Init
<1>10. halted \in BOOLEAN
  BY Zenon DEF Init
<1> QED
  BY <1>1, <1>4, <1>5, <1>6, <1>7, <1>8, <1>9, <1>10 DEF TypeOK

\* The timer tick.
LEMMA TypeTick == TypeOK /\ scheduler_tick => TypeOK'
<1> SUFFICES ASSUME TypeOK, scheduler_tick PROVE TypeOK'
  OBVIOUS
<1>1. saved_frame' \in [Slots -> Places]
  BY AfterHltType DEF TypeOK, scheduler_tick
<1>2. PICK n \in Slots : state' = [Preempted EXCEPT ![n] = "RUNNING"] /\ current' = n
                         /\ cpu' = saved_frame'[n]
  BY Zenon DEF scheduler_tick
<1>3. state' \in [Slots -> States] /\ current' \in Slots /\ cpu' \in Places
  BY <1>1, <1>2, PreemptedType DEF States
<1>4. sleep_ticks' \in [Slots -> Nat]
  BY DEF TypeOK, scheduler_tick, Expiring
<1> QED
  BY <1>1, <1>3, <1>4 DEF TypeOK, scheduler_tick, endVars, idVars

\* fork and clone.
LEMMA TypeSpawn ==
  ASSUME TypeOK, NEW i \in Slots, NEW thread \in BOOLEAN, NEW ctid \in Nat,
         Spawn(i, thread, ctid)
  PROVE  TypeOK'
BY UserType DEF TypeOK, Spawn, Identify, ClearSlot, States

\* The actions of UserCall other than exit.
LEMMA TypeCalls ==
  ASSUME TypeOK,
         \/ process_fork \/ process_clone \/ process_execve \/ sys_set_tid_address
         \/ futex_wait \/ futex_wake \/ sys_nanosleep \/ schedule_yield
  PROVE  TypeOK'
<1> USE Constants DEF TypeOK, endVars, idVars, blockVars
<1>1. CASE process_fork
  BY <1>1, TypeSpawn, Zenon DEF process_fork
<1>2. CASE process_clone
  BY <1>2, TypeSpawn, Zenon DEF process_clone
<1>3. CASE process_execve
  BY <1>3, UserType DEF process_execve, States
<1>4. CASE sys_set_tid_address
  BY <1>4 DEF sys_set_tid_address
<1>5. CASE futex_wait
  BY <1>5, PlaceType DEF futex_wait, States
<1>6. CASE futex_wake
  BY <1>6 DEF futex_wake, States
<1>7. CASE sys_nanosleep
  <2>1. PICK req \in Requests :
          sleep_ticks' = [sleep_ticks EXCEPT ![current] = TotalTicks(req[1], req[2])]
    BY <1>7, Zenon DEF sys_nanosleep
  <2>2. TotalTicks(req[1], req[2]) \in Nat
    BY TotalTicksType, Zenon
  <2> QED
    BY <1>7, <2>1, <2>2, PlaceType DEF sys_nanosleep, States
<1>8. CASE schedule_yield
  BY <1>8, PlaceType DEF schedule_yield
<1> QED
  BY <1>1, <1>2, <1>3, <1>4, <1>5, <1>6, <1>7, <1>8

\* The statuses the history records are bytes.
LEMMA DiesType ==
  ASSUME TypeOK, NEW ended, NEW code \in Int, Dies(ended, code)
  PROVE  died' \in [Pids -> Int]
<1>1. Status(code) \in Int
  BY DEF Status
<1> QED
  BY <1>1 DEF TypeOK, Dies

\* exit, of pid 1, a thread or a process.
LEMMA TypeExit ==
  ASSUME TypeOK, NEW code \in Int, ExitWith(code)
  PROVE  TypeOK'
<1> USE DEF TypeOK, endVars, idVars
<1>1. wait_channel' \in [Slots -> Nat]
  BY DEF ExitWith
<1>2. CASE ExitInit
  <2>1. state' \in [Slots -> States]
    BY <1>2 DEF ExitInit, States
  <2> QED
    BY <1>1, <1>2, <2>1 DEF ExitWith, ExitInit
<1>3. CASE ExitThread(code)
  <2>1. state' \in [Slots -> States]
    BY <1>3 DEF ExitThread, States
  <2>2. cpu' \in Places /\ died' \in [Pids -> Int]
    BY <1>3, PlaceType, DiesType DEF ExitThread
  <2>3. exit_code' \in [Slots -> Int] /\ active' \in [Slots -> BOOLEAN]
    BY <1>3 DEF ExitThread
  <2> QED
    BY <1>1, <1>3, <2>1, <2>2, <2>3 DEF ExitWith, ExitThread
<1>4. CASE ExitProcess(code)
  <2>1. state' \in [Slots -> States]
    BY <1>4 DEF ExitProcess, States
  <2>2. cpu' \in Places /\ died' \in [Pids -> Int]
    BY <1>4, PlaceType, DiesType DEF ExitProcess
  <2>3. exit_code' \in [Slots -> Int]
    BY <1>4 DEF ExitProcess
  <2>4. active' \in [Slots -> BOOLEAN] /\ exited' \in [Slots -> BOOLEAN]
    BY <1>4 DEF ExitProcess
  <2> QED
    BY <1>1, <1>4, <2>1, <2>2, <2>3, <2>4 DEF ExitWith, ExitProcess
<1> QED
  BY <1>2, <1>3, <1>4 DEF ExitWith

\* exit, a fault, and kill.
LEMMA TypeEnd ==
  ASSUME TypeOK, process_exit \/ exception_handler \/ process_kill
  PROVE  TypeOK'
<1>1. CASE process_exit
  BY <1>1, TypeExit, Constants DEF process_exit
<1>2. CASE exception_handler
  <2>1. CASE ExitWith(SIGSEGV)
    BY <2>1, TypeExit DEF SIGSEGV
  <2>2. CASE halted' = TRUE /\ UNCHANGED <<active, state, endVars, idVars, blockVars,
                                           saved_frame, current, cpu>>
    BY <2>2 DEF TypeOK, endVars, idVars, blockVars
  <2> QED
    BY <1>2, <2>1, <2>2, Zenon DEF exception_handler
<1>3. CASE process_kill
  <2> USE DEF TypeOK
  <2>1. PICK i \in Slots, sig \in Codes :
          /\ active' = [active EXCEPT ![i] = FALSE]
          /\ exited' = [exited EXCEPT ![i] = TRUE]
          /\ exit_code' = [exit_code EXCEPT ![i] = sig]
          /\ Dies({i}, sig)
    BY <1>3, Zenon DEF process_kill
  <2>2. state' \in [Slots -> States]
    BY <1>3 DEF process_kill, States
  <2>3. died' \in [Pids -> Int] /\ exit_code' \in [Slots -> Int]
    BY <2>1, DiesType, Constants
  <2> QED
    BY <1>3, <2>1, <2>2, <2>3 DEF process_kill, idVars, blockVars
<1> QED
  BY <1>1, <1>2, <1>3

\* wait4: its first scan and the steps of a later one.
LEMMA TypeWait ==
  ASSUME TypeOK,
         \/ process_wait4 \/ wait4_scan \/ wait4_take \/ wait4_return
         \/ wait4_clear \/ wait4_clear_exited \/ wait4_clear_state
  PROVE  TypeOK'
<1> USE DEF TypeOK, endVars, idVars, blockVars
<1>0. /\ ECHILD \in Int
      /\ \A s \in Slots : pid[s] \in Int /\ Status(exit_code[s]) \in Int
      /\ WaitArgs \subseteq Int
  BY Constants DEF ECHILD, Status, WaitArgs, Pids
<1>1. CASE process_wait4
  <2>1. cpu' \in Places
    BY <1>0, <1>1, PlaceType DEF process_wait4
  <2>2. /\ active' \in [Slots -> BOOLEAN] /\ exited' \in [Slots -> BOOLEAN]
        /\ state' \in [Slots -> States]
    BY <1>1, Zenon DEF process_wait4, Release, States
  <2> QED
    BY <1>1, <2>1, <2>2 DEF process_wait4
<1>2. CASE wait4_scan
  <2>1. cpu' \in Places
    <3>1. cpu.arg \in Int /\ cpu.val \in {0, 1} /\ cpu.idx \in 0 .. MAX_PROCESSES
      BY <1>2, PlaceFields DEF wait4_scan
    <3>2. CASE cpu.idx \in Slots
      <4>1. cpu.idx + 1 \in 0 .. MAX_PROCESSES /\ cpu.idx # MAX_PROCESSES
        BY <3>2, SlotBounds
      <4>2. cpu.val \in Int /\ 1 \in {0, 1}
        BY <3>1
      <4>3. cpu' \in {Place("scan", cpu.arg, cpu.idx + 1, cpu.val),
                     Place("take", cpu.arg, cpu.idx, cpu.val),
                     Place("scan", cpu.arg, cpu.idx + 1, 1)}
        BY <1>2, <4>1 DEF wait4_scan
      <4> HIDE DEF TypeOK
      <4> QED
        BY <3>1, <3>2, <4>1, <4>2, <4>3, ScanPlaceType
    <3>3. CASE cpu.idx = MAX_PROCESSES /\ cpu.idx \notin Slots
      BY <1>0, <1>2, <3>1, <3>3, PlaceType DEF wait4_scan
    <3> QED
      BY <1>2, <3>2, <3>3 DEF wait4_scan
  <2> QED
    BY <1>2, <2>1 DEF wait4_scan
<1>3. CASE wait4_take
  <2>1. cpu.idx \in Slots /\ "clear" \in {"take"} \cup Releasing
    BY <1>3, PlaceFields DEF wait4_take, Releasing
  <2>2. cpu' \in Places
    BY <1>0, <1>3, <2>1, ScanPlaceType, Zenon DEF wait4_take
  <2> QED
    BY <1>3, <2>2, Zenon DEF wait4_take
<1>4. CASE wait4_clear \/ wait4_clear_exited
  <2>1. cpu.at \in Releasing
    BY <1>4 DEF wait4_clear, wait4_clear_exited, Releasing
  <2>2. cpu.arg \in Int /\ cpu.idx \in Slots /\ cpu.val \in Int
    BY <2>1, PlaceFields
  <2>3. cpu' \in Places
    <3>1. PICK a \in Releasing : cpu' = Place(a, cpu.arg, cpu.idx, cpu.val)
      BY <1>4 DEF wait4_clear, wait4_clear_exited, Then, Releasing
    <3> HIDE DEF TypeOK
    <3> QED
      BY <2>2, <3>1, ScanPlaceType
  <2>4. active' \in [Slots -> BOOLEAN] /\ exited' \in [Slots -> BOOLEAN]
    BY <1>4 DEF wait4_clear, wait4_clear_exited
  <2> QED
    BY <1>4, <2>3, <2>4, Zenon DEF wait4_clear, wait4_clear_exited
<1>5. CASE wait4_clear_state
  <2>1. cpu' \in Places
    BY <1>5, PlaceFields, PlaceType, Zenon DEF wait4_clear_state
  <2> QED
    BY <1>5, <2>1, Zenon DEF wait4_clear_state, States
<1>6. CASE wait4_return
  BY <1>6, UserType DEF wait4_return
<1> QED
  BY <1>1, <1>2, <1>3, <1>4, <1>5, <1>6

\* No step leaves the types.
LEMMA TypeNext == TypeOK /\ [Next]_vars => TypeOK'
<1> SUFFICES ASSUME TypeOK, [Next]_vars PROVE TypeOK'
  OBVIOUS
<1>1. CASE scheduler_tick
  BY <1>1, TypeTick
<1>2. CASE UserCall
  BY <1>2, TypeCalls, TypeEnd, TypeWait DEF UserCall
<1>3. CASE KernelStep
  <2>1. CASE futex_wait_return \/ sys_nanosleep_return
    BY <2>1, UserType DEF futex_wait_return, sys_nanosleep_return, TypeOK,
                          endVars, idVars, blockVars
  <2> QED
    BY <1>3, <2>1, TypeWait DEF KernelStep
<1>4. CASE power_off \/ UNCHANGED vars
  BY <1>4 DEF power_off, vars, endVars, idVars, blockVars, TypeOK
<1> QED
  BY <1>1, <1>2, <1>3, <1>4 DEF Next

\* Every field of the process table keeps the range its C type and the code
\* give it: tick counters never go below zero, a scan never leaves the
\* table.
THEOREM TypeCorrect == Spec => []TypeOK
<1> QED
  BY TypeInit, TypeNext, PTL DEF Spec

-----------------------------------------------------------------------------
(* Pids.                                                                    *)

\* Steps that create no task and switch to none; they may end tasks.
LEMMA PidsSame ==
  ASSUME PidsUnique, InitInSlotZero, UNCHANGED <<idVars, current>>,
         \A s \in Slots : active'[s] => active[s]
  PROVE  PidsUnique' /\ InitInSlotZero'
BY DEF PidsUnique, InitInSlotZero, idVars

\* fork and clone hand out a fresh pid, never in slot 0.
LEMMA PidsSpawn ==
  ASSUME TypeOK, PidsUnique, InitInSlotZero, NEW i \in Slots, FirstFree(i),
         NEW thread, NEW ctid, Spawn(i, thread, ctid)
  PROVE  PidsUnique' /\ InitInSlotZero'
<1> USE DEF Spawn, Identify, ClearSlot, FirstFree
<1>1. PidsUnique'
  BY DEF TypeOK, PidsUnique
<1>2. i # 0 /\ 0 \in Slots
  BY Constants DEF Slots
<1>3. pid'[0] = 1 /\ ppid'[0] = 0
  BY <1>2 DEF TypeOK, InitInSlotZero
<1>4. next_pid # 0 /\ next_pid # 1
  BY DEF TypeOK
<1> QED
  BY <1>1, <1>3, <1>4 DEF TypeOK, InitInSlotZero

\* The task a tick selects is active, or it is slot 0.
LEMMA SelectedActive ==
  ASSUME NEW n \in Slots, Selected(n)
  PROVE  active[n] \/ n = 0
BY DEF Selected

\* What exit does not touch.
LEMMA PidsExit ==
  ASSUME TypeOK, PidsUnique, InitInSlotZero, NEW code, ExitWith(code)
  PROVE  PidsUnique' /\ InitInSlotZero'
<1>1. UNCHANGED <<idVars, current>>
  BY DEF ExitWith
<1>2. \A s \in Slots : active'[s] => active[s]
  BY DEF ExitWith, ExitInit, ExitThread, ExitProcess, TypeOK
<1> QED
  BY <1>1, <1>2, PidsSame

\* Every step.
LEMMA PidsNext ==
  ASSUME TypeOK, PidsUnique, InitInSlotZero, [Next]_vars
  PROVE  PidsUnique' /\ InitInSlotZero'
<1>0. 0 \in Slots
  BY Constants DEF Slots
<1>1. CASE scheduler_tick
  <2>1. PICK n \in Slots : Selected(n) /\ current' = n
    BY <1>1 DEF scheduler_tick
  <2> QED
    BY <1>1, <2>1, SelectedActive
    DEF scheduler_tick, endVars, idVars, PidsUnique, InitInSlotZero
<1>2. CASE process_fork \/ process_clone
  BY <1>2, PidsSpawn, Zenon DEF process_fork, process_clone
<1>3. CASE process_exit
  BY <1>3, PidsExit DEF process_exit
<1>4. CASE exception_handler
  BY <1>4, PidsExit, PidsSame DEF exception_handler, endVars
<1>5. CASE process_kill
  <2>1. \A s \in Slots : active'[s] => active[s]
    BY <1>5 DEF process_kill, TypeOK
  <2> QED
    BY <1>5, <2>1, PidsSame DEF process_kill
<1>6. CASE process_wait4 \/ wait4_clear
  <2>1. \A s \in Slots : active'[s] => active[s]
    BY <1>6 DEF process_wait4, wait4_clear, Release, TypeOK
  <2> QED
    BY <1>6, <2>1, PidsSame DEF process_wait4, wait4_clear
<1>7. CASE \/ process_execve \/ sys_set_tid_address \/ futex_wait \/ futex_wake
           \/ sys_nanosleep \/ schedule_yield
  BY <1>7, PidsSame DEF process_execve, sys_set_tid_address, futex_wait, futex_wake,
                        sys_nanosleep, schedule_yield, endVars
<1>8. CASE \/ futex_wait_return \/ sys_nanosleep_return
           \/ wait4_scan \/ wait4_take \/ wait4_return
           \/ wait4_clear_exited \/ wait4_clear_state
  BY <1>8, PidsSame DEF futex_wait_return, sys_nanosleep_return, wait4_scan,
                        wait4_take, wait4_return, wait4_clear_exited, wait4_clear_state
<1>9. CASE power_off \/ UNCHANGED vars
  BY <1>9, PidsSame DEF power_off, vars, endVars
<1> QED
  BY <1>1, <1>2, <1>3, <1>4, <1>5, <1>6, <1>7, <1>8, <1>9 DEF Next, UserCall, KernelStep

\* No two slots hold the same pid, dead slots included, and pid 1 stays in
\* slot 0, whatever the order of fork, clone, exit, kill and wait4.
THEOREM PidsCorrect == Spec => []PidsUnique /\ []InitInSlotZero
<1>1. Init => PidsUnique /\ InitInSlotZero
  <2> SUFFICES ASSUME Init PROVE PidsUnique /\ InitInSlotZero
    OBVIOUS
  <2>1. 0 \in Slots
    BY Constants DEF Slots
  <2>2. \A s \in Slots : pid[s] = IF s = 0 THEN 1 ELSE 0
    BY DEF Init
  <2>3. PidsUnique
    BY <2>2 DEF Init, PidsUnique
  <2>4. \A s \in Slots : active[s] => s = 0
    BY Zenon DEF Init
  <2>5. current = 0 /\ ppid[0] = 0
    BY <2>1 DEF Init
  <2> QED
    BY <2>1, <2>2, <2>3, <2>4, <2>5 DEF InitInSlotZero
<1>2. TypeOK /\ PidsUnique /\ InitInSlotZero /\ [Next]_vars
        => PidsUnique' /\ InitInSlotZero'
  BY PidsNext
<1> QED
  BY <1>1, <1>2, TypeCorrect, PTL DEF Spec

-----------------------------------------------------------------------------
(* At most one task is RUNNING.                                             *)

\* Steps that make no task RUNNING and switch to none.
LEMMA RunningSame ==
  ASSUME OneRunning, UNCHANGED current,
         \A s \in Slots : active'[s] /\ state'[s] = "RUNNING" =>
           s = current \/ (active[s] /\ state[s] = "RUNNING")
  PROVE  OneRunning'
BY DEF OneRunning

\* The tick demotes the interrupted task before it promotes the next one.
LEMMA RunningTick ==
  ASSUME TypeOK, OneRunning, scheduler_tick
  PROVE  OneRunning'
<1>1. PICK n \in Slots : state' = [Preempted EXCEPT ![n] = "RUNNING"] /\ current' = n
  BY Zenon DEF scheduler_tick
<1>2. UNCHANGED active
  BY DEF scheduler_tick
<1>3. \A s \in Slots : active[s] => Preempted[s] # "RUNNING"
  <2>1. \A s \in Slots : Woken[s] = "RUNNING" => state[s] = "RUNNING"
    BY DEF Woken
  <2> QED
    BY <2>1, PreemptedType DEF Preempted, OneRunning, TypeOK
<1> QED
  BY <1>1, <1>2, <1>3, PreemptedType DEF OneRunning

\* Every step.
LEMMA RunningNext ==
  ASSUME TypeOK, OneRunning, [Next]_vars
  PROVE  OneRunning'
<1> USE DEF TypeOK
<1>1. CASE scheduler_tick
  BY <1>1, RunningTick
<1>2. CASE process_fork \/ process_clone
  BY <1>2, RunningSame, Zenon DEF process_fork, process_clone, Spawn
<1>3. CASE process_exit \/ exception_handler
  <2>1. ASSUME NEW code, ExitWith(code) PROVE OneRunning'
    BY <2>1, RunningSame DEF ExitWith, ExitInit, ExitThread, ExitProcess
  <2> QED
    BY <1>3, <2>1, RunningSame DEF process_exit, exception_handler
<1>4. CASE process_kill
  BY <1>4, RunningSame DEF process_kill
<1>5. CASE process_wait4 \/ wait4_clear \/ wait4_clear_exited \/ wait4_clear_state
  BY <1>5, RunningSame
  DEF process_wait4, wait4_clear, wait4_clear_exited, wait4_clear_state, Release
<1>6. CASE process_execve \/ futex_wait \/ futex_wake \/ sys_nanosleep
  BY <1>6, RunningSame DEF process_execve, futex_wait, futex_wake, sys_nanosleep
<1>7. CASE sys_set_tid_address \/ schedule_yield
  BY <1>7, RunningSame DEF sys_set_tid_address, schedule_yield
<1>8. CASE \/ futex_wait_return \/ sys_nanosleep_return
           \/ wait4_scan \/ wait4_take \/ wait4_return
  BY <1>8, RunningSame DEF futex_wait_return, sys_nanosleep_return, wait4_scan,
                           wait4_take, wait4_return
<1>9. CASE power_off \/ UNCHANGED vars
  BY <1>9, RunningSame DEF power_off, vars
<1> QED
  BY <1>1, <1>2, <1>3, <1>4, <1>5, <1>6, <1>7, <1>8, <1>9 DEF Next, UserCall, KernelStep

\* At most one active task is RUNNING, and it is the current one.
THEOREM OneRunningCorrect == Spec => []OneRunning
<1>1. Init => OneRunning
  BY DEF Init, OneRunning
<1>2. TypeOK /\ OneRunning /\ [Next]_vars => OneRunning'
  BY RunningNext
<1> QED
  BY <1>1, <1>2, TypeCorrect, PTL DEF Spec

-----------------------------------------------------------------------------
(* Where a tick leaves the tasks.                                           *)

\* After a tick every active task resumes where it was, past its hlt.
LEMMA TickWhere ==
  ASSUME TypeOK, scheduler_tick, NEW s \in Slots, active[s]
  PROVE  Where(s)' = IF s = current THEN AfterHlt(cpu) ELSE saved_frame[s]
<1>1. PICK n \in Slots : current' = n /\ cpu' = saved_frame'[n]
  BY DEF scheduler_tick
<1>2. saved_frame' = IF active[current] THEN [saved_frame EXCEPT ![current] = AfterHlt(cpu)]
                     ELSE saved_frame
  BY DEF scheduler_tick
<1>3. Where(s)' = saved_frame'[s]
  BY <1>1 DEF Where
<1> QED
  BY <1>2, <1>3 DEF TypeOK

\* The end of a hlt changes only yield and wait4.
LEMMA AfterHltKeeps ==
  ASSUME NEW p
  PROVE  /\ p.at \notin {"yield", "wait"} => AfterHlt(p) = p
         /\ p.at \in {"yield", "wait"} => AfterHlt(p).at \in {"user", "scan"}
BY DEF AfterHlt, User, Place

-----------------------------------------------------------------------------
(* Blocked tasks.                                                           *)

\* A current task that is not in futex_wait or nanosleep waits for nothing.
LEMMA NotBlocked ==
  ASSUME TypeOK, BlockedWhereItWaits, active[current], cpu.at \notin {"futex", "sleep"}
  PROVE  wait_channel[current] = 0 /\ sleep_ticks[current] = 0
<1>1. Where(current) = cpu /\ current \in Slots /\ sleep_ticks[current] \in Nat
  BY DEF TypeOK, Where
<1>2. /\ wait_channel[current] # 0 => cpu = Place("futex", wait_channel[current], 0, 0)
      /\ sleep_ticks[current] > 0 => cpu = Place("sleep", 0, 0, 0)
  BY <1>1 DEF BlockedWhereItWaits
<1>3. \A a, x : Place(a, x, 0, 0).at = a
  BY DEF Place
<1> QED
  BY <1>1, <1>2, <1>3

\* Steps that put no task to sleep: they may end and wake tasks, and move
\* tasks that wait for nothing.
LEMMA BlockedSame ==
  ASSUME SleeperHasWaker, BlockedWhereItWaits,
         \A s \in Slots : active'[s] =>
           /\ active[s]
           /\ sleep_ticks'[s] = sleep_ticks[s]
           /\ wait_channel'[s] \in {0, wait_channel[s]}
           /\ state'[s] = "SLEEPING" => /\ state[s] = "SLEEPING"
                                        /\ wait_channel'[s] = wait_channel[s]
           /\ Where(s)' = Where(s) \/ (wait_channel[s] = 0 /\ sleep_ticks[s] = 0)
  PROVE  SleeperHasWaker' /\ BlockedWhereItWaits'
<1> USE DEF SleeperHasWaker, BlockedWhereItWaits
<1>1. SleeperHasWaker'
  OBVIOUS
<1>2. ASSUME NEW s \in Slots, active'[s]
      PROVE  /\ wait_channel'[s] # 0 => Where(s)' = Place("futex", wait_channel'[s], 0, 0)
             /\ sleep_ticks'[s] > 0 => Where(s)' = Place("sleep", 0, 0, 0)
  BY <1>2
<1> QED
  BY <1>1, <1>2

\* A step of the current task that is not blocked leaves every other task
\* where it is.
LEMMA WhereStep ==
  ASSUME TypeOK, BlockedWhereItWaits, UNCHANGED <<saved_frame, current>>,
         cpu.at \notin {"futex", "sleep"} \/ cpu' = cpu, NEW s \in Slots, active[s]
  PROVE  Where(s)' = Where(s) \/ (wait_channel[s] = 0 /\ sleep_ticks[s] = 0)
BY NotBlocked DEF Where

\* The tick wakes a sleeper only when neither waker is left.
LEMMA BlockedTick ==
  ASSUME TypeOK, SleeperHasWaker, BlockedWhereItWaits, scheduler_tick
  PROVE  SleeperHasWaker' /\ BlockedWhereItWaits'
<1>1. UNCHANGED <<active, wait_channel>>
  BY DEF scheduler_tick
<1>2. \A s \in Slots : sleep_ticks'[s] = IF Expiring(s) THEN sleep_ticks[s] - 1
                                         ELSE sleep_ticks[s]
  BY DEF scheduler_tick
<1>3. \A s \in Slots : state'[s] = "SLEEPING" => Woken[s] = "SLEEPING"
  <2>1. PICK n \in Slots : state' = [Preempted EXCEPT ![n] = "RUNNING"]
    BY Zenon DEF scheduler_tick
  <2> QED
    BY <2>1, PreemptedType DEF Preempted, TypeOK
<1>4. SleeperHasWaker'
  <2> SUFFICES ASSUME NEW s \in Slots, active[s], state'[s] = "SLEEPING"
               PROVE  sleep_ticks'[s] > 0 \/ wait_channel[s] # 0
    BY <1>1 DEF SleeperHasWaker
  <2>1. state[s] = "SLEEPING" /\ ~(Expiring(s) /\ sleep_ticks[s] = 1 /\ wait_channel[s] = 0)
    BY <1>3 DEF Woken
  <2> QED
    BY <1>2, <2>1 DEF SleeperHasWaker, TypeOK, Expiring
<1>5. BlockedWhereItWaits'
  <2> SUFFICES ASSUME NEW s \in Slots, active[s]
               PROVE  /\ wait_channel[s] # 0 => Where(s)' = Place("futex", wait_channel[s], 0, 0)
                      /\ sleep_ticks'[s] > 0 => Where(s)' = Place("sleep", 0, 0, 0)
    BY <1>1 DEF BlockedWhereItWaits
  <2>1. sleep_ticks'[s] > 0 => sleep_ticks[s] > 0
    BY <1>2 DEF Expiring, TypeOK
  <2>2. Where(s).at \in {"futex", "sleep"} => Where(s)' = Where(s)
    BY TickWhere, AfterHltKeeps DEF Where
  <2>3. \A ch : Place("futex", ch, 0, 0).at = "futex"
    BY DEF Place
  <2>4. Place("sleep", 0, 0, 0).at = "sleep"
    BY DEF Place
  <2> QED
    BY <2>1, <2>2, <2>3, <2>4 DEF BlockedWhereItWaits
<1> QED
  BY <1>4, <1>5

\* fork and clone start a task that waits for nothing.
LEMMA BlockedSpawn ==
  ASSUME TypeOK, SleeperHasWaker, BlockedWhereItWaits, NEW i \in Slots,
         NEW thread, NEW ctid, Spawn(i, thread, ctid)
  PROVE  SleeperHasWaker' /\ BlockedWhereItWaits'
<1> USE DEF TypeOK, Spawn, ClearSlot
<1>1. SleeperHasWaker'
  BY DEF SleeperHasWaker
<1>2. \A s \in Slots : s # i => Where(s)' = Where(s)
  BY DEF Where
<1> QED
  BY <1>1, <1>2 DEF BlockedWhereItWaits

\* exit makes waiters and the parent ready and blocks nobody.
LEMMA BlockedExit ==
  ASSUME TypeOK, SleeperHasWaker, BlockedWhereItWaits, cpu.at = "user",
         NEW code, ExitWith(code)
  PROVE  SleeperHasWaker' /\ BlockedWhereItWaits'
<1>1. UNCHANGED <<saved_frame, current, sleep_ticks>>
  BY DEF ExitWith
<1>2. \A s \in Slots : wait_channel'[s] = IF s \in ClearTidWakes THEN 0 ELSE wait_channel[s]
  BY DEF ExitWith
<1>3. \A s \in Slots : /\ active'[s] => active[s]
                       /\ state'[s] = "SLEEPING" =>
                            state[s] = "SLEEPING" /\ s \notin ClearTidWakes
  BY DEF ExitWith, ExitInit, ExitThread, ExitProcess, TypeOK
<1>4. \A s \in Slots : active[s] =>
        Where(s)' = Where(s) \/ (wait_channel[s] = 0 /\ sleep_ticks[s] = 0)
  BY <1>1, WhereStep
<1> QED
  BY <1>1, <1>2, <1>3, <1>4, BlockedSame

\* futex_wait and nanosleep block the current task where it is.
LEMMA BlockedBlock ==
  ASSUME TypeOK, SleeperHasWaker, BlockedWhereItWaits, futex_wait \/ sys_nanosleep
  PROVE  SleeperHasWaker' /\ BlockedWhereItWaits'
<1>1. /\ cpu.at = "user" /\ UNCHANGED <<active, saved_frame, current>>
      /\ state' = [state EXCEPT ![current] = "SLEEPING"]
  BY DEF futex_wait, sys_nanosleep, UserDoes
<1>2. \A s \in Slots : s # current => Where(s)' = Where(s)
  BY <1>1 DEF Where
<1>3. Where(current)' = cpu'
  BY <1>1 DEF Where
<1>4. active[current] => wait_channel[current] = 0 /\ sleep_ticks[current] = 0
  BY <1>1, NotBlocked
<1>5. CASE futex_wait
  <2>1. PICK ch \in Futexes : wait_channel' = [wait_channel EXCEPT ![current] = ch]
                             /\ cpu' = Place("futex", ch, 0, 0)
    BY <1>5, Zenon DEF futex_wait
  <2>2. ch # 0 /\ UNCHANGED sleep_ticks
    BY <1>5, Constants DEF futex_wait
  <2> QED
    BY <1>1, <1>2, <1>3, <1>4, <2>1, <2>2 DEF SleeperHasWaker, BlockedWhereItWaits, TypeOK
<1>6. CASE sys_nanosleep
  <2>1. PICK req \in Requests :
          sleep_ticks' = [sleep_ticks EXCEPT ![current] = TotalTicks(req[1], req[2])]
    BY <1>6, Zenon DEF sys_nanosleep
  <2>2. TotalTicks(req[1], req[2]) > 0
    BY TotalTicksType, Constants
  <2>3. UNCHANGED wait_channel /\ cpu' = Place("sleep", 0, 0, 0)
    BY <1>6 DEF sys_nanosleep
  <2> QED
    BY <1>1, <1>2, <1>3, <1>4, <2>1, <2>2, <2>3
    DEF SleeperHasWaker, BlockedWhereItWaits, TypeOK
<1> QED
  BY <1>5, <1>6, SMTT(20)

\* Every step.
LEMMA BlockedNext ==
  ASSUME TypeOK, SleeperHasWaker, BlockedWhereItWaits, [Next]_vars
  PROVE  SleeperHasWaker' /\ BlockedWhereItWaits'
<1>1. CASE scheduler_tick
  BY <1>1, BlockedTick
<1>2. CASE process_fork \/ process_clone
  BY <1>2, BlockedSpawn, Zenon DEF process_fork, process_clone
<1>3. CASE futex_wait \/ sys_nanosleep
  BY <1>3, BlockedBlock
<1>4. CASE process_exit
  BY <1>4, BlockedExit DEF process_exit, UserDoes
<1>5. CASE exception_handler
  <2>1. CASE \E code : ExitWith(code)
    BY <1>5, <2>1, BlockedExit DEF exception_handler, UserDoes
  <2>2. CASE UNCHANGED <<active, state, endVars, idVars, blockVars, saved_frame,
                         current, cpu>>
    BY <2>2, BlockedSame DEF blockVars, Where
  <2> QED
    BY <1>5, <2>1, <2>2 DEF exception_handler
<1>6. CASE futex_wake
  <2>1. PICK ch \in Futexes, count \in 1 .. MAX_PROCESSES :
          /\ wait_channel' = [s \in Slots |-> IF s \in ToWake(ch, count) THEN 0
                                              ELSE wait_channel[s]]
          /\ state' = [s \in Slots |-> IF s \in ToWake(ch, count) THEN "READY"
                                       ELSE state[s]]
    BY <1>6 DEF futex_wake
  <2>2. UNCHANGED <<active, sleep_ticks, saved_frame, current, cpu>>
    BY <1>6 DEF futex_wake
  <2> QED
    BY <2>1, <2>2, BlockedSame DEF Where
<1>7. CASE process_kill
  <2>1. UNCHANGED <<sleep_ticks, wait_channel, saved_frame, current, cpu>>
    BY <1>7 DEF process_kill, blockVars
  <2>2. \A s \in Slots : /\ active'[s] => active[s]
                         /\ state'[s] = "SLEEPING" => state[s] = "SLEEPING"
    BY <1>7, SMTT(20) DEF process_kill, TypeOK
  <2> QED
    BY <2>1, <2>2, BlockedSame DEF Where
<1>8. CASE \/ process_wait4 \/ wait4_scan \/ wait4_take \/ wait4_return
           \/ wait4_clear \/ wait4_clear_exited \/ wait4_clear_state
  <2>1. /\ cpu.at \notin {"futex", "sleep"}
        /\ UNCHANGED <<sleep_ticks, wait_channel, saved_frame, current>>
    <3>1. CASE process_wait4
      BY <3>1, FirstScan DEF blockVars
    <3> QED
      BY <1>8, <3>1, WaitPlaces DEF blockVars
  <2>2. \A s \in Slots : /\ active'[s] => active[s]
                         /\ state'[s] = "SLEEPING" => state[s] = "SLEEPING"
    <3>1. CASE process_wait4
      <4>1. CASE UNCHANGED <<active, exited, state>>
        BY <4>1
      <4>2. ASSUME NEW t \in Slots, Release(t)
            PROVE  \A s \in Slots : /\ active'[s] => active[s]
                                    /\ state'[s] = "SLEEPING" => state[s] = "SLEEPING"
        BY <4>2 DEF Release, TypeOK
      <4> QED
        BY <3>1, <4>1, <4>2, FirstScan
    <3>2. CASE wait4_scan \/ wait4_take \/ wait4_return
      <4>1. UNCHANGED <<active, state>>
        BY <3>2, Zenon DEF wait4_scan, wait4_take, wait4_return
      <4> QED
        BY <4>1
    <3>3. CASE wait4_clear \/ wait4_clear_exited \/ wait4_clear_state
      <4>1. CASE wait4_clear
        BY <4>1 DEF wait4_clear, TypeOK
      <4>2. CASE wait4_clear_exited
        BY <4>2 DEF wait4_clear_exited
      <4>3. CASE wait4_clear_state
        BY <4>3 DEF wait4_clear_state, TypeOK
      <4> QED
        BY <3>3, <4>1, <4>2, <4>3
    <3> QED
      BY <1>8, <3>1, <3>2, <3>3
  <2>3. \A s \in Slots : active[s] =>
          Where(s)' = Where(s) \/ (wait_channel[s] = 0 /\ sleep_ticks[s] = 0)
    BY <2>1, WhereStep
  <2> QED
    BY <2>1, <2>2, <2>3, BlockedSame
<1>9. CASE process_execve \/ sys_set_tid_address \/ schedule_yield
  <2>1. UNCHANGED <<active, sleep_ticks, wait_channel, current>> /\ cpu.at = "user"
    BY <1>9, Zenon DEF process_execve, sys_set_tid_address, schedule_yield, UserDoes, blockVars
  <2>2. \A s \in Slots : state'[s] = "SLEEPING" => state[s] = "SLEEPING"
    BY <1>9 DEF process_execve, sys_set_tid_address, schedule_yield, TypeOK
  <2>3. \A s \in Slots : s # current => Where(s)' = Where(s)
    BY <1>9 DEF process_execve, sys_set_tid_address, schedule_yield, Where, TypeOK
  <2> QED
    BY <2>1, <2>2, <2>3, NotBlocked, BlockedSame, ZenonT(30)
<1>10. CASE futex_wait_return \/ sys_nanosleep_return
  <2>1. UNCHANGED <<active, state, sleep_ticks, wait_channel, saved_frame, current>>
    BY <1>10 DEF futex_wait_return, sys_nanosleep_return, blockVars
  <2>2. active[current] => wait_channel[current] = 0 /\ sleep_ticks[current] = 0
    <3> SUFFICES ASSUME active[current]
                 PROVE  wait_channel[current] = 0 /\ sleep_ticks[current] = 0
      OBVIOUS
    <3>1. /\ wait_channel[current] # 0 => cpu = Place("futex", wait_channel[current], 0, 0)
          /\ sleep_ticks[current] > 0 => cpu = Place("sleep", 0, 0, 0)
      BY DEF BlockedWhereItWaits, Where, TypeOK
    <3>2. /\ \A ch : Place("futex", ch, 0, 0).at = "futex" /\ Place("futex", ch, 0, 0).arg = ch
          /\ Place("sleep", 0, 0, 0).at = "sleep"
      BY DEF Place
    <3>3. sleep_ticks[current] \in Nat
      BY DEF TypeOK
    <3>4. CASE futex_wait_return
      <4>1. cpu.at = "futex" /\ wait_channel[current] # cpu.arg
        BY <3>4, Zenon DEF futex_wait_return
      <4> QED
        BY <3>1, <3>2, <3>3, <4>1
    <3>5. CASE sys_nanosleep_return
      <4>1. cpu.at = "sleep" /\ sleep_ticks[current] = 0
        BY <3>5, Zenon DEF sys_nanosleep_return
      <4> QED
        BY <3>1, <3>2, <4>1
    <3> QED
      BY <1>10, <3>4, <3>5
  <2>3. \A s \in Slots : s # current => Where(s)' = Where(s)
    BY <2>1 DEF Where
  <2> QED
    BY <2>1, <2>2, <2>3, BlockedSame
<1>11. CASE power_off \/ UNCHANGED vars
  BY <1>11, BlockedSame DEF power_off, vars, blockVars, Where
<1> QED
  BY <1>1, <1>2, <1>3, <1>4, <1>5, <1>6, <1>7, <1>8, <1>9, <1>10, <1>11
  DEF Next, UserCall, KernelStep

\* Every sleeping task has a timer or a futex that can wake it, and the wait
\* fields of a task belong to the call it is blocked in.
THEOREM BlockedCorrect == Spec => []SleeperHasWaker /\ []BlockedWhereItWaits
<1>1. Init => SleeperHasWaker
  BY DEF Init, SleeperHasWaker
<1>2. Init => BlockedWhereItWaits
  BY DEF Init, BlockedWhereItWaits
<1>3. TypeOK /\ SleeperHasWaker /\ BlockedWhereItWaits /\ [Next]_vars
        => SleeperHasWaker' /\ BlockedWhereItWaits'
  BY BlockedNext
<1> QED
  BY <1>1, <1>2, <1>3, TypeCorrect, PTL DEF Spec

-----------------------------------------------------------------------------
(* Round robin.                                                             *)

\* A scan from c that stops at n before s leaves s closer to n than to c.
LEMMA DistanceShrinks ==
  ASSUME NEW c \in Slots, NEW n \in Slots, NEW s \in Slots,
         n # c, n # s, s # c, Distance(c, n) <= Distance(c, s)
  PROVE  Distance(n, s) < Distance(c, s)
BY Constants DEF Slots, Distance

\* A task that is ready before the tick is a candidate of its scan.
LEMMA ReadyIsCandidate ==
  ASSUME NEW s \in Slots, state[s] = "READY", s # current
  PROVE  Preempted[s] = "READY"
BY DEF Preempted, Woken, Expiring

\* Each switch brings a ready task strictly closer to its turn, so at most
\* MAX_PROCESSES - 1 other tasks are dispatched before it.
THEOREM RoundRobin == Spec => ReadyGetsCloser
<1> DEFINE Closer ==
      \A s \in Slots :
        active[s] /\ state[s] = "READY" /\ s # current /\ current' \notin {current, s}
          => Distance(current', s) < Distance(current, s)
<1>1. TypeOK /\ [Next]_vars => [Closer]_vars
  <2> SUFFICES ASSUME TypeOK, Next,
                      NEW s \in Slots, active[s], state[s] = "READY", s # current,
                      current' \notin {current, s}
               PROVE  Distance(current', s) < Distance(current, s)
    OBVIOUS
  <2>1. CASE scheduler_tick
    <3>1. PICK n \in Slots : Selected(n) /\ current' = n
      BY <2>1 DEF scheduler_tick
    <3>2. Preempted[s] = "READY"
      BY ReadyIsCandidate
    <3>3. Distance(current, n) <= Distance(current, s)
      BY <3>1, <3>2, SMTT(20) DEF Selected
    <3> QED
      BY <3>1, <3>3, DistanceShrinks, SMTT(20) DEF TypeOK
  <2>2. CASE UserCall \/ KernelStep \/ power_off
    BY <2>2, Zenon DEF UserCall, KernelStep, power_off, vars,
      process_fork, process_clone, Spawn, process_execve, sys_set_tid_address,
      futex_wait, futex_wake, sys_nanosleep, schedule_yield, process_exit,
      exception_handler, ExitWith, process_kill, process_wait4, futex_wait_return,
      sys_nanosleep_return, wait4_scan, wait4_take, wait4_return, wait4_clear,
      wait4_clear_exited, wait4_clear_state
  <2> QED
    BY <2>1, <2>2 DEF Next
<1> QED
  BY <1>1, TypeCorrect, PTL DEF Spec, ReadyGetsCloser

-----------------------------------------------------------------------------
(* Zombies, and the late stores of a release.                               *)

\* The places of a rescan that has chosen the slot it will free.
Claiming == {"take"} \cup Releasing

\* Ended tasks stay where they are, and pid 1 is not one of them.
EndedStay == ZombieNeverRuns /\ InitNeverEnds

\* Steps that end no task that stays active and do not switch: they may free
\* slots, and change the state and the place of tasks that have not ended.
LEMMA ZombieSame ==
  ASSUME EndedStay, UNCHANGED current,
         \A s \in Slots : active'[s] =>
           /\ active[s] /\ (exited'[s] => exited[s])
           /\ (state'[s] = "ZOMBIE") <=> (state[s] = "ZOMBIE")
           /\ (state'[s] = "FREE") <=> (state[s] = "FREE")
           /\ (Where(s)'.at = "exit") <=> (Where(s).at = "exit")
  PROVE  EndedStay'
<1>1. 0 \in Slots
  BY Constants DEF Slots
<1>2. InitNeverEnds'
  BY <1>1, Zenon DEF EndedStay, InitNeverEnds
<1>3. ZombieNeverRuns'
  BY Zenon DEF EndedStay, ZombieNeverRuns, Overwritten
<1> QED
  BY <1>2, <1>3 DEF EndedStay

\* A current task outside process_exit's loop has not ended, and its slot has
\* not been freed under it.
LEMMA CurrentNotEnded ==
  ASSUME TypeOK, EndedStay, active[current], cpu.at # "exit"
  PROVE  ~exited[current] /\ state[current] \notin {"ZOMBIE", "FREE"}
BY SMTT(20) DEF TypeOK, EndedStay, ZombieNeverRuns, Overwritten, Where

\* The tick never dispatches a zombie or a freed slot: the scan takes ready
\* tasks only, and the fallback resumes pid 1, which is neither.
LEMMA ZombieTick ==
  ASSUME TypeOK, EndedStay, scheduler_tick
  PROVE  EndedStay'
<1>0. 0 \in Slots
  BY Constants, SMTT(20) DEF Slots
<1>1. PICK n \in Slots : /\ Selected(n) /\ current' = n
                         /\ state' = [Preempted EXCEPT ![n] = "RUNNING"]
  BY ZenonT(30) DEF scheduler_tick
<1>2. UNCHANGED <<active, exited>>
  BY DEF scheduler_tick, endVars
<1>3. \A s \in Slots : /\ (Preempted[s] = "ZOMBIE") <=> (state[s] = "ZOMBIE")
                       /\ (Preempted[s] = "FREE") <=> (state[s] = "FREE")
  <2>1. \A s \in Slots : /\ (Woken[s] = "ZOMBIE") <=> (state[s] = "ZOMBIE")
                         /\ (Woken[s] = "FREE") <=> (state[s] = "FREE")
    BY DEF Woken, Expiring
  <2> QED
    BY <2>1, PreemptedType DEF Preempted, TypeOK
<1>4. active[n] => state[n] \notin {"ZOMBIE", "FREE"}
  <2>1. CASE Preempted[n] \in {"READY", "RUNNING"}
    BY <1>3, <2>1
  <2>2. CASE n = 0
    BY <1>0, <2>2 DEF EndedStay, InitNeverEnds
  <2> QED
    BY <1>1, <2>1, <2>2 DEF Selected
<1>5. \A s \in Slots : active[s] =>
        /\ (state'[s] = "ZOMBIE") <=> (state[s] = "ZOMBIE")
        /\ (state'[s] = "FREE") <=> (state[s] = "FREE")
        /\ s = n => state'[s] = "RUNNING"
  BY <1>1, <1>3, <1>4, PreemptedType
<1>6. \A s \in Slots : active[s] => ((Where(s)'.at = "exit") <=> (Where(s).at = "exit"))
  BY TickWhere, AfterHltKeeps DEF Where
<1>7. InitNeverEnds'
  BY <1>0, <1>2, <1>5, Zenon DEF EndedStay, InitNeverEnds
<1>8. ASSUME NEW s \in Slots, active[s]
      PROVE  /\ exited'[s] => Where(s)'.at = "exit"
             /\ Overwritten(s)' \/ (state'[s] = "ZOMBIE" <=> Where(s)'.at = "exit")
             /\ Overwritten(s)' => s # current'
  <2>1. /\ exited[s] => Where(s).at = "exit"
        /\ Overwritten(s) \/ (state[s] = "ZOMBIE" <=> Where(s).at = "exit")
    BY <1>8 DEF EndedStay, ZombieNeverRuns
  <2>2. Overwritten(s)' <=> Overwritten(s)
    BY <1>2, <1>5, <1>8, Zenon DEF Overwritten
  <2>3. Overwritten(s)' => s # n
    BY <1>5, <1>8 DEF Overwritten
  <2> QED
    BY <1>1, <1>2, <1>5, <1>6, <1>8, <2>1, <2>2, <2>3, Zenon
<1> QED
  BY <1>2, <1>7, <1>8, Zenon DEF EndedStay, ZombieNeverRuns

\* fork and clone start a task that has not ended, never in slot 0.
LEMMA ZombieSpawn ==
  ASSUME TypeOK, EndedStay, cpu.at = "user", NEW i \in Slots \ {0},
         NEW thread, NEW ctid, Spawn(i, thread, ctid)
  PROVE  EndedStay'
<1> USE DEF TypeOK, Spawn, ClearSlot
<1>1. \A s \in Slots : s # i => Where(s)' = Where(s)
  BY DEF Where
<1>2. Where(i)'.at = "user"
  BY PlaceAt DEF Where
<1>3. ZombieNeverRuns'
  BY <1>1, <1>2 DEF EndedStay, ZombieNeverRuns, Overwritten
<1>4. InitNeverEnds'
  BY DEF EndedStay, InitNeverEnds
<1> QED
  BY <1>3, <1>4 DEF EndedStay

\* exit: the exiting process becomes a zombie in its loop, its children are
\* gone, and the tasks it wakes were asleep.
LEMMA ZombieExit ==
  ASSUME TypeOK, InitInSlotZero, EndedStay, cpu.at = "user", NEW code, ExitWith(code)
  PROVE  EndedStay'
<1>0. UNCHANGED <<saved_frame, current>> /\ 0 \in Slots
  BY Constants DEF ExitWith, Slots
<1>1. \A s \in Slots : s # current => Where(s)' = Where(s)
  BY <1>0 DEF Where
<1>2. \A s \in ClearTidWakes : state[s] = "SLEEPING"
  BY SMTT(20) DEF ClearTidWakes, ToWake, Waiters
<1>3. CASE ExitInit
  <2>1. \A s \in Slots : /\ (state'[s] = "ZOMBIE") <=> (state[s] = "ZOMBIE")
                         /\ (state'[s] = "FREE") <=> (state[s] = "FREE")
    BY <1>2, <1>3 DEF ExitInit
  <2>2. UNCHANGED <<active, exited, cpu>>
    BY <1>3 DEF ExitInit, endVars
  <2> QED
    BY <1>0, <2>1, <2>2, ZombieSame DEF Where
<1>4. CASE ExitThread(code)
  <2>1. ~active'[current] /\ UNCHANGED exited
    BY <1>4 DEF ExitThread, TypeOK
  <2>2. \A s \in Slots : s # current =>
          /\ active'[s] = active[s]
          /\ (state'[s] = "ZOMBIE") <=> (state[s] = "ZOMBIE")
          /\ (state'[s] = "FREE") <=> (state[s] = "FREE")
    BY <1>2, <1>4 DEF ExitThread, TypeOK
  <2> QED
    BY <1>0, <1>1, <2>1, <2>2, ZombieSame
<1>5. CASE ExitProcess(code)
  <2>1. \A s \in Slots : s = current =>
          exited'[s] /\ state'[s] = "ZOMBIE" /\ Where(s)'.at = "exit"
    <3>1. exited'[current] /\ state'[current] = "ZOMBIE"
      BY <1>5, Zenon DEF ExitProcess, TypeOK
    <3>2. cpu' = Place("exit", 0, 0, 0)
      BY <1>5, Zenon DEF ExitProcess
    <3>3. \A s \in Slots : s = current => Where(s)' = cpu'
      BY <1>0 DEF Where
    <3>4. cpu'.at = "exit"
      BY <3>2, PlaceAt
    <3> QED
      BY <3>1, <3>3, <3>4
  <2>2. \A s \in Slots : s # current /\ active'[s] =>
          /\ active[s]
          /\ (exited'[s] <=> exited[s])
          /\ (state'[s] = "ZOMBIE") <=> (state[s] = "ZOMBIE")
          /\ (state'[s] = "FREE") <=> (state[s] = "FREE")
    BY <1>2, <1>5, Zenon DEF ExitProcess
  <2>3. current # 0
    BY <1>5 DEF ExitProcess, InitInSlotZero
  <2>4. InitNeverEnds'
    BY <1>0, <2>2, <2>3, Zenon DEF EndedStay, InitNeverEnds
  <2>5. ZombieNeverRuns'
    BY <1>0, <1>1, <2>1, <2>2 DEF EndedStay, ZombieNeverRuns, Overwritten
  <2> QED
    BY <2>4, <2>5 DEF EndedStay
<1> QED
  BY <1>3, <1>4, <1>5 DEF ExitWith

\* wait4: what its steps free is neither pid 1's slot nor its own.
LEMMA ZombieWait ==
  ASSUME TypeOK, EndedStay, ReleasesOthers,
         \/ process_wait4 \/ wait4_scan \/ wait4_take \/ wait4_return
         \/ wait4_clear \/ wait4_clear_exited \/ wait4_clear_state
  PROVE  EndedStay'
<1>1. /\ cpu.at # "exit" /\ cpu'.at # "exit"
      /\ UNCHANGED <<saved_frame, current>>
  <2>1. CASE process_wait4
    BY <2>1, FirstScan, PlaceAt
  <2> QED
    BY <2>1, WaitPlaces
<1>2. \A s \in Slots : (Where(s)'.at = "exit") <=> (Where(s).at = "exit")
  BY <1>1 DEF Where
<1>3. CASE wait4_clear_state
  <2>1. cpu.idx \in Slots /\ cpu.idx \notin {0, current}
    BY <1>3, PlaceFields DEF wait4_clear_state, TypeOK, ReleasesOthers, Releasing
  <2>2. state' = [state EXCEPT ![cpu.idx] = "FREE"] /\ UNCHANGED <<active, exited>>
    BY <1>3 DEF wait4_clear_state, endVars
  <2>3. InitNeverEnds'
    BY <2>1, <2>2 DEF EndedStay, InitNeverEnds, TypeOK
  <2>4. ZombieNeverRuns'
    BY <1>1, <1>2, <2>1, <2>2 DEF EndedStay, ZombieNeverRuns, Overwritten, TypeOK
  <2> QED
    BY <2>3, <2>4 DEF EndedStay
<1>4. CASE ~wait4_clear_state
  <2>1. \A s \in Slots : active'[s] =>
          /\ active[s] /\ (exited'[s] => exited[s])
          /\ state'[s] = state[s]
    <3>1. CASE process_wait4
      <4>1. CASE UNCHANGED <<active, exited, state>>
        BY <4>1
      <4> QED
        BY <3>1, <4>1, FirstScan, ReleaseFrees
    <3>2. CASE wait4_scan \/ wait4_take \/ wait4_return
      <4>1. UNCHANGED <<active, exited, state>>
        BY <3>2, Zenon DEF wait4_scan, wait4_take, wait4_return, endVars
      <4> QED
        BY <4>1
    <3>3. CASE wait4_clear
      BY <3>3 DEF wait4_clear, TypeOK, endVars
    <3>4. CASE wait4_clear_exited
      BY <3>4 DEF wait4_clear_exited, TypeOK
    <3> QED
      BY <1>4, <3>1, <3>2, <3>3, <3>4
  <2> QED
    BY <1>1, <1>2, <2>1, ZombieSame
<1> QED
  BY <1>3, <1>4

\* Every step.
LEMMA ZombieNext ==
  ASSUME TypeOK, InitInSlotZero, EndedStay, ReleasesOthers, [Next]_vars
  PROVE  EndedStay'
<1>1. CASE scheduler_tick
  BY <1>1, ZombieTick
<1>2. CASE process_fork \/ process_clone
  BY <1>2, ZombieSpawn, Zenon DEF process_fork, process_clone, UserDoes, FirstFree
<1>3. CASE process_exit
  BY <1>3, ZombieExit DEF process_exit, UserDoes
<1>4. CASE exception_handler
  <2>1. CASE \E code : ExitWith(code)
    BY <1>4, <2>1, ZombieExit DEF exception_handler, UserDoes
  <2>2. CASE UNCHANGED <<active, state, endVars, idVars, blockVars, saved_frame,
                         current, cpu>>
    BY <2>2, ZombieSame DEF endVars, Where
  <2> QED
    BY <1>4, <2>1, <2>2 DEF exception_handler
<1>5. CASE process_kill
  <2>1. UNCHANGED <<saved_frame, current, cpu>>
    BY <1>5 DEF process_kill
  <2>2. \A s \in Slots : active'[s] =>
          /\ active[s]
          /\ (exited'[s] <=> exited[s])
          /\ (state'[s] = "ZOMBIE") <=> (state[s] = "ZOMBIE")
          /\ (state'[s] = "FREE") <=> (state[s] = "FREE")
    <3>1. PICK i \in Slots :
            /\ active' = [active EXCEPT ![i] = FALSE]
            /\ exited' = [exited EXCEPT ![i] = TRUE]
            /\ state' = [s \in Slots |-> IF s = i THEN "ZOMBIE"
                          ELSE IF active[s] /\ s # i /\ pid[s] = ppid[i] /\ state[s] = "SLEEPING"
                          THEN "READY" ELSE state[s]]
      BY <1>5, Zenon DEF process_kill
    <3> QED
      BY <3>1 DEF TypeOK
  <2> QED
    BY <2>1, <2>2, ZombieSame DEF Where
<1>6. CASE \/ process_wait4 \/ wait4_scan \/ wait4_take \/ wait4_return
           \/ wait4_clear \/ wait4_clear_exited \/ wait4_clear_state
  BY <1>6, ZombieWait
<1>7. CASE \/ process_execve \/ futex_wait \/ futex_wake \/ sys_nanosleep
           \/ sys_set_tid_address \/ schedule_yield
           \/ futex_wait_return \/ sys_nanosleep_return
  <2>1. /\ cpu.at # "exit" /\ cpu'.at # "exit"
        /\ UNCHANGED <<active, exited, current>>
    <3>1. CASE process_execve \/ futex_wake \/ sys_set_tid_address
      <4>1. cpu.at = "user" /\ UNCHANGED <<active, endVars, current, cpu>>
        BY <3>1, Zenon DEF process_execve, futex_wake, sys_set_tid_address, UserDoes
      <4> QED
        BY <4>1 DEF endVars
    <3> QED
      BY <1>7, <3>1, BlockPlaces
  <2>2. \A s \in Slots : s # current => saved_frame'[s] = saved_frame[s]
    <3>1. CASE process_execve
      BY <3>1 DEF process_execve, TypeOK
    <3>2. CASE futex_wake \/ sys_set_tid_address
      BY <3>2 DEF futex_wake, sys_set_tid_address
    <3> QED
      BY <1>7, <3>1, <3>2, BlockPlaces
  <2>3. \A s \in Slots : s # current =>
          /\ (state'[s] = "ZOMBIE") <=> (state[s] = "ZOMBIE")
          /\ (state'[s] = "FREE") <=> (state[s] = "FREE")
    <3>1. CASE futex_wake
      BY <3>1, WakesSleepers
    <3>2. CASE process_execve \/ sys_set_tid_address \/ schedule_yield
      BY <3>2 DEF process_execve, sys_set_tid_address, schedule_yield, TypeOK
    <3>3. CASE futex_wait \/ sys_nanosleep
      BY <3>3 DEF futex_wait, sys_nanosleep, TypeOK
    <3>4. CASE futex_wait_return \/ sys_nanosleep_return
      BY <3>4 DEF futex_wait_return, sys_nanosleep_return, TypeOK
    <3> QED
      BY <1>7, <3>1, <3>2, <3>3, <3>4
  <2>4. active[current] => state[current] \notin {"ZOMBIE", "FREE"}
    <3>1. cpu.at # "exit"
      BY <2>1
    <3> QED
      BY <3>1, CurrentNotEnded
  <2>5. active[current] => state'[current] \notin {"ZOMBIE", "FREE"}
    <3>1. current \in Slots /\ state \in [Slots -> States]
      BY DEF TypeOK
    <3>2. CASE futex_wake
      BY <2>4, <3>1, <3>2, WakesSleepers
    <3>3. CASE futex_wait \/ sys_nanosleep \/ process_execve
      BY <3>1, <3>3 DEF futex_wait, sys_nanosleep, process_execve
    <3>4. CASE \/ sys_set_tid_address \/ schedule_yield
               \/ futex_wait_return \/ sys_nanosleep_return
      <4>1. UNCHANGED state
        BY <3>4, Zenon DEF sys_set_tid_address, schedule_yield, futex_wait_return,
          sys_nanosleep_return
      <4> QED
        BY <2>4, <4>1
    <3> QED
      BY <1>7, <3>2, <3>3, <3>4
  <2> QED
    BY <2>1, <2>2, <2>3, <2>4, <2>5, ZombieSame DEF Where
<1>8. CASE power_off \/ UNCHANGED vars
  BY <1>8, ZombieSame, Zenon DEF power_off, vars, endVars, Where
<1> QED
  BY <1>1, <1>2, <1>3, <1>4, <1>5, <1>6, <1>7, <1>8 DEF Next, UserCall, KernelStep

\* Steps that choose no slot to free and do not switch.
LEMMA ClaimSame ==
  ASSUME ReleasesOthers, UNCHANGED current,
         cpu' = cpu \/ cpu'.at \notin Claiming,
         \A s \in Slots : saved_frame'[s] = saved_frame[s] \/ saved_frame'[s].at \notin Claiming
  PROVE  ReleasesOthers'
BY Zenon DEF ReleasesOthers, Claiming

\* The tick saves and resumes a release where it was.
LEMMA ClaimTick ==
  ASSUME TypeOK, ReleasesOthers, scheduler_tick
  PROVE  ReleasesOthers'
<1>1. PICK n \in Slots : current' = n /\ cpu' = saved_frame'[n]
  BY Zenon DEF scheduler_tick
<1>2. AfterHlt(cpu) = cpu \/ AfterHlt(cpu).at \notin Claiming
  BY AfterHltKeeps DEF Claiming, Releasing
<1>3. \A s \in Slots : \/ saved_frame'[s] = saved_frame[s]
                       \/ s = current /\ saved_frame'[s] = AfterHlt(cpu)
  BY DEF scheduler_tick, TypeOK
<1>4. \A s \in Slots : saved_frame'[s].at \in Claiming => saved_frame'[s].idx \notin {0, s}
  BY <1>2, <1>3, Zenon DEF ReleasesOthers, Claiming
<1> QED
  BY <1>1, <1>4, Zenon DEF ReleasesOthers, Claiming

\* Every step: only an ended task is chosen, so neither pid 1 nor the task
\* that scans.
LEMMA ClaimNext ==
  ASSUME TypeOK, EndedStay, ReleasesOthers, [Next]_vars
  PROVE  ReleasesOthers'
<1>0. \A a \in {"user", "yield", "futex", "sleep", "exit", "wait", "waited", "scan"} :
        a \notin Claiming
  BY DEF Claiming, Releasing
<1>1. CASE scheduler_tick
  BY <1>1, ClaimTick
<1>2. CASE process_fork \/ process_clone \/ process_execve
  <2>1. UNCHANGED <<current, cpu>>
    BY <1>2 DEF process_fork, process_clone, process_execve, Spawn
  <2>2. \E i \in Slots : saved_frame' = [saved_frame EXCEPT ![i] = User]
    BY <1>2, Zenon DEF process_fork, process_clone, process_execve, Spawn, TypeOK
  <2>3. User.at \notin Claiming
    BY <1>0, PlaceAt
  <2> QED
    BY <2>1, <2>2, <2>3, ClaimSame DEF TypeOK
<1>3. CASE process_exit \/ exception_handler
  <2>1. UNCHANGED <<current, saved_frame>>
    BY <1>3 DEF process_exit, exception_handler, ExitWith
  <2>2. cpu' = cpu \/ cpu' = Place("exit", 0, 0, 0)
    BY <1>3, Zenon
    DEF process_exit, exception_handler, ExitWith, ExitInit, ExitThread, ExitProcess
  <2>3. Place("exit", 0, 0, 0).at \notin Claiming
    BY <1>0, PlaceAt
  <2>4. CASE cpu' = cpu
    BY <2>1, <2>4, ClaimSame
  <2>5. CASE cpu' = Place("exit", 0, 0, 0)
    BY <2>1, <2>3, <2>5, ClaimSame
  <2> QED
    BY <2>2, <2>4, <2>5
<1>4. CASE wait4_scan
  <2>1. UNCHANGED <<current, saved_frame>> /\ cpu.at = "scan"
    BY <1>4 DEF wait4_scan
  <2>2. \/ cpu'.at \in {"scan", "wait", "waited"}
        \/ /\ cpu.idx \in Slots /\ Matches(cpu.idx, cpu.arg) /\ Ended(cpu.idx)
           /\ cpu' = Place("take", cpu.arg, cpu.idx, cpu.val)
    BY <1>4, PlaceAt DEF wait4_scan
  <2>3. cpu.idx \in Slots /\ Matches(cpu.idx, cpu.arg) /\ Ended(cpu.idx)
          => cpu.idx \notin {0, current}
    BY <2>1, CurrentNotEnded DEF EndedStay, InitNeverEnds, Matches, Ended
  <2>4. Place("take", cpu.arg, cpu.idx, cpu.val).idx = cpu.idx
    BY DEF Place
  <2> QED
    BY <1>0, <2>1, <2>2, <2>3, <2>4, ClaimSame DEF ReleasesOthers, Claiming
<1>5. CASE wait4_take \/ wait4_clear \/ wait4_clear_exited
  <2>1. UNCHANGED <<current, saved_frame>> /\ cpu.at \in Claiming
    BY <1>5, Zenon DEF wait4_take, wait4_clear, wait4_clear_exited, Claiming, Releasing
  <2>2. \E a, x, v : cpu' = Place(a, x, cpu.idx, v)
    BY <1>5, Zenon DEF wait4_take, wait4_clear, wait4_clear_exited, Then
  <2>3. cpu'.idx = cpu.idx
    BY <2>2 DEF Place
  <2> QED
    BY <2>1, <2>3 DEF ReleasesOthers, Claiming
<1>6. CASE process_wait4 \/ wait4_clear_state \/ wait4_return
  <2>1. UNCHANGED <<current, saved_frame>>
    BY <1>6, FirstScan DEF wait4_clear_state, wait4_return
  <2>2. cpu'.at \in {"wait", "waited", "user"}
    BY <1>6, FirstScan, PlaceAt DEF wait4_clear_state, wait4_return
  <2> QED
    BY <1>0, <2>1, <2>2, ClaimSame
<1>7. CASE futex_wait \/ sys_nanosleep \/ schedule_yield
           \/ futex_wait_return \/ sys_nanosleep_return
  <2>1. cpu'.at \in {"futex", "sleep", "yield", "user"} /\ UNCHANGED <<current, saved_frame>>
    BY <1>7, BlockPlaces
  <2> QED
    BY <1>0, <2>1, ClaimSame
<1>8. CASE sys_set_tid_address \/ futex_wake \/ process_kill \/ power_off \/ UNCHANGED vars
  BY <1>8, ClaimSame DEF sys_set_tid_address, futex_wake, process_kill, power_off, vars
<1> QED
  BY <1>1, <1>2, <1>3, <1>4, <1>5, <1>6, <1>7, <1>8 DEF Next, UserCall, KernelStep

\* A task that exited is a zombie in process_exit's loop until it is reaped
\* and is never dispatched to do anything else; pid 1 never ends while it is
\* in the table; and no release is of pid 1's slot or of the releaser's own.
\* The only active tasks of which this is not said are those whose slot a
\* release marked FREE after they got it, and these never run.
THEOREM ZombiesCorrect == Spec => []ZombieNeverRuns /\ []InitNeverEnds /\ []ReleasesOthers
<1>1. Init => ZombieNeverRuns /\ InitNeverEnds
  <2>1. ASSUME Init, NEW s \in Slots, active[s]
        PROVE  /\ ~exited[s] /\ Where(s).at # "exit"
               /\ state[s] \notin {"ZOMBIE", "FREE"}
    <3>1. ~exited[s]
      BY <2>1, Zenon DEF Init
    <3>2. state[s] \notin {"ZOMBIE", "FREE"}
      BY <2>1 DEF Init
    <3>3. Where(s) = User
      BY <2>1 DEF Init, Where
    <3> QED
      BY <3>1, <3>2, <3>3, PlaceAt, SMTT(20)
  <2>2. 0 \in Slots
    BY Constants DEF Slots
  <2> QED
    BY <2>1, <2>2 DEF ZombieNeverRuns, InitNeverEnds, Overwritten
<1>2. Init => ReleasesOthers
  <2>1. "user" \notin {"take"} \cup Releasing
    BY DEF Releasing
  <2> QED
    BY <2>1, PlaceAt DEF Init, ReleasesOthers
<1>3. EndedStay <=> ZombieNeverRuns /\ InitNeverEnds
  BY Zenon DEF EndedStay
<1>4. TypeOK /\ InitInSlotZero /\ EndedStay /\ ReleasesOthers /\ [Next]_vars
        => EndedStay' /\ ReleasesOthers'
  BY ZombieNext, ClaimNext
<1> QED
  BY <1>1, <1>2, <1>3, <1>4, TypeCorrect, PidsCorrect, PTL DEF Spec

-----------------------------------------------------------------------------
(* The invariants that the runs check, from the theorems above.             *)

\* The process table is consistent under every system call and every tick.
THEOREM TableCorrect == Spec => []TableSound
<1>1. TypeOK /\ PidsUnique /\ InitInSlotZero /\ InitNeverEnds /\ OneRunning
        /\ ZombieNeverRuns /\ ReleasesOthers => TableSound
  BY DEF TableSound
<1> QED
  BY <1>1, TypeCorrect, PidsCorrect, OneRunningCorrect, ZombiesCorrect, PTL

\* Every sleeper has a waker, and wait fields belong to the call that set them.
THEOREM WaitsCorrect == Spec => []WaitsSound
<1>1. SleeperHasWaker /\ BlockedWhereItWaits => WaitsSound
  BY DEF WaitsSound
<1> QED
  BY <1>1, BlockedCorrect, PTL

=============================================================================
