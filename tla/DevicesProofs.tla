--------------------------- MODULE DevicesProofs ---------------------------
(***************************************************************************)
(* Every unit's command is answered once and on its own semaphore, for any *)
(* set of units in use: the theorems about Devices.                        *)
(***************************************************************************)
EXTENDS Devices, QueueLemmas

Typed ==
    /\ used \subseteq Unit
    /\ status \in [Unit -> {"READY", "BUSY", "DONE"}]
    /\ semaphoreDevices \in [SEM -> Int]
    /\ proc \in [used -> {"idle", "started", "waiting", "killed"}]
    /\ v0 \in [used -> {"none", "READY", "BUSY", "DONE"}]
    /\ unclaimed \subseteq used

Outstanding(u) == IF status[u] = "READY" THEN 0 ELSE 1
Expecting(u)   == IF proc[u] = "started" THEN 1 ELSE 0

\* Only a unit in use is ever given a command.
IdleUnits == \A u \in Unit \ used : status[u] = "READY"

\* A process is blocked on the semaphore of its own unit.
BlockedSound ==
    blocked = {<<u, semaphore_index(u)>> : u \in {w \in used : proc[w] = "waiting"}}

\* How the value of a unit's semaphore goes with its operation and its process.
\* A killed process can leave it at -1, but only while its operation goes on; it
\* is what is expected and not outstanding, unless answers can be lost or left.
Balance(sem, outstanding, expecting, p, inexact) ==
    /\ sem >= -1 /\ sem >= expecting - outstanding
    /\ p = "waiting" => sem = -1
    /\ p = "idle" => sem >= 0
    /\ sem + outstanding <= MaxSem + 1 + expecting
    /\ inexact \/ sem = expecting - outstanding

Inexact(u) == Disturbed(u) \/ u \in unclaimed

Balanced ==
    \A u \in used : Balance(semaphoreDevices[semaphore_index(u)], Outstanding(u), Expecting(u),
                            proc[u], Inexact(u))

Inv == Typed /\ IdleUnits /\ BlockedSound /\ Balanced /\ CommandAnsweredOnce /\ WokenByOwnHalf

-----------------------------------------------------------------------------

\* A unit is a line, a device and a half; only line 7 has halves.
LEMMA UnitParts ==
    ASSUME NEW u \in Unit
    PROVE  /\ u = <<u[1], u[2], u[3]>>
           /\ u[1] \in Line /\ u[1] \in 3 .. 7
           /\ u[2] \in Device /\ u[2] \in 0 .. 7
           /\ u[1] = 7 => u[3] \in {"recv", "tran"}
           /\ u[1] # 7 => u[3] = "device"
<1>1. u \in Line \X Device \X {"device", "recv", "tran"} /\ (u[1] = 7 <=> u[3] # "device")
  BY DEF Unit, LINE7
<1>2. u = <<u[1], u[2], u[3]>> /\ u[1] \in Line /\ u[2] \in Device
  BY <1>1
<1>3. u[3] \in {"device", "recv", "tran"}
  BY <1>1
<1> QED
  BY <1>1, <1>2, <1>3, DevicesAssumption

\* SYS5 computes another index for every unit, and never the clock's.
LEMMA IndexInjective ==
    /\ \A u \in Unit : semaphore_index(u) \in SEM /\ semaphore_index(u) # CLOCK_INDEX
    /\ \A u, v \in Unit : semaphore_index(u) = semaphore_index(v) => u = v
<1>1. ASSUME NEW u \in Unit
      PROVE  semaphore_index(u) \in SEM /\ semaphore_index(u) # CLOCK_INDEX
  BY UnitParts DEF semaphore_index, SEM, CLOCK_INDEX, BASE_LINE, DEVPERINT, LINE7
<1>2. ASSUME NEW u \in Unit, NEW v \in Unit, semaphore_index(u) = semaphore_index(v)
      PROVE  u = v
  <2>1. u[1] = v[1] /\ u[2] = v[2] /\ u[3] = v[3]
    BY <1>2, UnitParts DEF semaphore_index, BASE_LINE, DEVPERINT, LINE7
  <2> QED
    BY <2>1, UnitParts
<1> QED
  BY <1>1, <1>2

\* The unit whose interrupt the handler takes the pending one for.
ServedUnit ==
    LET line       == interrupt_line_number
        device_num == findInterruptDevice(line)
    IN <<line, device_num, IF line = LINE7 THEN half(device_num) ELSE "device">>

\* It is in use, and unless it is a transmitter whose terminal is also read from
\* it has completed.
LEMMA Served ==
    ASSUME Typed, IdleUnits, Pending # {}
    PROVE  /\ ServedUnit \in used
           /\ status[ServedUnit] \in {"BUSY", "DONE"}
           /\ status[ServedUnit] = "DONE" \/ Disturbed(ServedUnit)
<1> DEFINE line == interrupt_line_number
           num  == findInterruptDevice(line)
           here == {v \in Pending : v[1] = line}
<1>1. Pending \subseteq Unit /\ \A v \in Pending : status[v] = "DONE" /\ v[1] \in Nat /\ v[2] \in Nat
  BY UnitParts DEF Pending
<1>2. line \in {u[1] : u \in Pending}
  <2>1. {u[1] : u \in Pending} \in SUBSET Nat /\ {u[1] : u \in Pending} # {}
    BY <1>1
  <2> QED
    BY <2>1, Smallest DEF interrupt_line_number
<1>3. num \in {u[2] : u \in here}
  <2> DEFINE nums == {u[2] : u \in here}
  <2>1. nums \in SUBSET Nat /\ nums # {}
    BY <1>1, <1>2
  <2>2. num = Min(nums)
    BY DEF findInterruptDevice
  <2> HIDE DEF nums, num, here
  <2>3. num \in nums
    BY <2>1, <2>2, Smallest
  <2> QED
    BY <2>3 DEF nums
<1> HIDE DEF line, num
<1>4. PICK w \in Pending : w[1] = line /\ w[2] = num
  BY <1>3
<1>5. ServedUnit = <<line, num, IF line = 7 THEN half(num) ELSE "device">>
  BY DEF ServedUnit, LINE7, line, num
<1>6. line \in 3 .. 7 /\ num \in Nat
  BY <1>1, <1>4, UnitParts
<1>7. CASE line # 7
  <2>1. ServedUnit = w
    BY <1>1, <1>4, <1>5, <1>7, UnitParts
  <2> QED
    BY <1>1, <1>4, <2>1 DEF IdleUnits
<1>8. CASE line = 7
  <2>1. w = <<7, num, "recv">> \/ w = <<7, num, "tran">>
    BY <1>1, <1>4, <1>8, UnitParts
  <2>2. <<7, num, "recv">> \in Unit /\ <<7, num, "tran">> \in Unit
    BY <1>1, <1>4, <1>8, UnitParts DEF Unit, LINE7
  <2>3. CASE status[<<7, num, "tran">>] # "READY"
    <3>1. ServedUnit = <<7, num, "tran">>
      BY <1>5, <1>8, <2>3 DEF half, LINE7
    <3>2. ServedUnit \in used
      BY <2>2, <2>3, <3>1 DEF IdleUnits
    <3>3. CASE status[<<7, num, "tran">>] = "DONE"
      BY <3>1, <3>2, <3>3
    <3>4. CASE status[<<7, num, "tran">>] # "DONE"
      <4>1. w = <<7, num, "recv">>
        BY <1>1, <2>1, <3>4
      <4>2. <<7, num, "recv">> \in used
        BY <1>1, <4>1 DEF IdleUnits
      <4>3. Disturbed(ServedUnit)
        BY <3>1, <4>2 DEF Disturbed
      <4>4. status[ServedUnit] \in {"BUSY", "DONE"}
        BY <2>2, <2>3, <3>1 DEF Typed
      <4> QED
        BY <3>2, <4>3, <4>4
    <3> QED
      BY <3>3, <3>4
  <2>4. CASE status[<<7, num, "tran">>] = "READY"
    <3>1. ServedUnit = <<7, num, "recv">>
      BY <1>5, <1>8, <2>4 DEF half, LINE7
    <3>2. w = ServedUnit
      BY <1>1, <2>1, <2>4, <3>1
    <3> QED
      BY <1>1, <3>2 DEF IdleUnits
  <2> QED
    BY <2>3, <2>4
<1> QED
  BY <1>7, <1>8

\* The handler and SYS5 agree on the index of the unit.
LEMMA HandlerServes ==
    ASSUME Typed, IdleUnits, nonTimerInterruptHandler
    PROVE  /\ Pending # {}
           /\ \/ status[ServedUnit] = "DONE"
              \/ semaphoreDevices[semaphore_index(ServedUnit)] < MaxSem
           /\ acknowledge(ServedUnit)
           /\ unblock(semaphore_index(ServedUnit), status[ServedUnit])
           /\ UNCHANGED <<used, unclaimed>>
<1>1. Pending # {}
  BY DEF nonTimerInterruptHandler
<1>2. ServedUnit \in Unit
  BY <1>1, Served DEF Typed
<1>3. semaphore_index(ServedUnit) =
        (ServedUnit[1] - BASE_LINE) * DEVPERINT + ServedUnit[2]
            + (IF ServedUnit[3] = "tran" THEN DEVPERINT ELSE 0)
  BY <1>2, UnitParts DEF semaphore_index, LINE7, BASE_LINE, DEVPERINT
<1>4. semaphore_index(ServedUnit) =
        IF ServedUnit[3] = "tran"
        THEN (ServedUnit[1] - BASE_LINE) * DEVPERINT + ServedUnit[2] + DEVPERINT
        ELSE (ServedUnit[1] - BASE_LINE) * DEVPERINT + ServedUnit[2]
  BY <1>2, <1>3, UnitParts DEF LINE7, BASE_LINE, DEVPERINT
<1>5. /\ ServedUnit[1] = interrupt_line_number
      /\ ServedUnit[2] = findInterruptDevice(interrupt_line_number)
  BY DEF ServedUnit
<1> QED
  BY <1>1, <1>4, <1>5 DEF nonTimerInterruptHandler, ServedUnit

-----------------------------------------------------------------------------

\* What the parts of the invariant say of one unit in use.
LEMMA OneUnit ==
    ASSUME Inv, NEW u \in used
    PROVE  /\ u \in Unit /\ semaphore_index(u) \in SEM
           /\ semaphoreDevices[semaphore_index(u)] \in Int
           /\ Balance(semaphoreDevices[semaphore_index(u)], Outstanding(u), Expecting(u),
                      proc[u], Inexact(u))
           /\ Disturbed(u) \/ v0[u] \in {"none", "DONE"}
           /\ status[u] \in {"READY", "BUSY", "DONE"}
           /\ proc[u] \in {"idle", "started", "waiting", "killed"}
<1>1. u \in Unit
  BY DEF Inv, Typed
<1>2. semaphore_index(u) \in SEM
  BY <1>1, IndexInjective
<1> QED
  BY <1>1, <1>2 DEF Inv, Typed, Balanced, WokenByOwnHalf, Answered

\* The invariant, put together again from what it says of every unit.
LEMMA AllUnits ==
    ASSUME Inv, Typed', IdleUnits', UNCHANGED used,
           blocked' = {<<u, semaphore_index(u)>> : u \in {w \in used : proc'[w] = "waiting"}},
           \A i \in SEM : i \notin {semaphore_index(u) : u \in used}
                            => semaphoreDevices'[i] = semaphoreDevices[i],
           \A u \in used :
             /\ Balance(semaphoreDevices'[semaphore_index(u)], Outstanding(u)', Expecting(u)',
                        proc'[u], Disturbed(u) \/ u \in unclaimed')
             /\ Disturbed(u) \/ v0'[u] \in {"none", "DONE"}
    PROVE  Inv'
<1>1. BlockedSound'
  BY DEF BlockedSound, semaphore_index
<1>2. \A u \in used : Disturbed(u)' <=> Disturbed(u)
  BY DEF Disturbed
<1>3. Balanced'
  BY <1>2 DEF Balanced, Balance, Inexact, semaphore_index
<1>4. CommandAnsweredOnce'
  <2>1. \A i \in SEM : i \notin {semaphore_index(u) : u \in used'} => semaphoreDevices'[i] = 0
    BY DEF Inv, CommandAnsweredOnce
  <2>2. \A u \in used' \ unclaimed' : Disturbed(u)' \/
          semaphoreDevices'[semaphore_index(u)] = Expecting(u)' - Outstanding(u)'
    BY <1>2 DEF Balance
  <2> QED
    BY <2>1, <2>2 DEF CommandAnsweredOnce, Expecting, Outstanding, semaphore_index
<1>5. WokenByOwnHalf'
  BY <1>2 DEF WokenByOwnHalf, Answered
<1> QED
  BY <1>1, <1>3, <1>4, <1>5 DEF Inv

\* A command to a device.
LEMMA CommandStep ==
    ASSUME Inv, NEW u \in used, Command(u)
    PROVE  Inv'
<1> USE DEF Command, Outstanding, Expecting
<1>1. Typed' /\ IdleUnits'
  BY DEF Inv, Typed, IdleUnits
<1>2. \A v \in used : (proc'[v] = "waiting") <=> (proc[v] = "waiting")
  BY DEF Inv, Typed
<1>3. blocked' = {<<v, semaphore_index(v)>> : v \in {w \in used : proc'[w] = "waiting"}}
  BY <1>2 DEF Inv, BlockedSound
<1>4. status[u] # "DONE" /\ u \in Unit
  BY DEF Executing, Pending, Inv, Typed
<1>5. ASSUME NEW v \in used
      PROVE  /\ Balance(semaphoreDevices'[semaphore_index(v)], Outstanding(v)', Expecting(v)',
                        proc'[v], Disturbed(v) \/ v \in unclaimed')
             /\ Disturbed(v) \/ v0'[v] \in {"none", "DONE"}
  <2>1. CASE v = u
    <3>1. proc'[u] = "started" /\ v0'[u] = "none" /\ status'[u] = "BUSY"
      BY <1>4, OneUnit DEF Inv, Typed
    <3>2. proc[u] = "idle" \/ (proc[u] = "killed" /\ status[u] = "READY")
      OBVIOUS
    <3> QED
      BY <2>1, <3>1, <3>2, OneUnit, DevicesAssumption DEF Balance, Inexact
  <2>2. CASE v # u
    <3>1. proc'[v] = proc[v] /\ v0'[v] = v0[v] /\ status'[v] = status[v]
      BY <1>4, <2>2 DEF Inv, Typed
    <3> QED
      BY <3>1, OneUnit DEF Balance, Inexact
  <2> QED
    BY <2>1, <2>2
<1> QED
  BY <1>1, <1>3, <1>5, AllUnits

\* A device finishes its operation.
LEMMA CompletesStep ==
    ASSUME Inv, NEW u \in used, Completes(u)
    PROVE  Inv'
<1> USE DEF Completes, Outstanding, Expecting
<1>1. Typed' /\ IdleUnits'
  BY DEF Inv, Typed, IdleUnits
<1>2. blocked' = {<<v, semaphore_index(v)>> : v \in {w \in used : proc'[w] = "waiting"}}
  BY DEF Inv, BlockedSound
<1>3. \A v \in used : Outstanding(v)' = Outstanding(v) /\ Expecting(v)' = Expecting(v)
  BY DEF Inv, Typed
<1>4. ASSUME NEW v \in used
      PROVE  /\ Balance(semaphoreDevices'[semaphore_index(v)], Outstanding(v)', Expecting(v)',
                        proc'[v], Disturbed(v) \/ v \in unclaimed')
             /\ Disturbed(v) \/ v0'[v] \in {"none", "DONE"}
  <2> HIDE DEF Outstanding, Expecting
  <2> QED
    BY <1>3, OneUnit DEF Inexact
<1> HIDE DEF Outstanding, Expecting
<1> QED
  BY <1>1, <1>2, <1>4, AllUnits

\* SYS5 lowers the semaphore of the caller's unit; it blocks exactly when the
\* interrupt has not been taken yet.
LEMMA WaitStep ==
    ASSUME Inv, NEW u \in used, waitForIO(u)
    PROVE  Inv'
<1> DEFINE i == semaphore_index(u)
           sem == semaphoreDevices[i]
<1>1. u \in Unit /\ i \in SEM /\ sem \in Int
  BY OneUnit
<1>2. /\ UNCHANGED <<used, status, v0, unclaimed>> /\ proc[u] = "started"
      /\ semaphoreDevices' = [semaphoreDevices EXCEPT ![i] = sem - 1]
      /\ \/ /\ semaphoreDevices'[i] < 0
            /\ proc' = [proc EXCEPT ![u] = "waiting"] /\ blocked' = blocked \cup {<<u, i>>}
         \/ /\ semaphoreDevices'[i] >= 0
            /\ proc' = [proc EXCEPT ![u] = "idle"] /\ UNCHANGED blocked
  BY DEF waitForIO
<1>3. \A v \in used : v # u => semaphore_index(v) # i
  BY <1>1, OneUnit, IndexInjective
<1>4. /\ semaphoreDevices'[i] = sem - 1
      /\ \A j \in SEM : j # i => semaphoreDevices'[j] = semaphoreDevices[j]
      /\ \A v \in used : v # u => semaphoreDevices'[semaphore_index(v)]
                                    = semaphoreDevices[semaphore_index(v)]
  BY <1>1, <1>2, <1>3, OneUnit DEF Inv, Typed
<1>5. /\ sem \in Int /\ sem >= 0 /\ status[u] \in {"READY", "BUSY", "DONE"}
      /\ sem + Outstanding(u) <= MaxSem + 2
      /\ sem >= 1 - Outstanding(u)
      /\ Inexact(u) \/ sem = 1 - Outstanding(u)
      /\ Disturbed(u) \/ v0[u] \in {"none", "DONE"}
  <2>1. Expecting(u) = 1 /\ Outstanding(u) \in {0, 1}
    BY <1>2 DEF Expecting, Outstanding
  <2> QED
    BY <1>1, <2>1, OneUnit, DevicesAssumption DEF Balance
<1> HIDE DEF i, sem
<1>6. /\ Typed' /\ IdleUnits' /\ \A v \in used : v # u => proc'[v] = proc[v]
      /\ proc'[u] = IF semaphoreDevices'[i] < 0 THEN "waiting" ELSE "idle"
  <2>1. semaphoreDevices'[i] \in Int
    BY <1>4, <1>5
  <2>2. proc'[u] = IF semaphoreDevices'[i] < 0 THEN "waiting" ELSE "idle"
    BY <1>2, <2>1 DEF Inv, Typed
  <2>3. semaphoreDevices' \in [SEM -> Int]
    BY <1>1, <1>2, <1>5 DEF Inv, Typed
  <2>4. Typed' /\ IdleUnits' /\ \A v \in used : v # u => proc'[v] = proc[v]
    BY <1>2, <2>3 DEF Inv, Typed, IdleUnits
  <2> QED
    BY <2>2, <2>4
<1>7. blocked' = {<<v, semaphore_index(v)>> : v \in {w \in used : proc'[w] = "waiting"}}
  <2>1. blocked = {<<v, semaphore_index(v)>> : v \in {w \in used : proc[w] = "waiting"}}
    BY DEF Inv, BlockedSound
  <2>2. CASE semaphoreDevices'[i] < 0
    <3>1. {w \in used : proc'[w] = "waiting"} = {w \in used : proc[w] = "waiting"} \cup {u}
      BY <1>6, <2>2
    <3>2. blocked' = blocked \cup {<<u, i>>}
      BY <1>2, <1>4, <1>5, <2>2
    <3> QED
      BY <2>1, <3>1, <3>2 DEF i
  <2>3. CASE semaphoreDevices'[i] >= 0
    <3>1. {w \in used : proc'[w] = "waiting"} = {w \in used : proc[w] = "waiting"}
      BY <1>2, <1>4, <1>5, <1>6, <2>3
    <3>2. blocked' = blocked
      BY <1>2, <1>4, <1>5, <2>3
    <3> QED
      BY <2>1, <3>1, <3>2
  <2> QED
    BY <1>4, <1>5, <2>2, <2>3
<1>8. ASSUME NEW v \in used
      PROVE  /\ Balance(semaphoreDevices'[semaphore_index(v)], Outstanding(v)', Expecting(v)',
                        proc'[v], Disturbed(v) \/ v \in unclaimed')
             /\ Disturbed(v) \/ v0'[v] \in {"none", "DONE"}
  <2>1. CASE v = u
    <3>1. Expecting(u)' = 0
      BY <1>6 DEF Expecting
    <3>2. Outstanding(u)' = Outstanding(u) /\ Outstanding(u) \in {0, 1}
      BY <1>2 DEF Outstanding
    <3>3. semaphoreDevices'[semaphore_index(v)] = sem - 1
      BY <1>4, <2>1 DEF i
    <3>4. proc'[u] = "waiting" <=> sem - 1 = -1
      BY <1>4, <1>5, <1>6
    <3>5. v0'[v] = v0[u]
      BY <1>2, <2>1
    <3> QED
      BY <1>2, <1>5, <2>1, <3>1, <3>2, <3>3, <3>4, <3>5, DevicesAssumption DEF Balance, Inexact
  <2>2. CASE v # u
    <3>1. Expecting(v)' = Expecting(v) /\ Outstanding(v)' = Outstanding(v)
      BY <1>2, <1>6, <2>2 DEF Expecting, Outstanding
    <3> QED
      BY <1>2, <1>4, <1>6, <2>2, <3>1, OneUnit DEF Inexact
  <2> QED
    BY <2>1, <2>2
<1>9. UNCHANGED used /\ \A j \in SEM : j \notin {semaphore_index(v) : v \in used}
                            => semaphoreDevices'[j] = semaphoreDevices[j]
  BY <1>2, <1>4 DEF i
<1> QED
  BY <1>6, <1>7, <1>8, <1>9, AllUnits

\* The killing of a unit's process takes it out of the queue and leaves the
\* semaphore as it is.
LEMMA KillStep ==
    ASSUME Inv, NEW u \in used, terminateProcess(u)
    PROVE  Inv'
<1>1. /\ UNCHANGED <<used, status, semaphoreDevices>>
      /\ blocked' = {w \in blocked : w[1] # u}
      /\ proc' = [proc EXCEPT ![u] = "killed"] /\ v0' = [v0 EXCEPT ![u] = "none"]
      /\ \/ proc[u] # "started" /\ unclaimed' = unclaimed
         \/ /\ proc[u] = "started" /\ semaphoreDevices[semaphore_index(u)] < MaxSem
            /\ unclaimed' = unclaimed \cup {u}
  BY DEF terminateProcess, giveBack
<1>2. /\ proc'[u] = "killed" /\ v0'[u] = "none"
      /\ \A v \in used : v # u => /\ proc'[v] = proc[v] /\ v0'[v] = v0[v]
                                  /\ v \in unclaimed' <=> v \in unclaimed
  BY <1>1 DEF Inv, Typed
<1>3. Typed' /\ IdleUnits'
  BY <1>1 DEF Inv, Typed, IdleUnits
<1>4. blocked' = {<<v, semaphore_index(v)>> : v \in {w \in used : proc'[w] = "waiting"}}
  <2>1. blocked = {<<v, semaphore_index(v)>> : v \in {w \in used : proc[w] = "waiting"}}
    BY DEF Inv, BlockedSound
  <2>2. {w \in used : proc'[w] = "waiting"} = {w \in used : proc[w] = "waiting"} \ {u}
    BY <1>2
  <2> QED
    BY <1>1, <2>1, <2>2
<1>5. ASSUME NEW v \in used
      PROVE  /\ Balance(semaphoreDevices'[semaphore_index(v)], Outstanding(v)', Expecting(v)',
                        proc'[v], Disturbed(v) \/ v \in unclaimed')
             /\ Disturbed(v) \/ v0'[v] \in {"none", "DONE"}
  <2>1. semaphoreDevices'[semaphore_index(v)] = semaphoreDevices[semaphore_index(v)]
    BY <1>1
  <2>2. Outstanding(v)' = Outstanding(v) /\ Outstanding(v) \in {0, 1}
    BY <1>1 DEF Outstanding
  <2>3. CASE v = u
    <3>1. Expecting(u)' = 0
      BY <1>2 DEF Expecting
    <3>2. CASE proc[u] # "started"
      <4>1. Expecting(u) = 0 /\ unclaimed' = unclaimed
        BY <1>1, <3>2 DEF Expecting
      <4> QED
        BY <1>2, <2>1, <2>2, <2>3, <3>1, <4>1, OneUnit DEF Balance, Inexact
    <3>3. CASE proc[u] = "started"
      <4>1. /\ Expecting(u) = 1 /\ u \in unclaimed'
            /\ semaphoreDevices[semaphore_index(u)] < MaxSem
        BY <1>1, <3>3 DEF Expecting
      <4> QED
        BY <1>2, <2>1, <2>2, <2>3, <3>1, <4>1, OneUnit, DevicesAssumption DEF Balance
    <3> QED
      BY <3>2, <3>3
  <2>4. CASE v # u
    <3>1. Expecting(v)' = Expecting(v)
      BY <1>2, <2>4 DEF Expecting
    <3> QED
      BY <1>2, <2>1, <2>2, <2>4, <3>1, OneUnit DEF Inexact
  <2> QED
    BY <2>3, <2>4
<1>6. \A j \in SEM : semaphoreDevices'[j] = semaphoreDevices[j]
  BY <1>1
<1> QED
  BY <1>1, <1>3, <1>4, <1>5, <1>6, AllUnits

\* The interrupt handler raises the semaphore of the unit it serves and wakes
\* that unit's process, if it is waiting.
LEMMA HandlerStep ==
    ASSUME Inv, nonTimerInterruptHandler
    PROVE  Inv'
<1> DEFINE u == ServedUnit
           i == semaphore_index(u)
           sem == semaphoreDevices[i]
<1>1. /\ Pending # {} /\ UNCHANGED <<used, unclaimed>>
      /\ status[u] = "DONE" \/ sem < MaxSem
      /\ acknowledge(u) /\ unblock(i, status[u])
  BY HandlerServes DEF Inv
<1>2. /\ u \in used /\ status[u] \in {"BUSY", "DONE"}
      /\ status[u] = "DONE" \/ Disturbed(u)
  BY <1>1, Served DEF Inv
<1> HIDE DEF u
<1>3. u \in Unit /\ i \in SEM /\ sem \in Int
  BY <1>2, OneUnit
<1>4. \A v \in used : v # u => semaphore_index(v) # i
  BY <1>2, <1>3, OneUnit, IndexInjective
<1>5. semaphoreDevices' = [semaphoreDevices EXCEPT ![i] = sem + 1]
  BY <1>1 DEF unblock
<1>6. /\ semaphoreDevices'[i] = sem + 1 /\ semaphoreDevices' \in [SEM -> Int]
      /\ \A j \in SEM : j # i => semaphoreDevices'[j] = semaphoreDevices[j]
      /\ \A v \in used : v # u => semaphoreDevices'[semaphore_index(v)]
                                    = semaphoreDevices[semaphore_index(v)]
  BY <1>3, <1>4, <1>5, OneUnit DEF Inv, Typed
<1>7. /\ status' \in [Unit -> {"READY", "BUSY", "DONE"}] /\ IdleUnits'
      /\ status'[u] = IF status[u] = "DONE" THEN "READY" ELSE "BUSY"
      /\ \A v \in Unit : v # u => status'[v] = status[v]
  BY <1>1, <1>2, <1>3 DEF acknowledge, Inv, Typed, IdleUnits
<1>8. /\ proc' \in [used -> {"idle", "started", "waiting", "killed"}]
      /\ v0' \in [used -> {"none", "READY", "BUSY", "DONE"}]
      /\ \A v \in used : v # u => proc'[v] = proc[v] /\ v0'[v] = v0[v]
      /\ proc'[u] = IF proc[u] = "waiting" THEN "idle" ELSE proc[u]
      /\ v0'[u] = v0[u] \/ v0'[u] = status[u]
      /\ blocked' = {<<v, semaphore_index(v)>> : v \in {w \in used : proc'[w] = "waiting"}}
  <2> DEFINE queue == {w \in blocked : w[2] = i}
  <2>1. blocked = {<<v, semaphore_index(v)>> : v \in {w \in used : proc[w] = "waiting"}}
    BY DEF Inv, BlockedSound
  <2>2. \A w \in queue : w = <<u, i>>
    BY <1>4, <2>1
  <2>3. proc[u] = "waiting" <=> <<u, i>> \in blocked
    <3>1. ASSUME <<u, i>> \in blocked PROVE proc[u] = "waiting"
      <4>1. PICK v \in used : proc[v] = "waiting" /\ <<u, i>> = <<v, semaphore_index(v)>>
        BY <2>1, <3>1
      <4> QED
        BY <4>1
    <3> QED
      BY <1>2, <2>1, <3>1
  <2>4. CASE queue = {}
    <3>1. UNCHANGED <<proc, blocked, v0>>
      <4>1. ~ \E w \in queue : TRUE
        BY <2>4
      <4> QED
        BY <1>1, <4>1 DEF unblock
    <3>2. proc[u] # "waiting"
      BY <2>3, <2>4
    <3> QED
      BY <2>1, <3>1, <3>2 DEF Inv, Typed
  <2>5. CASE queue # {}
    <3>1. /\ blocked' = blocked \ {<<u, i>>}
          /\ proc' = [proc EXCEPT ![u] = "idle"]
          /\ v0' = [v0 EXCEPT ![u] = status[u]]
      BY <1>1, <2>2, <2>5 DEF unblock
    <3>2. proc[u] = "waiting"
      BY <2>2, <2>3, <2>5
    <3>3. /\ proc' \in [used -> {"idle", "started", "waiting", "killed"}]
          /\ v0' \in [used -> {"none", "READY", "BUSY", "DONE"}]
          /\ \A v \in used : v # u => proc'[v] = proc[v] /\ v0'[v] = v0[v]
          /\ proc'[u] = "idle" /\ v0'[u] = status[u]
      BY <1>2, <3>1 DEF Inv, Typed
    <3>4. {w \in used : proc'[w] = "waiting"} = {w \in used : proc[w] = "waiting"} \ {u}
      BY <3>3
    <3>5. blocked' = {<<v, semaphore_index(v)>> : v \in {w \in used : proc'[w] = "waiting"}}
      BY <2>1, <3>1, <3>4
    <3> QED
      BY <3>2, <3>3, <3>5
  <2> QED
    BY <2>4, <2>5
<1>9. Typed'
  BY <1>1, <1>6, <1>7, <1>8 DEF Inv, Typed
<1> HIDE DEF i, sem
<1>10. ASSUME NEW v \in used
       PROVE  /\ Balance(semaphoreDevices'[semaphore_index(v)], Outstanding(v)', Expecting(v)',
                         proc'[v], Disturbed(v) \/ v \in unclaimed')
              /\ Disturbed(v) \/ v0'[v] \in {"none", "DONE"}
  <2>1. CASE v = u
    <3>1. /\ sem >= -1 /\ sem >= Expecting(u) - 1
          /\ proc[u] = "idle" => sem >= 0
          /\ sem + 1 <= MaxSem + 1 + Expecting(u)
          /\ Inexact(u) \/ sem = Expecting(u) - 1
          /\ Disturbed(u) \/ v0[u] \in {"none", "DONE"}
      <4>1. Outstanding(u) = 1
        BY <1>2 DEF Outstanding
      <4> QED
        BY <1>2, <4>1, OneUnit DEF i, sem, Balance
    <3>2. Expecting(v)' = Expecting(u) /\ Expecting(u) \in {0, 1}
      BY <1>8, <2>1 DEF Expecting
    <3>3. Outstanding(v)' = IF status[u] = "DONE" THEN 0 ELSE 1
      BY <1>7, <2>1 DEF Outstanding
    <3>4. semaphoreDevices'[semaphore_index(v)] = sem + 1
      BY <1>6, <2>1 DEF i
    <3>5. proc'[v] # "waiting"
      BY <1>8, <2>1
    <3>6. Disturbed(v) \/ v0'[v] \in {"none", "DONE"}
      BY <1>2, <1>8, <2>1, <3>1
    <3>7. /\ sem + 1 + Outstanding(v)' <= MaxSem + 1 + Expecting(v)'
          /\ sem + 1 >= Expecting(v)' - Outstanding(v)'
          /\ Inexact(u) \/ sem + 1 = Expecting(v)' - Outstanding(v)'
      BY <1>1, <1>2, <1>3, <3>1, <3>2, <3>3, DevicesAssumption DEF i, sem, Inexact
    <3>8. sem + 1 >= 0 /\ sem + 1 >= -1
      BY <1>3, <3>1
    <3> HIDE DEF Outstanding, Expecting, Disturbed
    <3> QED
      BY <1>1, <2>1, <3>4, <3>5, <3>6, <3>7, <3>8 DEF Balance, Inexact
  <2>2. CASE v # u
    <3>1. v \in Unit
      BY OneUnit
    <3>2. Expecting(v)' = Expecting(v) /\ Outstanding(v)' = Outstanding(v)
      BY <1>7, <1>8, <2>2, <3>1 DEF Expecting, Outstanding
    <3> QED
      BY <1>1, <1>6, <1>8, <2>2, <3>2, OneUnit DEF Inexact
  <2> QED
    BY <2>1, <2>2
<1>11. \A j \in SEM : j \notin {semaphore_index(v) : v \in used}
                            => semaphoreDevices'[j] = semaphoreDevices[j]
  BY <1>2, <1>6 DEF i
<1> QED
  BY <1>1, <1>7, <1>8, <1>9, <1>10, <1>11, AllUnits

-----------------------------------------------------------------------------

\* The devices start ready, with every semaphore at zero.
LEMMA InitDevices == Init => Inv
<1> SUFFICES ASSUME Init PROVE Inv
  OBVIOUS
<1>1. used \subseteq Unit
  BY UsesAssumption DEF Init
<1>2. Typed /\ IdleUnits /\ WokenByOwnHalf
  BY <1>1 DEF Init, Typed, IdleUnits, WokenByOwnHalf, Answered
<1>3. \A u \in used : /\ semaphoreDevices[semaphore_index(u)] = 0
                      /\ proc[u] = "idle" /\ status[u] = "READY"
  BY <1>1, IndexInjective DEF Init
<1>4. BlockedSound
  BY <1>3 DEF BlockedSound, Init
<1>5. Balanced
  BY <1>3, DevicesAssumption DEF Balanced, Balance, Outstanding, Expecting
<1>6. CommandAnsweredOnce
  BY <1>3 DEF CommandAnsweredOnce, Init
<1> QED
  BY <1>2, <1>4, <1>5, <1>6 DEF Inv

\* Every step keeps the invariant.
LEMMA StepDevices == Inv /\ [Next]_vars => Inv'
<1> SUFFICES ASSUME Inv, [Next]_vars PROVE Inv'
  OBVIOUS
<1>1. CASE Next
  BY <1>1, CommandStep, CompletesStep, WaitStep, KillStep, HandlerStep DEF Next
<1>2. CASE UNCHANGED vars
  BY <1>2 DEF vars, Inv, Typed, IdleUnits, BlockedSound, Balanced, Balance, Inexact,
              Outstanding, Expecting, CommandAnsweredOnce, WokenByOwnHalf, Answered, Disturbed, semaphore_index
<1> QED
  BY <1>1, <1>2

\* The invariant holds in every reachable state, whatever units are in use.
THEOREM DevicesInvariance == Spec => []Inv
BY InitDevices, StepDevices, PTL DEF Spec

\* No semaphore of a device falls below -1, or is raised further than the bound
\* on interrupts nobody waits for allows.
THEOREM DevicesTyped == Spec => []TypeOK
<1>1. ASSUME Inv PROVE TypeOK
  <2>1. blocked \subseteq used \X SEM
    BY <1>1, OneUnit DEF Inv, BlockedSound
  <2>2. ASSUME NEW i \in SEM PROVE semaphoreDevices[i] \in -1 .. MaxSem + 2
    <3>1. CASE i \notin {semaphore_index(u) : u \in used}
      BY <1>1, <3>1, DevicesAssumption DEF Inv, CommandAnsweredOnce
    <3>2. ASSUME NEW u \in used, i = semaphore_index(u)
          PROVE  semaphoreDevices[i] \in -1 .. MaxSem + 2
      <4>1. Outstanding(u) \in {0, 1} /\ Expecting(u) \in {0, 1}
        BY DEF Outstanding, Expecting
      <4> QED
        BY <1>1, <3>2, <4>1, OneUnit, DevicesAssumption DEF Balance
    <3> QED
      BY <3>1, <3>2
  <2> QED
    BY <1>1, <2>1, <2>2 DEF Inv, Typed, TypeOK
<1> QED
  BY <1>1, DevicesInvariance, PTL

\* Every command is answered exactly once and on its own semaphore: SYS5
\* (exceptions.c:530-540) and the handler (interrupts.c:256, 301-307) agree on
\* the index for every line, device and half.
THEOREM AnsweredOnce == Spec => []CommandAnsweredOnce
<1>1. Inv => CommandAnsweredOnce
  BY DEF Inv
<1> QED
  BY <1>1, DevicesInvariance, PTL

\* Reads, and writes to terminals nobody reads from, end with the status of
\* their own operation (interrupts.c:290-308).
THEOREM WokenByOwn == Spec => []WokenByOwnHalf
<1>1. Inv => WokenByOwnHalf
  BY DEF Inv
<1> QED
  BY <1>1, DevicesInvariance, PTL

\* Whoever comes back from SYS5 finds its operation ended, for any set of units
\* in use and whatever processes were killed while they waited: a waiter that is
\* killed does not raise the semaphore (exceptions.c:384-397).
THEOREM OperationsAwaited == Spec => []ReturnsAfterEnd
<1>1. ASSUME Inv, NEW u \in used \ unclaimed, ~ Disturbed(u), proc[u] = "idle"
      PROVE  status[u] = "READY"
  <2>1. Expecting(u) = 0 /\ ~ Inexact(u)
    BY <1>1 DEF Expecting, Inexact
  <2>2. semaphoreDevices[semaphore_index(u)] >= 0
    BY <1>1, OneUnit DEF Balance
  <2>3. semaphoreDevices[semaphore_index(u)] = 0 - Outstanding(u)
    BY <1>1, <2>1, OneUnit DEF Balance
  <2> QED
    BY <2>2, <2>3 DEF Outstanding
<1>2. Inv => ReturnsAfterEnd
  BY <1>1 DEF ReturnsAfterEnd
<1> QED
  BY <1>2, DevicesInvariance, PTL
=============================================================================
