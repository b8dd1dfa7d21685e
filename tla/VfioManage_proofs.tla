-------------------------- MODULE VfioManage_proofs --------------------------
(***************************************************************************)
(* What is proved of VfioManage for every set of processes and devices,    *)
(* every command line and every number of disturbances.                    *)
(***************************************************************************)
EXTENDS VfioManage, WellFoundedInduction, TLAPS

-----------------------------------------------------------------------------
(* Devices.                                                                *)

\* The loop takes one of the devices that remain.
LEMMA FirstIn ==
  ASSUME NEW S \in SUBSET Functions, S # {}
  PROVE  First(S) \in S
<1> DEFINE T == {i \in DOMAIN Bus : Bus[i] \in S}
<1>1. DOMAIN Bus \subseteq Nat
  BY DevicesAssumption
<1>2. T \subseteq Nat /\ T # {}
  BY <1>1 DEF Functions, Range
<1>3. \E i \in T : \A j \in T : ~(<<j, i>> \in OpToRel(<, Nat))
  BY <1>2, WFMin, NatLessThanWellFounded
<1>4. PICK i \in T : \A j \in T : ~(j < i)
  BY <1>2, <1>3 DEF OpToRel
<1>5. \A j \in DOMAIN Bus : Bus[j] \in S => i <= j
  BY <1>1, <1>2, <1>4
<1>6. \E k \in DOMAIN Bus :
        Bus[k] \in S /\ \A j \in DOMAIN Bus : Bus[j] \in S => k <= j
  BY <1>4, <1>5
<1> QED
  BY <1>6 DEF First

\* The auxiliary device of a card is no function, and is that card's alone.
LEMMA AuxFacts ==
  /\ None \notin Devices /\ Functions \subseteq Devices
  /\ \A d \in Functions : AuxOf(d) \in (Devices \ Functions) \cup {None}
  /\ \A d, e \in Functions : AuxOf(d) # None /\ AuxOf(d) = AuxOf(e) => d = e
<1>1. ASSUME NEW d \in Vga, Consumers[d] # <<>>
      PROVE  Consumers[d][1] \in Range(Consumers[d])
  <2>1. Consumers[d] \in Seq(Range(Consumers[d]))
    BY DevicesAssumption
  <2>2. 1 \in DOMAIN Consumers[d]
    BY <1>1, <2>1
  <2> QED
    BY <2>2 DEF Range
<1>2. \A d \in Functions :
        AuxOf(d) # None => d \in Vga /\ AuxOf(d) \in Range(Consumers[d])
  BY <1>1 DEF AuxOf
<1>3. None \notin Devices /\ Functions \subseteq Devices
  BY DevicesAssumption DEF Devices
<1>4. \A d \in Functions : AuxOf(d) \in (Devices \ Functions) \cup {None}
  BY <1>2, DevicesAssumption DEF Devices
<1>5. \A d, e \in Functions : AuxOf(d) # None /\ AuxOf(d) = AuxOf(e) => d = e
  BY <1>2, DevicesAssumption
<1> QED
  BY <1>3, <1>4, <1>5

LEMMA SelectedFacts ==
  ASSUME NEW c \in Commands
  PROVE  /\ Selected(c) \subseteq Functions
         /\ c.op \in {"bind", "unbind"} /\ c.dev \in Functions \cup {All}
         /\ c.switches \in BOOLEAN /\ All \notin Functions
BY DevicesAssumption DEF Selected, CommandLines, Devices
-----------------------------------------------------------------------------
(* What a process is after a step.                                         *)

Working == Labels \ {"idle", "enumerate"}

\* Only p moves, and it becomes r.
LEMMA Moves ==
  ASSUME NEW p \in Procs, NEW r, Becomes(p, r), proc \in [Procs -> Process]
  PROVE  /\ proc'[p] = r /\ \A q \in Procs \ {p} : proc'[q] = proc[q]
         /\ r \in Process => proc' \in [Procs -> Process]
BY DEF Becomes

LEMMA NoSnapType == NoSnap \in [Devices -> Drivers]
BY DEF NoSnap, Drivers

\* The label of a process changes, and nothing else of it.
LEMMA AtShape ==
  ASSUME NEW p \in Procs, proc \in [Procs -> Process], NEW l \in Labels
  PROVE  /\ At(p, l) \in Process /\ At(p, l).pc = l
         /\ At(p, l).cmd = proc[p].cmd /\ At(p, l).exit = proc[p].exit
         /\ At(p, l).failed = proc[p].failed /\ At(p, l).todo = proc[p].todo
         /\ At(p, l).on = proc[p].on /\ At(p, l).snap = proc[p].snap
BY DEF At, Process

LEMMA EndedShape ==
  ASSUME NEW p \in Procs, proc \in [Procs -> Process], NEW st \in Statuses
  PROVE  /\ Ended(p, st) \in Process
         /\ Ended(p, st).pc = "idle" /\ Ended(p, st).exit = st
         /\ Ended(p, st).cmd = proc[p].cmd /\ Ended(p, st).todo = {}
         /\ Ended(p, st).failed = proc[p].failed
BY NoSnapType DEF Ended, Process, Labels

\* The loop ends the command or takes the next device.
LEMMA LoopShape ==
  ASSUME NEW p \in Procs, proc \in [Procs -> Process], NEW r \in Process,
         NEW rest \in SUBSET Functions, r.cmd = proc[p].cmd
  PROVE  /\ Loop(p, r, rest) \in Process
         /\ Loop(p, r, rest).cmd = proc[p].cmd
         /\ Loop(p, r, rest).todo = rest
         /\ Loop(p, r, rest).failed = r.failed
         /\ rest = {} => /\ Loop(p, r, rest).pc = "idle"
                         /\ Loop(p, r, rest).exit = "ok"
         /\ rest # {} =>
              /\ Loop(p, r, rest).on = First(rest)
              /\ Loop(p, r, rest).exit = r.exit
              /\ Loop(p, r, rest).snap = r.snap
              /\ Loop(p, r, rest).pc = IF Op(p) = "bind" THEN "load" ELSE "clear"
<1>1. CASE rest = {}
  <2>1. Loop(p, r, rest) = [Ended(p, "ok") EXCEPT !.failed = r.failed]
    BY <1>1 DEF Loop
  <2>2. Ended(p, "ok") \in Process /\ Ended(p, "ok").pc = "idle"
        /\ Ended(p, "ok").exit = "ok" /\ Ended(p, "ok").cmd = proc[p].cmd
        /\ Ended(p, "ok").todo = {}
    BY EndedShape DEF Statuses
  <2> QED
    BY <1>1, <2>1, <2>2 DEF Process
<1>2. CASE rest # {}
  <2>1. First(rest) \in Devices \cup {None}
    BY <1>2, FirstIn, AuxFacts
  <2> QED
    BY <1>2, <2>1 DEF Loop, Process, Labels
<1> QED
  BY <1>1, <1>2

\* r goes on after the device the process p is at.
GoesOn(p, r) ==
  /\ r \in Process /\ r.cmd = proc[p].cmd
  /\ r.todo = proc[p].todo \ {Main(p)}
  /\ r.todo = {} => r.pc = "idle" /\ r.exit = "ok"
  /\ r.todo # {} => /\ r.on = First(r.todo)
                    /\ r.exit = proc[p].exit /\ r.snap = proc[p].snap
                    /\ r.pc = IF Op(p) = "bind" THEN "load" ELSE "clear"

\* r has given up, the device under --all and the command otherwise.
GivesUp(p, r) ==
  \/ /\ r \in Process /\ r.cmd = proc[p].cmd /\ r.todo = {}
     /\ r.pc = "idle" /\ r.exit = "error"
     /\ proc[p].cmd.dev # All \/ proc[p].pc = "enumerate"
  \/ /\ proc[p].pc # "enumerate" /\ GoesOn(p, r)
     /\ r.failed = proc[p].failed \cup {Main(p)}

LEMMA RestShape ==
  ASSUME NEW p \in Procs, proc \in [Procs -> Process], NEW r \in Process,
         r.cmd = proc[p].cmd, r.exit = proc[p].exit, r.snap = proc[p].snap
  PROVE  /\ GoesOn(p, Loop(p, r, proc[p].todo \ {Main(p)}))
         /\ Loop(p, r, proc[p].todo \ {Main(p)}).failed = r.failed
<1>1. PICK rest \in SUBSET Functions : rest = proc[p].todo \ {Main(p)}
  BY DEF Process
<1> DEFINE l == Loop(p, r, rest)
<1>2. /\ l \in Process /\ l.cmd = proc[p].cmd /\ l.todo = rest
      /\ l.failed = r.failed
      /\ rest = {} => l.pc = "idle" /\ l.exit = "ok"
      /\ rest # {} => /\ l.on = First(rest) /\ l.exit = r.exit
                      /\ l.snap = r.snap
                      /\ l.pc = IF Op(p) = "bind" THEN "load" ELSE "clear"
  BY LoopShape
<1> HIDE DEF l
<1>3. GoesOn(p, l)
  BY <1>1, <1>2 DEF GoesOn
<1> QED
  BY <1>1, <1>2, <1>3 DEF l

LEMMA NextDeviceShape ==
  ASSUME NEW p \in Procs, proc \in [Procs -> Process]
  PROVE  /\ GoesOn(p, NextDevice(p))
         /\ NextDevice(p).failed = proc[p].failed
<1>1. proc[p] \in Process
  OBVIOUS
<1> QED
  BY <1>1, RestShape DEF NextDevice

LEMMA DeviceFailsShape ==
  ASSUME NEW p \in Procs, proc \in [Procs -> Process],
         proc[p].pc = "enumerate" \/ Main(p) \in Functions
  PROVE  /\ GivesUp(p, DeviceFails(p))
         /\ proc[p].pc = "enumerate" => DeviceFails(p).pc = "idle"
<1>1. CASE proc[p].cmd.dev # All \/ proc[p].pc = "enumerate"
  <2>1. DeviceFails(p) = Ended(p, "error") /\ "error" \in Statuses
    BY <1>1 DEF DeviceFails, Statuses
  <2>2. /\ Ended(p, "error") \in Process /\ Ended(p, "error").todo = {}
        /\ Ended(p, "error").pc = "idle" /\ Ended(p, "error").exit = "error"
        /\ Ended(p, "error").cmd = proc[p].cmd
    BY <2>1, EndedShape
  <2> QED
    BY <1>1, <2>1, <2>2 DEF GivesUp
<1>2. CASE ~(proc[p].cmd.dev # All \/ proc[p].pc = "enumerate")
  <2> DEFINE r == [proc[p] EXCEPT !.failed = @ \cup {Main(p)}]
  <2>1. /\ r \in Process /\ r.cmd = proc[p].cmd
        /\ r.failed = proc[p].failed \cup {Main(p)}
        /\ r.exit = proc[p].exit /\ r.snap = proc[p].snap
    BY <1>2 DEF Process
  <2>2. DeviceFails(p) = Loop(p, r, proc[p].todo \ {Main(p)})
    BY <1>2 DEF DeviceFails
  <2> HIDE DEF r
  <2>3. GoesOn(p, DeviceFails(p)) /\ DeviceFails(p).failed = r.failed
    BY <2>1, <2>2, RestShape
  <2> QED
    BY <1>2, <2>1, <2>3 DEF GivesUp
<1> QED
  BY <1>1, <1>2

\* Each step of a process leaves a process; it is at a call before it.
LEMMA UnbindShape ==
  ASSUME NEW p \in Procs, proc \in [Procs -> Process]
  PROVE  /\ AfterUnbind(p) \in Process
         /\ Op(p) = "bind" => AfterUnbind(p) = At(p, "override")
         /\ Op(p) # "bind" /\ OnMain(p) => AfterUnbind(p) = At(p, "aux")
         /\ Op(p) # "bind" /\ ~OnMain(p) => AfterUnbind(p) = NextDevice(p)
BY AtShape, NextDeviceShape DEF AfterUnbind, GoesOn, Labels
-----------------------------------------------------------------------------
(* Types.                                                                  *)

LEMMA SpendType ==
  ASSUME NEW k \in Disturbances, used \in [Disturbances -> Nat], Spend(k)
  PROVE  used' \in [Disturbances -> Nat]
BY DEF Spend

LEMMA TouchType ==
  ASSUME NEW p \in Procs, disturbed \in [Procs -> SUBSET Others],
         Op(p) \in Others, Touch(p)
  PROVE  disturbed' \in [Procs -> SUBSET Others]
BY DEF Touch

\* A process that works has a command; it goes through the devices the command
\* selects, and is on the first that remains or on its auxiliary device.
ProcInv(p) ==
  /\ proc[p].exit = "running" <=> proc[p].pc # "idle"
  /\ proc[p].exit # "none" => proc[p].cmd \in Commands
  /\ proc[p].pc \notin Working => proc[p].todo = {}
  /\ proc[p].pc \in Working =>
       /\ proc[p].todo # {} /\ proc[p].todo \subseteq Selected(proc[p].cmd)
       /\ proc[p].on \in {Main(p), AuxOf(Main(p))} \ {None}
       /\ proc[p].pc \in {"load", "aux"} => OnMain(p)
       /\ proc[p].pc \in {"load", "override", "attach"} => Op(p) = "bind"

Structure == TypeOK /\ \A p \in Procs : ProcInv(p)

\* What ProcInv says of a process that works.
LEMMA WorkFacts ==
  ASSUME Structure, NEW p \in Procs, proc[p].pc \in Working
  PROVE  /\ Main(p) \in proc[p].todo /\ Main(p) \in Functions
         /\ Main(p) \in Devices /\ proc[p].on \in Devices
         /\ OnMain(p) => proc[p].on = Main(p)
         /\ ~OnMain(p) => proc[p].on = AuxOf(Main(p))
         /\ proc[p].cmd \in Commands /\ Op(p) \in {"bind", "unbind"}
         /\ proc[p].exit = "running"
<1>1. /\ proc[p].todo \in SUBSET Functions /\ proc[p].todo # {}
      /\ proc[p].pc # "idle"
  BY DEF Structure, TypeOK, ProcInv, Process, Working
<1>2. Main(p) \in proc[p].todo /\ Main(p) \in Functions /\ Main(p) \in Devices
  BY <1>1, FirstIn, AuxFacts DEF Main
<1>3. proc[p].cmd \in Commands /\ proc[p].exit = "running"
  BY <1>1 DEF Structure, ProcInv
<1>4. Op(p) \in {"bind", "unbind"}
  BY <1>3, SelectedFacts DEF Op
<1>5. proc[p].on \in {Main(p), AuxOf(Main(p))} \ {None}
  BY DEF Structure, ProcInv
<1>6. proc[p].on \in Devices
  BY <1>2, <1>5, AuxFacts
<1> QED
  BY <1>2, <1>3, <1>4, <1>5, <1>6 DEF OnMain

LEMMA ProcFrame ==
  ASSUME NEW q \in Procs, proc'[q] = proc[q], ProcInv(q)
  PROVE  ProcInv(q)'
BY DEF ProcInv, Main, OnMain, Op

LEMMA GoesOnInv ==
  ASSUME Structure, NEW p \in Procs, proc[p].pc \in Working,
         GoesOn(p, proc'[p])
  PROVE  ProcInv(p)'
<1>1. /\ proc[p].cmd \in Commands /\ Op(p) \in {"bind", "unbind"}
      /\ proc[p].exit = "running" /\ proc[p].todo \subseteq Selected(proc[p].cmd)
  BY WorkFacts DEF Structure, ProcInv
<1>2. /\ proc'[p].cmd = proc[p].cmd /\ Op(p)' = Op(p)
      /\ proc'[p].todo \subseteq proc[p].todo
  BY DEF GoesOn, Op
<1>3. CASE proc'[p].todo = {}
  BY <1>1, <1>2, <1>3 DEF GoesOn, ProcInv, Working
<1>4. CASE proc'[p].todo # {}
  <2>1. /\ proc'[p].on = First(proc'[p].todo) /\ proc'[p].exit = "running"
        /\ proc'[p].pc = IF Op(p) = "bind" THEN "load" ELSE "clear"
    BY <1>1, <1>4 DEF GoesOn
  <2>2. proc'[p].todo \in SUBSET Functions
    BY DEF GoesOn, Process
  <2>3. First(proc'[p].todo) # None
    BY <1>4, <2>2, FirstIn, AuxFacts
  <2> QED
    BY <1>1, <1>2, <1>4, <2>1, <2>3 DEF ProcInv, OnMain, Main, Working, Labels
<1> QED
  BY <1>3, <1>4

LEMMA GivesUpInv ==
  ASSUME Structure, NEW p \in Procs, proc[p].pc \in Working,
         GivesUp(p, proc'[p])
  PROVE  ProcInv(p)'
<1>1. proc[p].cmd \in Commands
  BY WorkFacts
<1>2. CASE /\ proc'[p].cmd = proc[p].cmd /\ proc'[p].todo = {}
           /\ proc'[p].pc = "idle" /\ proc'[p].exit = "error"
  BY <1>1, <1>2 DEF ProcInv, Working
<1> QED
  BY <1>2, GoesOnInv DEF GivesUp

LEMMA AtInv ==
  ASSUME Structure, NEW p \in Procs, proc[p].pc \in Working,
         NEW l \in Working, proc'[p] = At(p, l),
         l \in {"load", "aux"} => OnMain(p),
         l \in {"load", "override", "attach"} => Op(p) = "bind"
  PROVE  ProcInv(p)'
<1>1. /\ proc'[p].pc = l /\ proc'[p].cmd = proc[p].cmd
      /\ proc'[p].exit = proc[p].exit /\ proc'[p].todo = proc[p].todo
      /\ proc'[p].on = proc[p].on
  BY AtShape DEF Structure, TypeOK, Working
<1>2. proc[p].exit = "running" /\ proc[p].cmd \in Commands
  BY WorkFacts
<1>3. Main(p)' = Main(p) /\ (OnMain(p)' <=> OnMain(p)) /\ Op(p)' = Op(p)
  BY <1>1 DEF Main, OnMain, Op
<1> QED
  BY <1>1, <1>2, <1>3 DEF ProcInv, Structure, Working

\* The same of what the steps of a process become.
LEMMA NextDeviceInv ==
  ASSUME Structure, NEW p \in Procs, proc[p].pc \in Working,
         Becomes(p, NextDevice(p))
  PROVE  /\ proc'[p] = NextDevice(p) /\ NextDevice(p) \in Process
         /\ GoesOn(p, proc'[p]) /\ ProcInv(p)'
<1>1. proc \in [Procs -> Process]
  BY DEF Structure, TypeOK
<1>2. proc'[p] = NextDevice(p)
  BY <1>1, Moves
<1>3. GoesOn(p, NextDevice(p))
  BY <1>1, NextDeviceShape
<1> QED
  BY <1>2, <1>3, GoesOnInv DEF GoesOn

LEMMA DeviceFailsInv ==
  ASSUME Structure, NEW p \in Procs, proc[p].pc \in Working,
         Becomes(p, DeviceFails(p))
  PROVE  /\ proc'[p] = DeviceFails(p) /\ DeviceFails(p) \in Process
         /\ GivesUp(p, proc'[p]) /\ ProcInv(p)'
<1>1. proc \in [Procs -> Process]
  BY DEF Structure, TypeOK
<1>2. proc'[p] = DeviceFails(p)
  BY <1>1, Moves
<1>3. GivesUp(p, DeviceFails(p))
  BY <1>1, WorkFacts, DeviceFailsShape
<1> QED
  BY <1>2, <1>3, GivesUpInv DEF GivesUp, GoesOn

LEMMA AfterUnbindInv ==
  ASSUME Structure, NEW p \in Procs, proc[p].pc \in Working,
         Becomes(p, AfterUnbind(p))
  PROVE  ProcInv(p)'
<1>1. proc \in [Procs -> Process]
  BY DEF Structure, TypeOK
<1>2. /\ "override" \in Working /\ "override" \in Labels
      /\ "aux" \in Working /\ "aux" \in Labels
  BY DEF Working, Labels
<1>3. CASE Op(p) = "bind" /\ Becomes(p, At(p, "override"))
  <2>1. proc'[p] = At(p, "override")
    BY <1>1, <1>2, <1>3, Moves
  <2> QED
    BY <1>2, <1>3, <2>1, AtInv
<1>4. CASE OnMain(p) /\ Becomes(p, At(p, "aux"))
  <2>1. proc'[p] = At(p, "aux")
    BY <1>1, <1>2, <1>4, Moves
  <2> QED
    BY <1>2, <1>4, <2>1, AtInv
<1> QED
  BY <1>1, <1>3, <1>4, UnbindShape, NextDeviceInv

\* A step of p that leaves the other processes as they are and keeps p's
\* record well-formed keeps the structure, given the rest.
LEMMA StructureMoves ==
  ASSUME Structure, NEW p \in Procs, NEW r \in Process, Becomes(p, r),
         ProcInv(p)',
         driver' \in [Devices -> Drivers],
         override' \in [Devices -> Vfio \cup {None}],
         disturbed' \in [Procs -> SUBSET Others],
         used' \in [Disturbances -> Nat]
  PROVE  Structure'
<1>1. proc \in [Procs -> Process]
  BY DEF Structure, TypeOK
<1>2. /\ proc' \in [Procs -> Process]
      /\ \A q \in Procs \ {p} : proc'[q] = proc[q]
  BY <1>1, Moves
<1>3. \A q \in Procs : ProcInv(q)'
  BY <1>2, ProcFrame DEF Structure
<1> QED
  BY <1>2, <1>3 DEF Structure, TypeOK

LEMMA VariantType ==
  /\ \A d \in Functions : Variant[d] \in Vfio
  /\ \A d \in Vfio : d \in Drivers
  /\ None \in Drivers /\ Native \in Drivers
BY DEF Vfio, Drivers

LEMMA StructureInit == Init => Structure
<1> SUFFICES ASSUME Init PROVE Structure
  OBVIOUS
<1>1. Idle \in Process
  BY NoSnapType DEF Idle, Process, Labels, Statuses
<1>2. proc \in [Procs -> Process] /\ \A p \in Procs : proc[p] = Idle
  BY <1>1 DEF Init
<1>3. \A p \in Procs : ProcInv(p)
  BY <1>2 DEF ProcInv, Idle, Working
<1>4. /\ driver \in [Devices -> Drivers]
      /\ override \in [Devices -> Vfio \cup {None}]
      /\ disturbed \in [Procs -> SUBSET Others]
      /\ used \in [Disturbances -> Nat]
  BY VariantType DEF Init
<1> QED
  BY <1>2, <1>3, <1>4 DEF Structure, TypeOK

LEMMA StructureBegin ==
  ASSUME Structure, NEW p \in Procs, NEW c \in Commands, Begin(p, c)
  PROVE  Structure'
<1> DEFINE r == [Idle EXCEPT !.cmd = c, !.pc = "enumerate",
                             !.exit = "running"]
<1>1. /\ r \in Process /\ r.pc = "enumerate" /\ r.cmd = c
      /\ r.exit = "running" /\ r.todo = {}
  BY NoSnapType DEF Idle, Process, Labels, Statuses
<1>2. Becomes(p, r)
  BY DEF Begin
<1> HIDE DEF r
<1>3. proc'[p] = r
  BY <1>2, Moves DEF Structure, TypeOK
<1>4. ProcInv(p)'
  BY <1>1, <1>3 DEF ProcInv, Working
<1>5. /\ driver' \in [Devices -> Drivers]
      /\ override' \in [Devices -> Vfio \cup {None}]
      /\ used' \in [Disturbances -> Nat]
  BY DEF Begin, sysfs, Structure, TypeOK
<1>6. disturbed' \in [Procs -> SUBSET Others]
  BY DEF Begin, Structure, TypeOK
<1> QED
  BY <1>1, <1>2, <1>4, <1>5, <1>6, StructureMoves

LEMMA StructureStep ==
  ASSUME Structure, NEW p \in Procs, Step(p)
  PROVE  Structure'
<1>1. /\ driver \in [Devices -> Drivers]
      /\ override \in [Devices -> Vfio \cup {None}]
      /\ disturbed \in [Procs -> SUBSET Others]
      /\ used \in [Disturbances -> Nat] /\ proc \in [Procs -> Process]
      /\ proc[p] \in Process
  BY DEF Structure, TypeOK
<1>t. ASSUME Touch(p), proc[p].pc \in Working
      PROVE  disturbed' \in [Procs -> SUBSET Others]
  BY <1>1, <1>t, TouchType, WorkFacts DEF Others
<1>w. proc[p].pc # "enumerate" => proc[p].pc \in Working
  BY DEF Step, LoadVariant, ClearOverride, StatDriver, ReadDriverLink, Detach,
         SetOverride, Attach, FindAux, Enumerate, Working, Labels
<1>2. CASE Enumerate(p)
  <2> DEFINE s == [proc[p] EXCEPT
                     !.snap = IF Op(p) = "bind" THEN driver ELSE @]
             rest == Selected(proc[p].cmd)
  <2>1. /\ proc[p].pc = "enumerate" /\ proc[p].exit = "running"
        /\ proc[p].cmd \in Commands
    BY <1>2 DEF Enumerate, Structure, ProcInv
  <2>2. /\ s \in Process /\ s.cmd = proc[p].cmd /\ s.exit = "running"
    BY <1>1, <2>1 DEF Process
  <2>3. rest \in SUBSET Functions /\ Op(p) \in {"bind", "unbind"}
    BY <2>1, SelectedFacts DEF Op
  <2>4. Becomes(p, Loop(p, s, rest))
    BY <1>2 DEF Enumerate
  <2> HIDE DEF s
  <2>5. PICK l : l = Loop(p, s, rest)
    OBVIOUS
  <2>6. /\ l \in Process /\ l.cmd = proc[p].cmd /\ l.todo = rest
        /\ rest = {} => l.pc = "idle" /\ l.exit = "ok"
        /\ rest # {} => /\ l.on = First(rest) /\ l.exit = "running"
                        /\ l.pc = IF Op(p) = "bind" THEN "load" ELSE "clear"
    BY <1>1, <2>2, <2>3, <2>5, LoopShape
  <2>7. proc'[p] = l
    BY <1>1, <2>4, <2>5, Moves
  <2>8. rest # {} => First(rest) # None
    BY <2>3, FirstIn, AuxFacts
  <2>9. ProcInv(p)'
    BY <2>1, <2>3, <2>6, <2>7, <2>8
       DEF ProcInv, OnMain, Main, Op, Working, Labels
  <2> QED
    BY <1>1, <1>2, <2>4, <2>5, <2>6, <2>9, StructureMoves
       DEF Enumerate, sysfs
<1>3. CASE LoadVariant(p)
  <2>1. PICK l \in {"aux", "clear"} : Becomes(p, At(p, l))
    BY <1>3 DEF LoadVariant
  <2>2. proc[p].pc = "load" /\ proc[p].pc \in Working /\ l \in Working
        /\ l \in Labels
    BY <1>3 DEF LoadVariant, Working, Labels
  <2>3. OnMain(p)
    BY <2>2 DEF Structure, ProcInv
  <2>4. proc'[p] = At(p, l) /\ At(p, l) \in Process
    BY <1>1, <2>1, <2>2, Moves, AtShape
  <2>5. ProcInv(p)'
    BY <2>2, <2>3, <2>4, AtInv
  <2> QED
    BY <1>1, <1>3, <2>1, <2>4, <2>5, StructureMoves DEF LoadVariant, sysfs
<1>4. CASE ClearOverride(p)
  <2>1. /\ Becomes(p, At(p, "stat")) /\ proc[p].pc \in Working
        /\ "stat" \in Working /\ "stat" \in Labels
    BY <1>4 DEF ClearOverride, Working, Labels
  <2>2. proc'[p] = At(p, "stat") /\ At(p, "stat") \in Process
    BY <1>1, <2>1, Moves, AtShape
  <2>3. ProcInv(p)'
    BY <2>1, <2>2, AtInv
  <2>4. override' \in [Devices -> Vfio \cup {None}]
    BY <1>1, <1>4 DEF ClearOverride
  <2> QED
    BY <1>1, <1>4, <1>t, <2>1, <2>2, <2>3, <2>4, StructureMoves
       DEF ClearOverride
<1>5. CASE StatDriver(p)
  <2>1. proc[p].pc \in Working /\ proc[p].pc = "stat"
    BY <1>5 DEF StatDriver, Working, Labels
  <2>2. CASE Becomes(p, At(p, "readlink"))
    <3>1. "readlink" \in Working /\ "readlink" \in Labels
      BY DEF Working, Labels
    <3>2. proc'[p] = At(p, "readlink") /\ At(p, "readlink") \in Process
      BY <1>1, <2>2, <3>1, Moves, AtShape
    <3>3. ProcInv(p)'
      BY <2>1, <3>1, <3>2, AtInv
    <3> QED
      BY <1>1, <1>5, <2>2, <3>2, <3>3, StructureMoves DEF StatDriver, sysfs
  <2>3. CASE Becomes(p, AfterUnbind(p))
    <3>1. AfterUnbind(p) \in Process
      BY <1>1, UnbindShape
    <3>2. ProcInv(p)'
      BY <1>1, <2>1, <2>3, AfterUnbindInv
    <3> QED
      BY <1>1, <1>5, <2>3, <3>1, <3>2, StructureMoves DEF StatDriver, sysfs
  <2> QED
    BY <1>5, <2>2, <2>3 DEF StatDriver
<1>6. CASE ReadDriverLink(p)
  <2>1. proc[p].pc \in Working /\ proc[p].pc = "readlink"
    BY <1>6 DEF ReadDriverLink, Working, Labels
  <2>2. CASE Becomes(p, At(p, "detach"))
    <3>1. "detach" \in Working /\ "detach" \in Labels
      BY DEF Working, Labels
    <3>2. proc'[p] = At(p, "detach") /\ At(p, "detach") \in Process
      BY <1>1, <2>2, <3>1, Moves, AtShape
    <3>3. ProcInv(p)'
      BY <2>1, <3>1, <3>2, AtInv
    <3> QED
      BY <1>1, <1>6, <2>2, <3>2, <3>3, StructureMoves
         DEF ReadDriverLink, sysfs
  <2>3. CASE Becomes(p, DeviceFails(p))
    <3>1. DeviceFails(p) \in Process /\ ProcInv(p)'
      BY <1>1, <2>1, <2>3, DeviceFailsInv
    <3> QED
      BY <1>1, <1>6, <2>3, <3>1, StructureMoves DEF ReadDriverLink, sysfs
  <2> QED
    BY <1>6, <2>2, <2>3 DEF ReadDriverLink
<1>7. CASE Detach(p)
  <2>1. proc[p].pc \in Working /\ proc[p].pc = "detach"
    BY <1>7 DEF Detach, Working, Labels
  <2>2. CASE Becomes(p, DeviceFails(p)) /\ UNCHANGED <<driver, disturbed>>
    <3>1. DeviceFails(p) \in Process /\ ProcInv(p)'
      BY <1>1, <2>1, <2>2, DeviceFailsInv
    <3> QED
      BY <1>1, <1>7, <2>2, <3>1, StructureMoves DEF Detach
  <2>3. CASE /\ driver' = [driver EXCEPT ![proc[p].on] = None]
             /\ Becomes(p, AfterUnbind(p)) /\ Touch(p)
    <3>1. AfterUnbind(p) \in Process
      BY <1>1, UnbindShape
    <3>2. ProcInv(p)'
      BY <1>1, <2>1, <2>3, AfterUnbindInv
    <3>3. driver' \in [Devices -> Drivers]
      BY <1>1, <2>3, VariantType
    <3> QED
      BY <1>1, <1>7, <1>t, <2>1, <2>3, <3>1, <3>2, <3>3, StructureMoves
         DEF Detach
  <2> QED
    BY <1>7, <2>2, <2>3 DEF Detach
<1>8. CASE SetOverride(p)
  <2>1. /\ Becomes(p, At(p, "attach")) /\ proc[p].pc \in Working
        /\ proc[p].pc = "override"
        /\ "attach" \in Working /\ "attach" \in Labels
    BY <1>8 DEF SetOverride, Working, Labels
  <2>2. proc'[p] = At(p, "attach") /\ At(p, "attach") \in Process
    BY <1>1, <2>1, Moves, AtShape
  <2>3. Op(p) = "bind" /\ Main(p) \in Functions
    BY <2>1, WorkFacts DEF Structure, ProcInv
  <2>4. ProcInv(p)'
    BY <2>1, <2>2, <2>3, AtInv
  <2>5. override' \in [Devices -> Vfio \cup {None}]
    BY <1>1, <1>8, <2>3, VariantType DEF SetOverride
  <2> QED
    BY <1>1, <1>8, <1>t, <2>1, <2>2, <2>4, <2>5, StructureMoves
       DEF SetOverride
<1>9. CASE Attach(p)
  <2>1. proc[p].pc \in Working /\ proc[p].pc = "attach"
    BY <1>9 DEF Attach, Working, Labels
  <2>2. CASE Becomes(p, DeviceFails(p)) /\ UNCHANGED <<driver, disturbed>>
    <3>1. DeviceFails(p) \in Process /\ ProcInv(p)'
      BY <1>1, <2>1, <2>2, DeviceFailsInv
    <3> QED
      BY <1>1, <1>9, <2>2, <3>1, StructureMoves DEF Attach
  <2>3. CASE /\ driver' = [driver EXCEPT ![proc[p].on] =
                             override[proc[p].on]]
             /\ Becomes(p, IF OnMain(p) THEN At(p, "aux") ELSE NextDevice(p))
             /\ Touch(p)
    <3>1. proc[p].on \in Devices /\ "aux" \in Working /\ "aux" \in Labels
      BY <2>1, WorkFacts DEF Working, Labels
    <3>2. driver' \in [Devices -> Drivers]
      BY <1>1, <2>3, <3>1, VariantType
    <3>3. disturbed' \in [Procs -> SUBSET Others]
      BY <1>t, <2>1, <2>3
    <3>4. CASE OnMain(p) /\ Becomes(p, At(p, "aux"))
      <4>1. proc'[p] = At(p, "aux") /\ At(p, "aux") \in Process
        BY <1>1, <3>1, <3>4, Moves, AtShape
      <4>2. ProcInv(p)'
        BY <2>1, <3>1, <3>4, <4>1, AtInv
      <4> QED
        BY <1>1, <1>9, <3>2, <3>3, <3>4, <4>1, <4>2, StructureMoves DEF Attach
    <3>5. CASE Becomes(p, NextDevice(p))
      <4>1. NextDevice(p) \in Process /\ ProcInv(p)'
        BY <1>1, <2>1, <3>5, NextDeviceInv
      <4> QED
        BY <1>1, <1>9, <3>2, <3>3, <3>5, <4>1, StructureMoves DEF Attach
    <3> QED
      BY <2>3, <3>4, <3>5
  <2> QED
    BY <1>9, <2>2, <2>3 DEF Attach
<1>10. CASE FindAux(p)
  <2>1. proc[p].pc \in Working /\ proc[p].pc = "aux"
    BY <1>10 DEF FindAux, Working, Labels
  <2>2. CASE Becomes(p, NextDevice(p))
    <3>1. NextDevice(p) \in Process /\ ProcInv(p)'
      BY <1>1, <2>1, <2>2, NextDeviceInv
    <3> QED
      BY <1>1, <1>10, <2>2, <3>1, StructureMoves DEF FindAux, sysfs
  <2>3. CASE /\ AuxOf(Main(p)) # None
             /\ Becomes(p, [At(p, "clear") EXCEPT !.on = AuxOf(Main(p))])
    <3> DEFINE r == [At(p, "clear") EXCEPT !.on = AuxOf(Main(p))]
    <3>1. /\ At(p, "clear") \in Process /\ At(p, "clear").pc = "clear"
          /\ At(p, "clear").cmd = proc[p].cmd
          /\ At(p, "clear").exit = proc[p].exit
          /\ At(p, "clear").todo = proc[p].todo
      BY <1>1, AtShape DEF Labels
    <3>2. AuxOf(Main(p)) \in Devices
      BY <2>1, <2>3, WorkFacts, AuxFacts
    <3>3. /\ r \in Process /\ r.pc = "clear" /\ r.cmd = proc[p].cmd
          /\ r.exit = proc[p].exit /\ r.todo = proc[p].todo
          /\ r.on = AuxOf(Main(p))
      BY <3>1, <3>2 DEF Process
    <3> HIDE DEF r
    <3>4. proc'[p] = r
      BY <1>1, <2>3, Moves DEF r
    <3>5. Main(p)' = Main(p)
      BY <3>3, <3>4 DEF Main
    <3>6. ProcInv(p)'
      BY <2>1, <2>3, <3>3, <3>4, <3>5, WorkFacts
         DEF ProcInv, Structure, Working, Labels
    <3> QED
      BY <1>1, <1>10, <2>3, <3>3, <3>6, StructureMoves DEF FindAux, sysfs, r
  <2> QED
    BY <1>10, <2>2, <2>3 DEF FindAux
<1> QED
  BY <1>2, <1>3, <1>4, <1>5, <1>6, <1>7, <1>8, <1>9, <1>10 DEF Step

LEMMA StructureFault ==
  ASSUME Structure, NEW p \in Procs, Fault(p)
  PROVE  Structure'
<1>1. /\ driver' \in [Devices -> Drivers]
      /\ override' \in [Devices -> Vfio \cup {None}]
      /\ disturbed' \in [Procs -> SUBSET Others]
      /\ proc \in [Procs -> Process] /\ proc[p] \in Process
  BY DEF Structure, TypeOK, Fault, sysfs
<1>2. used' \in [Disturbances -> Nat]
  BY SpendType DEF Structure, TypeOK, Fault, Disturbances
<1>3. Becomes(p, DeviceFails(p)) /\ proc[p].pc # "idle"
  BY DEF Fault
<1>4. proc'[p] = DeviceFails(p)
  BY <1>1, <1>3, Moves
<1>m. proc[p].pc = "enumerate" \/ proc[p].pc \in Working
  BY <1>1, <1>3 DEF Process, Working
<1>5. GivesUp(p, DeviceFails(p))
  BY <1>1, <1>m, WorkFacts, DeviceFailsShape
<1>6. DeviceFails(p) \in Process
  BY <1>5 DEF GivesUp, GoesOn
<1>7. CASE proc[p].pc = "enumerate"
  <2>1. DeviceFails(p) = Ended(p, "error") /\ "error" \in Statuses
    BY <1>7 DEF DeviceFails, Statuses
  <2>2. proc[p].cmd \in Commands
    BY <1>3 DEF Structure, ProcInv
  <2>3. ProcInv(p)'
    BY <1>1, <1>4, <2>1, <2>2, EndedShape DEF ProcInv, Working
  <2> QED
    BY <1>1, <1>2, <1>3, <1>6, <2>3, StructureMoves
<1>8. CASE proc[p].pc # "enumerate"
  <2>1. proc[p].pc \in Working
    BY <1>1, <1>3, <1>8 DEF Process, Working
  <2>2. ProcInv(p)'
    BY <1>3, <2>1, DeviceFailsInv
  <2> QED
    BY <1>1, <1>2, <1>3, <1>6, <2>2, StructureMoves
<1> QED
  BY <1>7, <1>8

LEMMA StructureKill ==
  ASSUME Structure, NEW p \in Procs, Kill(p)
  PROVE  Structure'
<1>1. /\ driver' \in [Devices -> Drivers]
      /\ override' \in [Devices -> Vfio \cup {None}]
      /\ disturbed' \in [Procs -> SUBSET Others]
      /\ proc \in [Procs -> Process] /\ "killed" \in Statuses
  BY DEF Structure, TypeOK, Kill, sysfs, Statuses
<1>2. used' \in [Disturbances -> Nat]
  BY SpendType DEF Structure, TypeOK, Kill, Disturbances
<1>3. Becomes(p, Ended(p, "killed")) /\ proc[p].cmd \in Commands
  BY DEF Kill, Structure, ProcInv
<1>4. /\ Ended(p, "killed") \in Process /\ proc'[p] = Ended(p, "killed")
      /\ proc'[p].pc = "idle" /\ proc'[p].exit = "killed"
      /\ proc'[p].cmd = proc[p].cmd /\ proc'[p].todo = {}
  BY <1>1, <1>3, Moves, EndedShape
<1>5. ProcInv(p)'
  BY <1>3, <1>4 DEF ProcInv, Working
<1> QED
  BY <1>1, <1>2, <1>3, <1>4, <1>5, StructureMoves

LEMMA StructureProbe ==
  ASSUME Structure, NativeProbe
  PROVE  Structure'
<1>1. \A p \in Procs : ProcInv(p)'
  BY ProcFrame DEF NativeProbe, Structure
<1>2. used' \in [Disturbances -> Nat]
  BY SpendType DEF Structure, TypeOK, NativeProbe, Disturbances
<1>3. driver' \in [Devices -> Drivers]
  BY VariantType DEF NativeProbe, Structure, TypeOK
<1>4. disturbed' \in [Procs -> SUBSET Others]
  BY DEF NativeProbe, Structure, TypeOK, Others
<1> QED
  BY <1>1, <1>2, <1>3, <1>4 DEF NativeProbe, Structure, TypeOK

LEMMA StructureNext == Structure /\ [Next]_vars => Structure'
<1> SUFFICES ASSUME Structure, [Next]_vars PROVE Structure'
  OBVIOUS
<1>1. CASE UNCHANGED vars
  BY <1>1, ProcFrame DEF vars, sysfs, Structure, TypeOK
<1>2. CASE Next
  BY <1>2, StructureBegin, StructureStep, StructureFault, StructureKill,
     StructureProbe DEF Next
<1> QED
  BY <1>1, <1>2

LEMMA StructureInvariant == Spec => []Structure
BY StructureInit, StructureNext, PTL DEF Spec

\* The records of the processes and the state of the devices are of their
\* types.
THEOREM ManageTypes == Spec => []TypeOK
<1>1. Structure => TypeOK
  BY DEF Structure
<1> QED
  BY <1>1, StructureInvariant, PTL

-----------------------------------------------------------------------------
(* What a process does to the devices.                                     *)

\* A step changes no device but the one its process is on.
LEMMA StepChanges ==
  ASSUME Structure, NEW p \in Procs, Step(p), NEW d \in Devices,
         driver'[d] # driver[d] \/ override'[d] # override[d]
  PROVE  proc[p].pc \in Working /\ d = proc[p].on
<1>1. /\ driver \in [Devices -> Drivers]
      /\ override \in [Devices -> Vfio \cup {None}]
  BY DEF Structure, TypeOK
<1>2. ClearOverride(p) \/ Detach(p) \/ SetOverride(p) \/ Attach(p)
  BY DEF Step, Enumerate, LoadVariant, StatDriver, ReadDriverLink, FindAux,
         sysfs
<1>3. proc[p].pc \in Working
  BY <1>2 DEF ClearOverride, Detach, SetOverride, Attach, Working, Labels
<1>4. d # proc[p].on => driver'[d] = driver[d] /\ override'[d] = override[d]
  BY <1>1, <1>2 DEF ClearOverride, Detach, SetOverride, Attach
<1> QED
  BY <1>3, <1>4

\* A step of bind or unbind changes no device that its command does not name
\* and that is no auxiliary device of one it names: with --all no virtual
\* function, and no NVSwitch without the option.
THEOREM OnlyWhatIsNamed == Spec => OnlySelected
<1>1. ASSUME Structure, NEW p \in Procs
      PROVE  StaysInReach(p)
  <2> SUFFICES ASSUME NEW d \in Devices, Step(p),
                      driver'[d] # driver[d] \/ override'[d] # override[d]
               PROVE  d \in Reach(proc[p].cmd)
    BY DEF StaysInReach
  <2>1. proc[p].pc \in Working /\ d = proc[p].on
    BY <1>1, StepChanges
  <2>2. /\ Main(p) \in proc[p].todo /\ d \in {Main(p), AuxOf(Main(p))}
        /\ d \in Devices
    BY <1>1, <2>1, WorkFacts
  <2>3. Main(p) \in Selected(proc[p].cmd)
    BY <1>1, <2>1, <2>2 DEF Structure, ProcInv
  <2>4. d # None
    BY AuxFacts
  <2> QED
    BY <2>2, <2>3, <2>4 DEF Reach, WithAux, Named, Selected
<1>2. Structure => [\A p \in Procs : StaysInReach(p)]_vars
  BY <1>1
<1> QED
  BY <1>2, StructureInvariant, PTL DEF OnlySelected

-----------------------------------------------------------------------------
(* What a step makes of its process, action by action.                     *)

\* Only the label changes.
Turns(p, l) ==
  /\ proc'[p].pc = l /\ proc'[p].cmd = proc[p].cmd
  /\ proc'[p].exit = proc[p].exit /\ proc'[p].failed = proc[p].failed
  /\ proc'[p].todo = proc[p].todo /\ proc'[p].on = proc[p].on
  /\ proc'[p].snap = proc[p].snap

\* The device is done with, and nothing failed.
Passes(p) == GoesOn(p, proc'[p]) /\ proc'[p].failed = proc[p].failed

Fails(p) == GivesUp(p, proc'[p])

\* unbind has found or left the device without a driver.
Released(p) ==
  \/ Op(p) = "bind" /\ Turns(p, "override")
  \/ Op(p) # "bind" /\ OnMain(p) /\ Turns(p, "aux")
  \/ Op(p) # "bind" /\ ~OnMain(p) /\ Passes(p)

LEMMA TurnsAt ==
  ASSUME Structure, NEW p \in Procs, NEW l \in Labels, Becomes(p, At(p, l))
  PROVE  Turns(p, l)
<1>1. proc \in [Procs -> Process]
  BY DEF Structure, TypeOK
<1>2. proc'[p] = At(p, l)
  BY <1>1, Moves
<1> QED
  BY <1>1, <1>2, AtShape DEF Turns

LEMMA PassesOn ==
  ASSUME Structure, NEW p \in Procs, Becomes(p, NextDevice(p))
  PROVE  Passes(p)
<1>1. proc \in [Procs -> Process]
  BY DEF Structure, TypeOK
<1>2. proc'[p] = NextDevice(p)
  BY <1>1, Moves
<1> QED
  BY <1>1, <1>2, NextDeviceShape DEF Passes

LEMMA FailsOn ==
  ASSUME Structure, NEW p \in Procs, Becomes(p, DeviceFails(p)),
         proc[p].pc # "idle"
  PROVE  Fails(p)
<1>1. proc \in [Procs -> Process] /\ proc[p] \in Process
  BY DEF Structure, TypeOK
<1>2. proc'[p] = DeviceFails(p)
  BY <1>1, Moves
<1>3. proc[p].pc = "enumerate" \/ proc[p].pc \in Working
  BY <1>1 DEF Process, Working
<1> QED
  BY <1>1, <1>2, <1>3, WorkFacts, DeviceFailsShape DEF Fails

LEMMA ReleasedBy ==
  ASSUME Structure, NEW p \in Procs, Becomes(p, AfterUnbind(p))
  PROVE  Released(p)
<1>1. "override" \in Labels /\ "aux" \in Labels
  BY DEF Labels
<1> QED
  BY <1>1, TurnsAt, PassesOn DEF Released, AfterUnbind

LEMMA EnumerateDoes ==
  ASSUME Structure, NEW p \in Procs, Enumerate(p)
  PROVE  /\ UNCHANGED <<driver, override, disturbed, used>>
         /\ proc[p].pc = "enumerate"
         /\ proc[p].exit = "running" /\ proc[p].cmd \in Commands
         /\ proc'[p].cmd = proc[p].cmd /\ proc'[p].failed = proc[p].failed
         /\ proc'[p].todo = Selected(proc[p].cmd)
         /\ proc'[p].todo \subseteq Functions
         /\ proc'[p].todo = {} =>
              proc'[p].pc = "idle" /\ proc'[p].exit = "ok"
         /\ proc'[p].todo # {} =>
              /\ proc'[p].on = Main(p)' /\ OnMain(p)'
              /\ proc'[p].exit = "running"
              /\ Op(p) = "bind" => proc'[p].snap = driver
              /\ proc'[p].pc = IF Op(p) = "bind" THEN "load" ELSE "clear"
<1> DEFINE s == [proc[p] EXCEPT !.snap = IF Op(p) = "bind" THEN driver ELSE @]
           rest == Selected(proc[p].cmd)
<1>1. /\ proc \in [Procs -> Process] /\ driver \in [Devices -> Drivers]
      /\ proc[p].pc = "enumerate" /\ proc[p].exit = "running"
      /\ proc[p].cmd \in Commands
      /\ UNCHANGED <<driver, override, disturbed, used>>
  BY DEF Structure, TypeOK, Enumerate, ProcInv, sysfs
<1>2. /\ s \in Process /\ s.cmd = proc[p].cmd /\ s.exit = "running"
      /\ s.failed = proc[p].failed
      /\ Op(p) = "bind" => s.snap = driver
  BY <1>1 DEF Process
<1>3. rest \in SUBSET Functions
  BY <1>1, SelectedFacts
<1>4. Becomes(p, Loop(p, s, rest))
  BY DEF Enumerate
<1> HIDE DEF s
<1>5. PICK l : l = Loop(p, s, rest)
  OBVIOUS
<1>6. /\ l.cmd = proc[p].cmd /\ l.todo = rest /\ l.failed = s.failed
      /\ rest = {} => l.pc = "idle" /\ l.exit = "ok"
      /\ rest # {} => /\ l.on = First(rest) /\ l.exit = s.exit
                      /\ l.snap = s.snap
                      /\ l.pc = IF Op(p) = "bind" THEN "load" ELSE "clear"
  BY <1>1, <1>2, <1>3, <1>5, LoopShape
<1>7. proc'[p] = l
  BY <1>1, <1>4, <1>5, Moves
<1> QED
  BY <1>1, <1>2, <1>3, <1>6, <1>7 DEF Main, OnMain

LEMMA LoadDoes ==
  ASSUME Structure, NEW p \in Procs, LoadVariant(p)
  PROVE  /\ UNCHANGED <<driver, override, disturbed, used>>
         /\ proc[p].pc = "load" /\ proc[p].pc \in Working
         /\ Turns(p, IF proc[p].snap[Main(p)] = Variant[Main(p)]
                     THEN "aux" ELSE "clear")
<1>1. "aux" \in Labels /\ "clear" \in Labels
  BY DEF Labels
<1> QED
  BY <1>1, TurnsAt DEF LoadVariant, sysfs, Working, Labels

LEMMA ClearDoes ==
  ASSUME Structure, NEW p \in Procs, ClearOverride(p)
  PROVE  /\ UNCHANGED <<driver, used>> /\ Touch(p)
         /\ override' = [override EXCEPT ![proc[p].on] = None]
         /\ proc[p].pc = "clear" /\ proc[p].pc \in Working
         /\ Turns(p, "stat")
BY TurnsAt DEF ClearOverride, Working, Labels

LEMMA StatDoes ==
  ASSUME Structure, NEW p \in Procs, StatDriver(p)
  PROVE  /\ UNCHANGED <<driver, override, disturbed, used>>
         /\ proc[p].pc = "stat" /\ proc[p].pc \in Working
         /\ \/ driver[proc[p].on] # None /\ Turns(p, "readlink")
            \/ driver[proc[p].on] = None /\ Released(p)
BY TurnsAt, ReleasedBy DEF StatDriver, sysfs, Working, Labels

LEMMA ReadDoes ==
  ASSUME Structure, NEW p \in Procs, ReadDriverLink(p)
  PROVE  /\ UNCHANGED <<driver, override, disturbed, used>>
         /\ proc[p].pc = "readlink" /\ proc[p].pc \in Working
         /\ \/ driver[proc[p].on] # None /\ Turns(p, "detach")
            \/ driver[proc[p].on] = None /\ Fails(p)
BY TurnsAt, FailsOn DEF ReadDriverLink, sysfs, Working, Labels

LEMMA DetachDoes ==
  ASSUME Structure, NEW p \in Procs, Detach(p)
  PROVE  /\ UNCHANGED <<override, used>>
         /\ proc[p].pc = "detach" /\ proc[p].pc \in Working
         /\ \/ /\ driver[proc[p].on] # None /\ Released(p) /\ Touch(p)
               /\ driver' = [driver EXCEPT ![proc[p].on] = None]
            \/ /\ driver[proc[p].on] = None /\ Fails(p)
               /\ UNCHANGED <<driver, disturbed>>
BY ReleasedBy, FailsOn DEF Detach, Working, Labels

LEMMA OverrideDoes ==
  ASSUME Structure, NEW p \in Procs, SetOverride(p)
  PROVE  /\ UNCHANGED <<driver, used>> /\ Touch(p)
         /\ override' = [override EXCEPT ![proc[p].on] = Variant[Main(p)]]
         /\ proc[p].pc = "override" /\ proc[p].pc \in Working
         /\ Op(p) = "bind" /\ Turns(p, "attach")
BY TurnsAt DEF SetOverride, Working, Labels, Structure, ProcInv

LEMMA AttachDoes ==
  ASSUME Structure, NEW p \in Procs, Attach(p)
  PROVE  /\ UNCHANGED <<override, used>>
         /\ proc[p].pc = "attach" /\ proc[p].pc \in Working /\ Op(p) = "bind"
         /\ \/ /\ driver[proc[p].on] = None /\ Touch(p)
               /\ override[proc[p].on] = Variant[Main(p)]
               /\ driver' = [driver EXCEPT ![proc[p].on] = Variant[Main(p)]]
               /\ \/ OnMain(p) /\ Turns(p, "aux")
                  \/ ~OnMain(p) /\ Passes(p)
            \/ /\ ~(/\ driver[proc[p].on] = None
                    /\ override[proc[p].on] = Variant[Main(p)])
               /\ Fails(p) /\ UNCHANGED <<driver, disturbed>>
<1>1. "aux" \in Labels
  BY DEF Labels
<1> QED
  BY <1>1, TurnsAt, PassesOn, FailsOn
     DEF Attach, Working, Labels, Structure, ProcInv

\* The process is on the auxiliary device next, or done with the card.
LEMMA AuxDoes ==
  ASSUME Structure, NEW p \in Procs, FindAux(p)
  PROVE  /\ UNCHANGED <<driver, override, disturbed, used>>
         /\ proc[p].pc = "aux" /\ proc[p].pc \in Working /\ OnMain(p)
         /\ \/ /\ \/ AuxOf(Main(p)) = None
                  \/ /\ Op(p) = "bind"
                     /\ driver[AuxOf(Main(p))] = Variant[Main(p)]
               /\ Passes(p)
            \/ /\ AuxOf(Main(p)) # None
               /\ Op(p) = "bind" => driver[AuxOf(Main(p))] # Variant[Main(p)]
               /\ proc'[p].pc = "clear" /\ proc'[p].cmd = proc[p].cmd
               /\ proc'[p].exit = proc[p].exit
               /\ proc'[p].failed = proc[p].failed
               /\ proc'[p].todo = proc[p].todo
               /\ proc'[p].on = AuxOf(Main(p))
               /\ proc'[p].snap = proc[p].snap
<1>1. /\ UNCHANGED <<driver, override, disturbed, used>>
      /\ proc[p].pc = "aux" /\ proc[p].pc \in Working
      /\ proc \in [Procs -> Process]
  BY DEF FindAux, sysfs, Working, Labels, Structure, TypeOK
<1>2. OnMain(p)
  BY <1>1 DEF Structure, ProcInv
<1>3. CASE Becomes(p, NextDevice(p)) /\
           (\/ AuxOf(Main(p)) = None
            \/ /\ Op(p) = "bind"
               /\ driver[AuxOf(Main(p))] = Variant[Main(p)])
  BY <1>1, <1>2, <1>3, PassesOn
<1>4. CASE /\ Becomes(p, [At(p, "clear") EXCEPT !.on = AuxOf(Main(p))])
           /\ AuxOf(Main(p)) # None
           /\ Op(p) = "bind" => driver[AuxOf(Main(p))] # Variant[Main(p)]
  <2>1. /\ At(p, "clear") \in Process /\ At(p, "clear").pc = "clear"
        /\ At(p, "clear").cmd = proc[p].cmd
        /\ At(p, "clear").exit = proc[p].exit
        /\ At(p, "clear").failed = proc[p].failed
        /\ At(p, "clear").todo = proc[p].todo
        /\ At(p, "clear").snap = proc[p].snap
    BY <1>1, AtShape DEF Labels
  <2>2. proc'[p] = [At(p, "clear") EXCEPT !.on = AuxOf(Main(p))]
    BY <1>1, <1>4, Moves
  <2>3. /\ proc'[p].pc = "clear" /\ proc'[p].cmd = proc[p].cmd
        /\ proc'[p].exit = proc[p].exit /\ proc'[p].failed = proc[p].failed
        /\ proc'[p].todo = proc[p].todo /\ proc'[p].on = AuxOf(Main(p))
        /\ proc'[p].snap = proc[p].snap
    BY <2>1, <2>2 DEF Process
  <2> QED
    BY <1>1, <1>2, <1>4, <2>3
<1> QED
  BY <1>3, <1>4 DEF FindAux

\* A process is given a command; the devices and the others stay as they are.
BeginsAfresh(p) ==
  /\ proc'[p].pc = "enumerate" /\ proc'[p].cmd \in Commands
  /\ proc'[p].exit = "running" /\ disturbed'[p] = {}
  /\ UNCHANGED <<driver, override, used>>
  /\ \A q \in Procs \ {p} :
       proc'[q] = proc[q] /\ disturbed'[q] = disturbed[q]

LEMMA BeginDoes ==
  ASSUME Structure, NEW p \in Procs, NEW c \in Commands, Begin(p, c)
  PROVE  BeginsAfresh(p) /\ proc'[p].cmd = c
<1> DEFINE r == [Idle EXCEPT !.cmd = c, !.pc = "enumerate",
                             !.exit = "running"]
<1>1. /\ proc \in [Procs -> Process] /\ disturbed \in [Procs -> SUBSET Others]
      /\ disturbed' = [disturbed EXCEPT ![p] = {}]
      /\ UNCHANGED <<driver, override, used>> /\ Becomes(p, r)
  BY DEF Structure, TypeOK, Begin, sysfs
<1>2. r.pc = "enumerate" /\ r.cmd = c /\ r.exit = "running"
  BY DEF Idle
<1> HIDE DEF r
<1>3. proc'[p] = r /\ \A q \in Procs \ {p} : proc'[q] = proc[q]
  BY <1>1, Moves
<1> QED
  BY <1>1, <1>2, <1>3 DEF BeginsAfresh

\* The process works on, or its command has returned.
Onward(p) ==
  /\ proc'[p].cmd = proc[p].cmd /\ proc'[p].pc # "enumerate"
  /\ proc'[p].exit \in {"running", "ok", "error"}

LEMMA StepOnward ==
  ASSUME Structure, NEW p \in Procs, Step(p)
  PROVE  /\ Onward(p)
         /\ proc[p].exit = "running" /\ proc[p].cmd \in Commands
<1>1. proc[p].exit = "running" /\ proc[p].cmd \in Commands
  BY DEF Step, Enumerate, LoadVariant, ClearOverride, StatDriver,
         ReadDriverLink, Detach, SetOverride, Attach, FindAux, Structure,
         ProcInv
<1>2. \A l \in Working : Turns(p, l) => Onward(p)
  BY <1>1 DEF Turns, Working, Onward
<1>3. GoesOn(p, proc'[p]) =>
        /\ proc'[p].cmd = proc[p].cmd /\ proc'[p].pc # "enumerate"
        /\ proc'[p].exit \in {"running", "ok", "error"}
  BY <1>1 DEF GoesOn
<1>4. Passes(p) => Onward(p)
  BY <1>3 DEF Passes, Onward
<1>5. Fails(p) => Onward(p)
  BY <1>3 DEF Fails, GivesUp, Onward
<1>6. Released(p) => Onward(p)
  BY <1>2, <1>4 DEF Released, Working, Labels
<1>7. CASE Enumerate(p)
  BY <1>1, <1>7, EnumerateDoes DEF Onward
<1>8. CASE LoadVariant(p)
  BY <1>1, <1>8, <1>2, LoadDoes DEF Working, Labels
<1>9. CASE ClearOverride(p)
  BY <1>1, <1>9, <1>2, ClearDoes DEF Working, Labels
<1>10. CASE StatDriver(p)
  BY <1>1, <1>10, <1>2, <1>6, StatDoes DEF Working, Labels
<1>11. CASE ReadDriverLink(p)
  BY <1>1, <1>11, <1>2, <1>5, ReadDoes DEF Working, Labels
<1>12. CASE Detach(p)
  BY <1>1, <1>12, <1>5, <1>6, DetachDoes
<1>13. CASE SetOverride(p)
  BY <1>1, <1>13, <1>2, OverrideDoes DEF Working, Labels
<1>14. CASE Attach(p)
  BY <1>1, <1>14, <1>2, <1>4, <1>5, AttachDoes DEF Working, Labels
<1>15. CASE FindAux(p)
  BY <1>15, <1>1, <1>4, AuxDoes DEF Onward
<1> QED
  BY <1>1, <1>7, <1>8, <1>9, <1>10, <1>11, <1>12, <1>13, <1>14, <1>15
     DEF Step

\* A step leaves the other processes as they are, and counts as a disturbance
\* of theirs when it changes a device.
LEMMA StepFrame ==
  ASSUME Structure, NEW p \in Procs, Step(p)
  PROVE  /\ used' = used /\ disturbed'[p] = disturbed[p]
         /\ \A q \in Procs \ {p} :
              /\ proc'[q] = proc[q]
              /\ \/ /\ UNCHANGED <<driver, override>>
                    /\ disturbed'[q] = disturbed[q]
                 \/ disturbed'[q] = disturbed[q] \cup {Op(p)}
<1>1. /\ disturbed \in [Procs -> SUBSET Others]
      /\ proc \in [Procs -> Process]
  BY DEF Structure, TypeOK
<1>2. \E r : Becomes(p, r)
  BY DEF Step, Enumerate, LoadVariant, ClearOverride, StatDriver,
         ReadDriverLink, Detach, SetOverride, Attach, FindAux
<1>3. \A q \in Procs \ {p} : proc'[q] = proc[q]
  BY <1>1, <1>2, Moves
<1>4. /\ used' = used
      /\ UNCHANGED <<driver, override, disturbed>> \/ Touch(p)
  BY DEF Step, Enumerate, LoadVariant, ClearOverride, StatDriver,
         ReadDriverLink, Detach, SetOverride, Attach, FindAux, sysfs
<1>5. /\ disturbed'[p] = disturbed[p]
      /\ \A q \in Procs \ {p} :
           \/ UNCHANGED <<driver, override>> /\ disturbed'[q] = disturbed[q]
           \/ disturbed'[q] = disturbed[q] \cup {Op(p)}
  BY <1>1, <1>4 DEF Touch
<1> QED
  BY <1>3, <1>4, <1>5

\* No device gains a driver or an override.
OnlyFrees ==
  \A d \in Devices : /\ driver[d] = None => driver'[d] = None
                     /\ override[d] = None => override'[d] = None

LEMMA UnbindFrees ==
  ASSUME Structure, NEW p \in Procs, Step(p), Op(p) = "unbind"
  PROVE  OnlyFrees
<1>1. /\ driver \in [Devices -> Drivers]
      /\ override \in [Devices -> Vfio \cup {None}]
  BY DEF Structure, TypeOK
<1>2. ~SetOverride(p) /\ ~Attach(p)
  BY OverrideDoes, AttachDoes
<1>3. \/ UNCHANGED <<driver, override>>
      \/ driver' = driver
         /\ override' = [override EXCEPT ![proc[p].on] = None]
      \/ driver' = [driver EXCEPT ![proc[p].on] = None]
         /\ override' = override
  BY <1>2 DEF Step, Enumerate, LoadVariant, ClearOverride, StatDriver,
              ReadDriverLink, Detach, FindAux, sysfs
<1> QED
  BY <1>1, <1>3 DEF OnlyFrees

-----------------------------------------------------------------------------
(* A release that returns no error.                                        *)

AuxFree(d) == AuxOf(d) # None => Free(AuxOf(d))

\* The process is done with the card itself and about its auxiliary device.
OffMain(p) == proc[p].pc = "aux" \/ (proc[p].pc \in Working /\ ~OnMain(p))

Releasing(p) ==
  /\ proc[p].exit \in {"running", "ok"} /\ Op(p) = "unbind"
  /\ disturbed[p] \subseteq {"unbind"} /\ proc[p].pc # "enumerate"

\* What the command is done with and has logged no failure of.
Passed(p) == Selected(proc[p].cmd) \ (proc[p].todo \cup proc[p].failed)

\* What a release has passed is free, with its auxiliary device; no override
\* is left where it has cleared one, and the card is free when it has turned
\* to the auxiliary device.
ReleasedSoFar(p) ==
  Releasing(p) =>
    /\ \A d \in Passed(p) : Free(d) /\ AuxFree(d)
    /\ proc[p].pc \in {"stat", "readlink", "detach"} =>
         override[proc[p].on] = None
    /\ OffMain(p) => Free(Main(p))

ReleaseInv == Structure /\ \A p \in Procs : ReleasedSoFar(p)

LEMMA FreeStays ==
  ASSUME OnlyFrees
  PROVE  /\ \A d \in Devices : Free(d) => Free(d)'
         /\ \A d \in Functions : AuxFree(d) => AuxFree(d)'
<1>1. \A d \in Devices : Free(d) => Free(d)'
  BY DEF OnlyFrees, Free
<1> QED
  BY <1>1, AuxFacts DEF AuxFree

\* The label or the auxiliary device changes: the process stays with the card.
LEMMA TurnsFacts ==
  ASSUME NEW p \in Procs, NEW l, Turns(p, l)
  PROVE  /\ Main(p)' = Main(p) /\ (OnMain(p)' <=> OnMain(p))
         /\ Op(p)' = Op(p)
BY DEF Turns, Main, OnMain, Op

LEMMA PassesFacts ==
  ASSUME Structure, NEW p \in Procs, proc[p].pc \in Working, Passes(p)
  PROVE  /\ proc'[p].todo = proc[p].todo \ {Main(p)}
         /\ proc'[p].cmd = proc[p].cmd /\ Op(p)' = Op(p)
         /\ ~OffMain(p)' /\ proc'[p].failed = proc[p].failed
         /\ proc'[p].pc \in {"idle", "load", "clear"}
         /\ proc'[p].pc = "load" => proc'[p].snap = proc[p].snap
BY DEF Passes, GoesOn, OffMain, OnMain, Main, Op, Working

\* A failure that does not end the command: the loop goes on without the card.
LEMMA FailsFacts ==
  ASSUME Structure, NEW p \in Procs, Fails(p), proc'[p].exit # "error"
  PROVE  /\ proc[p].pc # "enumerate" /\ proc'[p].pc # "enumerate"
         /\ proc'[p].todo = proc[p].todo \ {Main(p)}
         /\ proc'[p].todo # {} => proc'[p].snap = proc[p].snap
         /\ proc'[p].cmd = proc[p].cmd /\ Op(p)' = Op(p)
         /\ proc'[p].failed = proc[p].failed \cup {Main(p)}
         /\ ~OffMain(p)' /\ proc'[p].pc \in {"idle", "load", "clear"}
         /\ Passed(p)' \subseteq Passed(p)
<1>1. /\ GoesOn(p, proc'[p]) /\ proc[p].pc # "enumerate"
      /\ proc'[p].failed = proc[p].failed \cup {Main(p)}
  BY DEF Fails, GivesUp
<1>2. Passed(p)' \subseteq Passed(p)
  BY <1>1 DEF GoesOn, Passed
<1> QED
  BY <1>1, <1>2 DEF GoesOn, OffMain, OnMain, Main, Op, Working

\* What others do short of binding leaves a release where it is.
LEMMA ReleaseFrame ==
  ASSUME Structure, NEW p \in Procs, proc'[p] = proc[p], ReleasedSoFar(p),
         disturbed'[p] \subseteq {"unbind"} =>
           disturbed[p] \subseteq {"unbind"} /\ OnlyFrees
  PROVE  ReleasedSoFar(p)'
<1> SUFFICES ASSUME Releasing(p)'
             PROVE  /\ \A d \in Passed(p) : Free(d)' /\ AuxFree(d)'
                    /\ proc[p].pc \in {"stat", "readlink", "detach"} =>
                         override'[proc[p].on] = None
                    /\ OffMain(p) => Free(Main(p))'
  BY DEF ReleasedSoFar, OffMain, OnMain, Main, Passed
<1>1. Releasing(p) /\ OnlyFrees
  BY DEF Releasing, Op
<1>2. PICK m : m = Main(p)
  OBVIOUS
<1>3. Main(p)' = m
  BY <1>2 DEF Main
<1>4. proc[p].cmd \in Commands
  BY <1>1 DEF Releasing, Structure, ProcInv
<1>5. Passed(p) \subseteq Functions
  BY <1>4, SelectedFacts DEF Passed
<1>6. \A d \in Passed(p) : Free(d)' /\ AuxFree(d)'
  BY <1>1, <1>5, FreeStays, AuxFacts DEF ReleasedSoFar
<1>7. /\ proc[p].pc \in Working => proc[p].on \in Devices /\ m \in Devices
      /\ OffMain(p) => proc[p].pc \in Working
  BY <1>2, WorkFacts DEF OffMain, Working, Labels
<1>8. proc[p].pc \in {"stat", "readlink", "detach"} =>
        override'[proc[p].on] = None
  BY <1>1, <1>7 DEF ReleasedSoFar, OnlyFrees, Working, Labels
<1>9. OffMain(p) => Free(m)'
  BY <1>1, <1>2, <1>7, FreeStays DEF ReleasedSoFar
<1> QED
  BY <1>3, <1>6, <1>8, <1>9 DEF Free

\* A failure that is logged takes its card out of what has to be free.
LEMMA ReleaseFails ==
  ASSUME Structure, NEW p \in Procs, Fails(p), ReleasedSoFar(p),
         disturbed'[p] = disturbed[p], Op(p) = "unbind" => OnlyFrees,
         proc[p].exit = "running"
  PROVE  ReleasedSoFar(p)'
<1> SUFFICES ASSUME Releasing(p)' PROVE ReleasedSoFar(p)'
  BY DEF ReleasedSoFar
<1>1. proc'[p].exit # "error"
  BY DEF Releasing
<1>2. /\ proc'[p].pc \in {"idle", "load", "clear"} /\ ~OffMain(p)'
      /\ Passed(p)' \subseteq Passed(p) /\ Op(p)' = Op(p)
      /\ proc[p].pc # "enumerate"
  BY <1>1, FailsFacts
<1>3. Releasing(p) /\ OnlyFrees
  BY <1>2 DEF Releasing
<1>4. Passed(p) \subseteq Functions
  BY SelectedFacts DEF Structure, ProcInv, Passed
<1>5. \A d \in Passed(p)' : Free(d)' /\ AuxFree(d)'
  BY <1>2, <1>3, <1>4, FreeStays, AuxFacts DEF ReleasedSoFar
<1> QED
  BY <1>2, <1>5 DEF ReleasedSoFar

LEMMA ReleaseStep ==
  ASSUME Structure, NEW p \in Procs, Step(p), ReleasedSoFar(p)
  PROVE  ReleasedSoFar(p)'
<1>0. Fails(p) => ReleasedSoFar(p)'
  BY ReleaseFails, UnbindFrees, StepFrame, StepOnward
<1> SUFFICES ASSUME Releasing(p)', ~Fails(p)
             PROVE  /\ \A d \in Selected(proc'[p].cmd) \
                               (proc'[p].todo \cup proc'[p].failed) :
                         Free(d)' /\ AuxFree(d)'
                    /\ proc'[p].pc \in {"stat", "readlink", "detach"} =>
                         override'[proc'[p].on] = None
                    /\ OffMain(p)' => Free(Main(p))'
  BY <1>0 DEF ReleasedSoFar, Passed
<1>1. /\ Onward(p) /\ disturbed'[p] = disturbed[p]
      /\ proc[p].exit = "running" /\ proc[p].cmd \in Commands
  BY StepOnward, StepFrame
<1>2. /\ Op(p) = "unbind"
      /\ proc'[p].cmd = proc[p].cmd
      /\ proc[p].pc # "enumerate" => Releasing(p)
  BY <1>1 DEF Releasing, Onward, Op
<1>3. OnlyFrees
  BY <1>2, UnbindFrees
<1>4. PICK m : m = Main(p)
  OBVIOUS
<1>5. PICK sel \in SUBSET Functions : sel = Selected(proc[p].cmd)
  BY <1>1, SelectedFacts
<1>d. PICK done \in SUBSET Functions :
        done = sel \ (proc[p].todo \cup proc[p].failed)
  OBVIOUS
<1>6. proc[p].pc \in Working =>
        /\ m \in Functions /\ m \in Devices /\ m \in proc[p].todo
        /\ proc[p].on \in Devices
        /\ \A d \in done : Free(d)' /\ AuxFree(d)'
        /\ proc[p].pc \in {"stat", "readlink", "detach"} =>
             override'[proc[p].on] = None
        /\ OffMain(p) => Free(m)'
  <2> SUFFICES ASSUME proc[p].pc \in Working
               PROVE  /\ m \in Functions /\ m \in Devices /\ m \in proc[p].todo
                      /\ proc[p].on \in Devices
                      /\ \A d \in done : Free(d)' /\ AuxFree(d)'
                      /\ proc[p].pc \in {"stat", "readlink", "detach"} =>
                           override'[proc[p].on] = None
                      /\ OffMain(p) => Free(m)'
    OBVIOUS
  <2>1. /\ m \in Functions /\ m \in Devices /\ m \in proc[p].todo
        /\ proc[p].on \in Devices
    BY <1>4, WorkFacts
  <2>2. Releasing(p)
    BY <1>2 DEF Working
  <2>3. /\ \A d \in done : Free(d)' /\ AuxFree(d)'
        /\ OffMain(p) => Free(m)'
    BY <1>3, <1>4, <1>5, <1>d, <2>1, <2>2, FreeStays, AuxFacts
       DEF ReleasedSoFar, Passed
  <2>4. proc[p].pc \in {"stat", "readlink", "detach"} =>
          override'[proc[p].on] = None
    BY <1>3, <2>1, <2>2 DEF ReleasedSoFar, OnlyFrees
  <2> QED
    BY <2>1, <2>3, <2>4
\* Done with the card and its auxiliary device.
<1>7. ASSUME proc[p].pc \in Working, Passes(p), Free(m)', AuxFree(m)'
      PROVE  /\ \A d \in sel \ (proc'[p].todo \cup proc'[p].failed) :
                  Free(d)' /\ AuxFree(d)'
             /\ proc'[p].pc \notin {"stat", "readlink", "detach"}
             /\ ~OffMain(p)'
  BY <1>d, <1>4, <1>6, <1>7, PassesFacts
\* Still with the card.
<1>8. ASSUME proc[p].pc \in Working, NEW l \in Working, Turns(p, l)
      PROVE  /\ \A d \in sel \ (proc'[p].todo \cup proc'[p].failed) :
                  Free(d)' /\ AuxFree(d)'
             /\ proc'[p].on = proc[p].on /\ proc'[p].pc = l /\ Main(p)' = m
             /\ l # "aux" => (OffMain(p)' => Free(m)')
  BY <1>d, <1>4, <1>6, <1>8, TurnsFacts DEF Turns, OffMain, Working
<1>9. CASE Enumerate(p)
  BY <1>2, <1>9, EnumerateDoes DEF OffMain, Working
<1>10. ~LoadVariant(p) /\ ~SetOverride(p) /\ ~Attach(p)
  BY <1>2, OverrideDoes, AttachDoes DEF LoadVariant, Structure, ProcInv,
     Working, Labels
<1>11. CASE ClearOverride(p)
  <2>1. /\ proc[p].pc \in Working /\ Turns(p, "stat") /\ "stat" \in Working
        /\ override' = [override EXCEPT ![proc[p].on] = None]
    BY <1>11, ClearDoes DEF Working, Labels
  <2>2. override'[proc[p].on] = None
    BY <1>6, <2>1 DEF Structure, TypeOK
  <2> QED
    BY <1>2, <1>5, <1>8, <2>1, <2>2 DEF Free
<1>12. PICK t : t = proc[p].on
  OBVIOUS
\* unbind is done with the device the process is on, which is free.
<1>13. ASSUME proc[p].pc \in Working, Released(p), Free(t)'
       PROVE  /\ \A d \in sel \ (proc'[p].todo \cup proc'[p].failed) :
                  Free(d)' /\ AuxFree(d)'
              /\ proc'[p].pc \notin {"stat", "readlink", "detach"}
              /\ OffMain(p)' => Free(Main(p))'
  <2>1. CASE OnMain(p) /\ Turns(p, "aux")
    <3>1. "aux" \in Working /\ t = m
      BY <1>4, <1>12, <2>1 DEF Working, Labels, OnMain
    <3>2. Main(p)' = m
      BY <1>8, <1>13, <2>1, <3>1
    <3> QED
      BY <1>8, <1>13, <2>1, <3>1, <3>2 DEF Free
  <2>2. CASE ~OnMain(p) /\ Passes(p)
    <3>1. t = AuxOf(m) /\ Free(m)'
      BY <1>4, <1>6, <1>12, <1>13, <2>2, WorkFacts DEF OffMain
    <3>2. AuxFree(m)'
      BY <1>13, <3>1 DEF AuxFree
    <3> QED
      BY <1>7, <1>13, <2>2, <3>1, <3>2
  <2> QED
    BY <1>2, <1>13, <2>1, <2>2 DEF Released
<1>14. CASE StatDriver(p)
  <2>1. /\ proc[p].pc \in Working /\ proc[p].pc = "stat" /\ driver' = driver
        /\ \/ driver[t] # None /\ Turns(p, "readlink")
           \/ driver[t] = None /\ Released(p)
    BY <1>12, <1>14, StatDoes
  <2>2. CASE Turns(p, "readlink")
    <3>1. "readlink" \in Working
      BY DEF Working, Labels
    <3>2. override'[proc'[p].on] = None /\ Main(p)' = m
      BY <1>6, <1>8, <2>1, <2>2, <3>1
    <3> QED
      BY <1>2, <1>5, <1>8, <2>1, <2>2, <3>1, <3>2 DEF Free
  <2>3. CASE driver[t] = None /\ Released(p)
    <3>1. Free(t)'
      BY <1>6, <1>12, <2>1, <2>3 DEF Free
    <3> QED
      BY <1>2, <1>5, <1>13, <2>1, <2>3, <3>1
  <2> QED
    BY <2>1, <2>2, <2>3
<1>15. CASE ReadDriverLink(p)
  <2>1. /\ proc[p].pc \in Working /\ proc[p].pc = "readlink"
        /\ Turns(p, "detach") /\ "detach" \in Working
    BY <1>15, ReadDoes DEF Working, Labels
  <2>2. override'[proc'[p].on] = None /\ Main(p)' = m
    BY <1>6, <1>8, <2>1
  <2> QED
    BY <1>2, <1>5, <1>8, <2>1, <2>2 DEF Free
<1>16. CASE Detach(p)
  <2>1. /\ proc[p].pc \in Working /\ proc[p].pc = "detach" /\ Released(p)
        /\ driver' = [driver EXCEPT ![t] = None]
    BY <1>12, <1>16, DetachDoes
  <2>2. Free(t)'
    BY <1>6, <1>12, <2>1 DEF Free, Structure, TypeOK
  <2> QED
    BY <1>2, <1>5, <1>13, <2>1, <2>2
<1>17. CASE FindAux(p)
  <2>1. /\ proc[p].pc \in Working /\ proc[p].pc = "aux" /\ Free(m)'
    BY <1>6, <1>17, AuxDoes DEF OffMain
  <2>2. CASE AuxOf(m) = None /\ Passes(p)
    <3>1. AuxFree(m)'
      BY <2>2 DEF AuxFree
    <3> QED
      BY <1>2, <1>5, <1>7, <2>1, <2>2, <3>1
  <2>3. CASE /\ proc'[p].todo = proc[p].todo /\ proc'[p].pc = "clear"
             /\ proc'[p].failed = proc[p].failed
    <3>1. Main(p)' = m
      BY <1>4, <2>3 DEF Main
    <3> QED
      BY <1>d, <1>2, <1>5, <1>6, <2>1, <2>3, <3>1 DEF Free
  <2> QED
    BY <1>2, <1>4, <1>17, <2>2, <2>3, AuxDoes
<1> QED
  BY <1>9, <1>10, <1>11, <1>14, <1>15, <1>16, <1>17 DEF Step

LEMMA ReleaseNext == ReleaseInv /\ [Next]_vars => ReleaseInv'
<1> SUFFICES ASSUME ReleaseInv, [Next]_vars PROVE ReleaseInv'
  OBVIOUS
<1>1. Structure /\ Structure' /\ \A p \in Procs : ReleasedSoFar(p)
  BY StructureNext DEF ReleaseInv
<1>2. ASSUME UNCHANGED <<driver, override, disturbed>>,
             NEW p \in Procs, proc'[p] = proc[p]
      PROVE  ReleasedSoFar(p)'
  BY <1>1, <1>2, ReleaseFrame DEF OnlyFrees
<1>3. CASE UNCHANGED vars
  BY <1>1, <1>2, <1>3 DEF vars, sysfs, ReleaseInv
<1>4. ASSUME NEW q \in Procs, NEW c \in Commands, Begin(q, c)
      PROVE  \A p \in Procs : ReleasedSoFar(p)'
  <2>1. BeginsAfresh(q)
    BY <1>1, <1>4, BeginDoes
  <2>2. ReleasedSoFar(q)'
    BY <2>1 DEF ReleasedSoFar, Releasing, BeginsAfresh
  <2>3. \A p \in Procs \ {q} : ReleasedSoFar(p)'
    BY <1>1, <2>1, ReleaseFrame DEF OnlyFrees, BeginsAfresh
  <2> QED
    BY <2>2, <2>3
<1>5. ASSUME NEW q \in Procs, Step(q)
      PROVE  \A p \in Procs : ReleasedSoFar(p)'
  <2>1. ReleasedSoFar(q)'
    BY <1>1, <1>5, ReleaseStep
  <2>2. ASSUME NEW p \in Procs \ {q}
        PROVE  ReleasedSoFar(p)'
    <3>1. /\ proc'[p] = proc[p]
          /\ \/ UNCHANGED <<driver, override>> /\ disturbed'[p] = disturbed[p]
             \/ disturbed'[p] = disturbed[p] \cup {Op(q)}
      BY <1>1, <1>5, StepFrame
    <3>2. disturbed'[p] \subseteq {"unbind"} =>
            disturbed[p] \subseteq {"unbind"} /\ OnlyFrees
      BY <1>1, <1>5, <3>1, UnbindFrees DEF OnlyFrees
    <3> QED
      BY <1>1, <3>1, <3>2, ReleaseFrame
  <2> QED
    BY <2>1, <2>2
<1>6. ASSUME NEW q \in Procs, Fault(q) \/ Kill(q)
      PROVE  \A p \in Procs : ReleasedSoFar(p)'
  <2>1. /\ proc \in [Procs -> Process]
        /\ UNCHANGED <<driver, override, disturbed>>
        /\ Becomes(q, DeviceFails(q)) \/ Becomes(q, Ended(q, "killed"))
    BY <1>1, <1>6 DEF Fault, Kill, sysfs, Structure, TypeOK
  <2>2. \A p \in Procs \ {q} : proc'[p] = proc[p]
    BY <2>1, Moves
  <2>3. proc[q].pc # "idle" /\ proc[q].exit = "running"
    BY <1>1, <1>6 DEF Fault, Kill, Structure, ProcInv
  <2>4. ASSUME Becomes(q, DeviceFails(q)) PROVE ReleasedSoFar(q)'
    <3>1. Fails(q) /\ OnlyFrees /\ disturbed'[q] = disturbed[q]
      BY <1>1, <2>1, <2>3, <2>4, FailsOn DEF OnlyFrees
    <3> QED
      BY <1>1, <2>3, <3>1, ReleaseFails
  <2>5. ASSUME proc'[q].exit = "killed" PROVE ReleasedSoFar(q)'
    BY <2>5 DEF ReleasedSoFar, Releasing
  <2>6. ReleasedSoFar(q)'
    BY <2>1, <2>4, <2>5, Moves, EndedShape DEF Statuses
  <2>7. \A p \in Procs \ {q} : ReleasedSoFar(p)'
    BY <1>2, <2>1, <2>2
  <2> QED
    BY <2>6, <2>7
<1>7. ASSUME NativeProbe, NEW p \in Procs
      PROVE  ReleasedSoFar(p)'
  <2>1. "probe" \in disturbed'[p]
    BY <1>7 DEF NativeProbe
  <2> QED
    BY <2>1 DEF ReleasedSoFar, Releasing
<1> QED
  BY <1>1, <1>3, <1>4, <1>5, <1>6, <1>7 DEF Next, ReleaseInv

\* An unbind that returned no error has freed every device it names, and its
\* auxiliary device, but those whose failure it logged, whatever killed or
\* failed commands had left on them and however many other processes release
\* devices at the same time.
THEOREM ReleasesAll == Spec => []UnbindReleases
<1>1. Init => ReleaseInv
  <2>1. ASSUME Init PROVE \A p \in Procs : ReleasedSoFar(p)
    BY <2>1 DEF Init, Idle, ReleasedSoFar, Releasing
  <2> QED
    BY <2>1, StructureInit DEF ReleaseInv
<1>2. ReleaseInv => UnbindReleases
  <2> SUFFICES ASSUME ReleaseInv, NEW p \in Procs, Succeeded(p, "unbind"),
                      disturbed[p] \subseteq {"unbind"},
                      proc[p].cmd.dev \notin Switches,
                      NEW d \in WithAux(Named(proc[p].cmd) \ proc[p].failed)
               PROVE  Free(d)
    BY DEF UnbindReleases
  <2>1. /\ proc[p].pc = "idle" /\ proc[p].todo = {} /\ proc[p].cmd \in Commands
        /\ Releasing(p)
    BY DEF Succeeded, ReleaseInv, Structure, ProcInv, Working, Releasing
  <2>2. \A e \in Selected(proc[p].cmd) \ proc[p].failed :
          Free(e) /\ AuxFree(e)
    BY <2>1 DEF ReleaseInv, ReleasedSoFar, Passed
  <2>3. proc[p].cmd.dev # All => proc[p].cmd.dev \in Gpus
    BY <2>1, SelectedFacts, DevicesAssumption
  <2>4. \E e \in Selected(proc[p].cmd) \ proc[p].failed :
          d = e \/ (d = AuxOf(e) /\ d # None)
    BY <2>3 DEF WithAux, Named, Selected
  <2> QED
    BY <2>2, <2>4 DEF AuxFree
<1> QED
  BY <1>1, <1>2, ReleaseNext, PTL DEF Spec

-----------------------------------------------------------------------------
(* A bind that returns no error, and that nobody disturbs.                 *)

Taking(p) ==
  /\ proc[p].exit \in {"running", "ok"} /\ Op(p) = "bind"
  /\ disturbed[p] = {} /\ proc[p].pc # "enumerate"

Taken(d) == /\ driver[d] = Variant[d]
            /\ AuxOf(d) # None => driver[AuxOf(d)] = Variant[d]

\* What a bind has passed is bound, with its auxiliary device; what is still
\* ahead has the driver it was enumerated with, which is what lets the bind
\* leave a device alone that has the right one.
TakenSoFar(p) ==
  Taking(p) =>
    /\ \A d \in Passed(p) : Taken(d)
    /\ \A d \in proc[p].todo :
         d # Main(p) \/ proc[p].pc = "load" => driver[d] = proc[p].snap[d]
    /\ OffMain(p) => driver[Main(p)] = Variant[Main(p)]

TakeInv == Structure /\ \A p \in Procs : TakenSoFar(p)

\* A step of a process at one card leaves the other cards alone, and the card
\* itself once it is at the auxiliary device.
LEMMA OtherCards ==
  ASSUME Structure, NEW p \in Procs, Step(p), proc[p].pc \in Working
  PROVE  /\ \A d \in Functions \ {Main(p)} :
              \A t \in {d, AuxOf(d)} \ {None} :
                driver'[t] = driver[t] /\ override'[t] = override[t]
         /\ ~OnMain(p) => /\ driver'[Main(p)] = driver[Main(p)]
                          /\ override'[Main(p)] = override[Main(p)]
<1>1. /\ Main(p) \in Functions /\ Main(p) \in Devices
      /\ OnMain(p) => proc[p].on = Main(p)
      /\ ~OnMain(p) => proc[p].on = AuxOf(Main(p))
  BY WorkFacts
<1>2. ASSUME NEW d \in Functions \ {Main(p)},
             NEW t \in {d, AuxOf(d)} \ {None}
      PROVE  t \in Devices /\ t # proc[p].on
  BY <1>1, AuxFacts
<1>3. ~OnMain(p) => Main(p) # proc[p].on
  BY <1>1 DEF OnMain
<1> QED
  BY <1>1, <1>2, <1>3, StepChanges

LEMMA TakeFrame ==
  ASSUME NEW p \in Procs, proc'[p] = proc[p], TakenSoFar(p),
         disturbed'[p] = {} => disturbed[p] = {} /\ UNCHANGED driver
  PROVE  TakenSoFar(p)'
<1>1. /\ Main(p)' = Main(p) /\ (OffMain(p)' <=> OffMain(p)) /\ Op(p)' = Op(p)
  BY DEF Main, OffMain, OnMain, Op
<1> QED
  BY <1>1 DEF TakenSoFar, Taking, Taken, Passed

\* A failure that is logged takes its card out of what has to be bound.
LEMMA TakeFails ==
  ASSUME Structure, NEW p \in Procs, Fails(p), TakenSoFar(p),
         disturbed'[p] = disturbed[p], proc[p].exit = "running",
         proc[p].pc \in Working =>
           \A d \in Functions \ {Main(p)} : \A t \in {d, AuxOf(d)} \ {None} :
             driver'[t] = driver[t]
  PROVE  TakenSoFar(p)'
<1> SUFFICES ASSUME Taking(p)' PROVE TakenSoFar(p)'
  BY DEF TakenSoFar
<1>1. proc'[p].exit # "error"
  BY DEF Taking
<1>2. PICK m : m = Main(p)
  OBVIOUS
<1>3. /\ proc'[p].todo = proc[p].todo \ {m} /\ ~OffMain(p)'
      /\ proc'[p].todo # {} => proc'[p].snap = proc[p].snap
      /\ Passed(p)' = Passed(p) \ {m} /\ Op(p)' = Op(p)
      /\ proc[p].pc # "enumerate"
  BY <1>1, <1>2, FailsFacts DEF Passed
<1>4. Taking(p)
  BY <1>3 DEF Taking
<1>5. proc[p].pc \in Working /\ proc[p].todo \subseteq Functions
  BY <1>3 DEF Structure, TypeOK, Process, ProcInv, Working
<1>6. Passed(p) \subseteq Functions
  BY SelectedFacts DEF Structure, ProcInv, Passed
<1>7. \A d \in Functions \ {m} :
        driver'[d] = driver[d] /\ (Taken(d) => Taken(d)')
  BY <1>2, <1>5, AuxFacts DEF Taken
<1>8. /\ \A d \in Passed(p) : Taken(d)
      /\ \A d \in proc[p].todo \ {m} : driver[d] = proc[p].snap[d]
  BY <1>2, <1>4 DEF TakenSoFar
<1> QED
  BY <1>3, <1>5, <1>6, <1>7, <1>8 DEF TakenSoFar

LEMMA TakeStep ==
  ASSUME Structure, NEW p \in Procs, Step(p), TakenSoFar(p)
  PROVE  TakenSoFar(p)'
<1>0. Fails(p) => TakenSoFar(p)'
  BY TakeFails, OtherCards, StepFrame, StepOnward
<1> SUFFICES ASSUME Taking(p)', ~Fails(p)
             PROVE  /\ \A d \in Selected(proc'[p].cmd) \
                               (proc'[p].todo \cup proc'[p].failed) :
                         Taken(d)'
                    /\ \A d \in proc'[p].todo :
                         d # Main(p)' \/ proc'[p].pc = "load" =>
                           driver'[d] = proc'[p].snap[d]
                    /\ OffMain(p)' => driver'[Main(p)'] = Variant[Main(p)']
  BY <1>0 DEF TakenSoFar, Passed
<1>1. /\ Onward(p) /\ disturbed'[p] = disturbed[p]
      /\ proc[p].exit = "running" /\ proc[p].cmd \in Commands
  BY StepOnward, StepFrame
<1>2. /\ Op(p) = "bind"
      /\ proc'[p].cmd = proc[p].cmd
      /\ proc[p].pc # "enumerate" => Taking(p)
  BY <1>1 DEF Taking, Onward, Op
<1>3. PICK m : m = Main(p)
  OBVIOUS
<1>4. PICK t : t = proc[p].on
  OBVIOUS
<1>5. PICK sel \in SUBSET Functions : sel = Selected(proc[p].cmd)
  BY <1>1, SelectedFacts
<1>d. PICK done \in SUBSET Functions :
        done = sel \ (proc[p].todo \cup proc[p].failed)
  OBVIOUS
<1>6. proc[p].pc \in Working =>
        /\ m \in Functions /\ m \in Devices /\ m \in proc[p].todo
        /\ t \in Devices /\ (t = m <=> OnMain(p))
        /\ t # m => t = AuxOf(m)
        /\ \A d \in done : Taken(d)'
        /\ \A d \in proc[p].todo \ {m} : driver'[d] = proc[p].snap[d]
        /\ proc[p].todo \subseteq Functions
        /\ OffMain(p) /\ driver'[m] = driver[m] => driver'[m] = Variant[m]
  <2> SUFFICES ASSUME proc[p].pc \in Working
               PROVE  /\ m \in Functions /\ m \in Devices /\ m \in proc[p].todo
                      /\ t \in Devices /\ (t = m <=> OnMain(p))
                      /\ t # m => t = AuxOf(m)
                      /\ \A d \in done : Taken(d)'
                      /\ \A d \in proc[p].todo \ {m} :
                           driver'[d] = proc[p].snap[d]
                      /\ proc[p].todo \subseteq Functions
                      /\ OffMain(p) /\ driver'[m] = driver[m] =>
                           driver'[m] = Variant[m]
    OBVIOUS
  <2>1. /\ m \in Functions /\ m \in Devices /\ m \in proc[p].todo
        /\ t \in Devices /\ (t = m <=> OnMain(p))
        /\ t # m => t = AuxOf(m)
    BY <1>3, <1>4, WorkFacts DEF OnMain
  <2>2. Taking(p) /\ proc[p].todo \subseteq Functions
    BY <1>2 DEF Working, Structure, TypeOK, Process
  <2>3. \A d \in done : d # m /\ Taken(d)
    BY <1>5, <1>d, <2>1, <2>2 DEF TakenSoFar, Passed
  <2>4. \A d \in Functions \ {m} : \A s \in {d, AuxOf(d)} \ {None} :
          driver'[s] = driver[s]
    BY <1>3, OtherCards
  <2>5. \A d \in Functions \ {m} :
          driver'[d] = driver[d] /\ (Taken(d) => Taken(d)')
    BY <2>4, AuxFacts DEF Taken
  <2>6. \A d \in proc[p].todo \ {m} : driver[d] = proc[p].snap[d]
    BY <1>3, <2>2 DEF TakenSoFar
  <2>7. OffMain(p) => driver[m] = Variant[m]
    BY <1>3, <2>2 DEF TakenSoFar
  <2> QED
    BY <2>1, <2>2, <2>3, <2>5, <2>6, <2>7
<1>7. ASSUME proc[p].pc \in Working, Passes(p), Taken(m)'
      PROVE  /\ \A d \in sel \ (proc'[p].todo \cup proc'[p].failed) :
                  Taken(d)'
             /\ \A d \in proc'[p].todo : driver'[d] = proc'[p].snap[d]
             /\ ~OffMain(p)'
  <2>1. /\ proc'[p].todo = proc[p].todo \ {m} /\ ~OffMain(p)'
        /\ proc'[p].failed = proc[p].failed
    BY <1>3, <1>7, PassesFacts
  <2>2. proc'[p].todo # {} => proc'[p].snap = proc[p].snap
    BY <1>7 DEF Passes, GoesOn
  <2> QED
    BY <1>d, <1>6, <1>7, <2>1, <2>2
<1>8. ASSUME proc[p].pc \in Working, NEW l \in Working \ {"load"}, Turns(p, l),
             l = "aux" \/ OffMain(p) => driver'[m] = Variant[m]
      PROVE  /\ \A d \in sel \ (proc'[p].todo \cup proc'[p].failed) :
                  Taken(d)'
             /\ \A d \in proc'[p].todo :
                  d # Main(p)' \/ proc'[p].pc = "load" =>
                    driver'[d] = proc'[p].snap[d]
             /\ OffMain(p)' => driver'[Main(p)'] = Variant[Main(p)']
  <2>1. /\ Main(p)' = m /\ proc'[p].todo = proc[p].todo /\ proc'[p].pc = l
        /\ proc'[p].snap = proc[p].snap /\ proc'[p].failed = proc[p].failed
        /\ OffMain(p)' => l = "aux" \/ OffMain(p)
    BY <1>3, <1>8, TurnsFacts DEF Turns, OffMain
  <2> QED
    BY <1>d, <1>6, <1>8, <2>1
<1>9. CASE Enumerate(p)
  BY <1>2, <1>9, EnumerateDoes DEF OffMain, Working
<1>10. CASE LoadVariant(p)
  <2>1. /\ proc[p].pc \in Working /\ proc[p].pc = "load" /\ driver' = driver
        /\ Turns(p, IF proc[p].snap[m] = Variant[m] THEN "aux" ELSE "clear")
        /\ "aux" \in Working /\ "clear" \in Working
    BY <1>3, <1>10, LoadDoes DEF Working, Labels
  <2>2. driver[m] = proc[p].snap[m] /\ OnMain(p)
    BY <1>2, <1>3, <1>6, <2>1 DEF TakenSoFar, Structure, ProcInv
  <2>3. ~OffMain(p)
    BY <2>1, <2>2 DEF OffMain
  <2>4. PICK l \in {"aux", "clear"} :
          Turns(p, l) /\ (l = "aux" => driver'[m] = Variant[m])
    BY <2>1, <2>2
  <2> QED
    BY <1>2, <1>5, <1>8, <2>1, <2>3, <2>4
<1>11. ASSUME UNCHANGED driver, proc[p].pc \in Working \ {"aux"},
              NEW l \in Working \ {"load", "aux"}, Turns(p, l)
       PROVE  /\ \A d \in sel \ (proc'[p].todo \cup proc'[p].failed) :
                  Taken(d)'
              /\ \A d \in proc'[p].todo :
                   d # Main(p)' \/ proc'[p].pc = "load" =>
                     driver'[d] = proc'[p].snap[d]
              /\ OffMain(p)' => driver'[Main(p)'] = Variant[Main(p)']
  BY <1>6, <1>8, <1>11
<1>12. CASE ClearOverride(p)
  <2>1. /\ proc[p].pc \in Working \ {"aux"} /\ Turns(p, "stat")
        /\ "stat" \in Working \ {"load", "aux"} /\ UNCHANGED driver
    BY <1>12, ClearDoes DEF Working, Labels
  <2> QED
    BY <1>2, <1>5, <1>11, <2>1
<1>13. CASE StatDriver(p)
  <2>1. /\ proc[p].pc \in Working \ {"aux"} /\ UNCHANGED driver
        /\ Turns(p, "readlink") \/ Turns(p, "override")
        /\ "readlink" \in Working \ {"load", "aux"}
        /\ "override" \in Working \ {"load", "aux"}
    BY <1>2, <1>13, StatDoes DEF Working, Labels, Released
  <2>2. PICK l \in Working \ {"load", "aux"} : Turns(p, l)
    BY <2>1
  <2> QED
    BY <1>2, <1>5, <1>11, <2>1, <2>2
<1>14. CASE ReadDriverLink(p)
  <2>1. /\ proc[p].pc \in Working \ {"aux"} /\ UNCHANGED driver
        /\ Turns(p, "detach") /\ "detach" \in Working \ {"load", "aux"}
    BY <1>2, <1>14, ReadDoes DEF Working, Labels
  <2> QED
    BY <1>2, <1>5, <1>11, <2>1
<1>15. CASE Detach(p)
  <2>1. /\ proc[p].pc \in Working /\ proc[p].pc # "aux"
        /\ Turns(p, "override") /\ "override" \in Working \ {"load"}
    BY <1>2, <1>15, DetachDoes DEF Working, Labels, Released
  <2>2. OffMain(p) => driver'[m] = Variant[m]
    BY <1>3, <1>6, <1>15, <2>1, OtherCards DEF OffMain
  <2> QED
    BY <1>2, <1>5, <1>8, <2>1, <2>2
<1>16. CASE SetOverride(p)
  <2>1. /\ proc[p].pc \in Working \ {"aux"} /\ UNCHANGED driver
        /\ Turns(p, "attach") /\ "attach" \in Working \ {"load", "aux"}
    BY <1>16, OverrideDoes DEF Working, Labels
  <2> QED
    BY <1>2, <1>5, <1>11, <2>1
<1>17. CASE Attach(p)
  <2>1. /\ proc[p].pc \in Working /\ proc[p].pc # "aux"
        /\ driver' = [driver EXCEPT ![t] = Variant[m]]
        /\ \/ OnMain(p) /\ Turns(p, "aux")
           \/ ~OnMain(p) /\ Passes(p)
        /\ "aux" \in Working \ {"load"}
    BY <1>2, <1>3, <1>4, <1>17, AttachDoes DEF Working, Labels
  <2>2. driver'[t] = Variant[m]
    BY <1>6, <2>1 DEF Structure, TypeOK
  <2>3. CASE OnMain(p) /\ Turns(p, "aux")
    BY <1>2, <1>5, <1>6, <1>8, <2>1, <2>2, <2>3
  <2>4. CASE ~OnMain(p) /\ Passes(p)
    <3>1. driver'[m] = Variant[m] /\ t = AuxOf(m)
      BY <1>3, <1>6, <1>17, <2>1, <2>4, OtherCards DEF OffMain
    <3>2. Taken(m)'
      BY <2>2, <3>1 DEF Taken
    <3> QED
      BY <1>2, <1>5, <1>7, <2>1, <2>4, <3>2
  <2> QED
    BY <2>1, <2>3, <2>4
<1>18. CASE FindAux(p)
  <2>1. /\ proc[p].pc \in Working /\ proc[p].pc = "aux" /\ UNCHANGED driver
    BY <1>18, AuxDoes
  <2>2. driver'[m] = Variant[m]
    BY <1>6, <2>1 DEF OffMain
  <2>3. CASE /\ AuxOf(m) # None => driver[AuxOf(m)] = Variant[m]
             /\ Passes(p)
    <3>1. Taken(m)'
      BY <2>1, <2>2, <2>3 DEF Taken
    <3> QED
      BY <1>2, <1>5, <1>7, <2>1, <2>3, <3>1
  <2>4. CASE /\ proc'[p].todo = proc[p].todo /\ proc'[p].pc = "clear"
             /\ proc'[p].snap = proc[p].snap
             /\ proc'[p].failed = proc[p].failed
    <3>1. Main(p)' = m
      BY <1>3, <2>4 DEF Main
    <3> QED
      BY <1>2, <1>5, <1>d, <1>6, <2>1, <2>2, <2>4, <3>1
  <2> QED
    BY <1>2, <1>3, <1>18, <2>3, <2>4, AuxDoes
<1> QED
  BY <1>9, <1>10, <1>12, <1>13, <1>14, <1>15, <1>16, <1>17, <1>18 DEF Step

LEMMA TakeNext == TakeInv /\ [Next]_vars => TakeInv'
<1> SUFFICES ASSUME TakeInv, [Next]_vars PROVE TakeInv'
  OBVIOUS
<1>1. Structure /\ Structure' /\ \A p \in Procs : TakenSoFar(p)
  BY StructureNext DEF TakeInv
<1>2. CASE UNCHANGED vars
  BY <1>1, <1>2, TakeFrame DEF vars, sysfs, TakeInv
<1>3. ASSUME NEW q \in Procs, NEW c \in Commands, Begin(q, c)
      PROVE  \A p \in Procs : TakenSoFar(p)'
  <2>1. BeginsAfresh(q)
    BY <1>1, <1>3, BeginDoes
  <2>2. TakenSoFar(q)'
    BY <2>1 DEF TakenSoFar, Taking, BeginsAfresh
  <2>3. \A p \in Procs \ {q} : TakenSoFar(p)'
    BY <1>1, <2>1, TakeFrame DEF BeginsAfresh
  <2> QED
    BY <2>2, <2>3
<1>4. ASSUME NEW q \in Procs, Step(q)
      PROVE  \A p \in Procs : TakenSoFar(p)'
  <2>1. TakenSoFar(q)'
    BY <1>1, <1>4, TakeStep
  <2>2. ASSUME NEW p \in Procs \ {q}
        PROVE  TakenSoFar(p)'
    BY <1>1, <1>4, StepFrame, TakeFrame
  <2> QED
    BY <2>1, <2>2
<1>5. ASSUME NEW q \in Procs, Fault(q) \/ Kill(q)
      PROVE  \A p \in Procs : TakenSoFar(p)'
  <2>1. /\ proc \in [Procs -> Process] /\ UNCHANGED <<driver, disturbed>>
        /\ Becomes(q, DeviceFails(q)) \/ Becomes(q, Ended(q, "killed"))
    BY <1>1, <1>5 DEF Fault, Kill, sysfs, Structure, TypeOK
  <2>2. \A p \in Procs \ {q} : proc'[p] = proc[p]
    BY <2>1, Moves
  <2>3. proc[q].pc # "idle" /\ proc[q].exit = "running"
    BY <1>1, <1>5 DEF Fault, Kill, Structure, ProcInv
  <2>4. ASSUME Becomes(q, DeviceFails(q)) PROVE TakenSoFar(q)'
    <3>1. Fails(q) /\ driver' = driver /\ disturbed'[q] = disturbed[q]
      BY <1>1, <2>1, <2>3, <2>4, FailsOn
    <3> QED
      BY <1>1, <2>3, <3>1, TakeFails
  <2>5. ASSUME proc'[q].exit = "killed" PROVE TakenSoFar(q)'
    BY <2>5 DEF TakenSoFar, Taking
  <2>6. TakenSoFar(q)'
    BY <2>1, <2>4, <2>5, Moves, EndedShape DEF Statuses
  <2>7. \A p \in Procs \ {q} : TakenSoFar(p)'
    BY <1>1, <2>1, <2>2, TakeFrame
  <2> QED
    BY <2>6, <2>7
<1>6. ASSUME NativeProbe, NEW p \in Procs
      PROVE  TakenSoFar(p)'
  <2>1. "probe" \in disturbed'[p]
    BY <1>6 DEF NativeProbe
  <2> QED
    BY <2>1 DEF TakenSoFar, Taking
<1> QED
  BY <1>1, <1>2, <1>3, <1>4, <1>5, <1>6 DEF Next, TakeInv

\* A bind that returned no error has bound every GPU it names but those whose
\* failure it logged, and the GPU's auxiliary device, to the driver chosen for
\* the GPU, unless another process or the native driver worked on devices since
\* it began.
THEOREM BindTakesAll == Spec => []BindTakes
<1>1. Init => TakeInv
  <2>1. ASSUME Init PROVE \A p \in Procs : TakenSoFar(p)
    BY <2>1 DEF Init, Idle, TakenSoFar, Taking
  <2> QED
    BY <2>1, StructureInit DEF TakeInv
<1>2. TakeInv => BindTakes
  <2> SUFFICES ASSUME TakeInv, NEW p \in Procs, Succeeded(p, "bind"),
                      disturbed[p] = {},
                      NEW d \in (Named(proc[p].cmd) \ proc[p].failed) \cap Gpus
               PROVE  Taken(d)
    BY DEF BindTakes, Taken
  <2>1. /\ proc[p].todo = {} /\ proc[p].cmd \in Commands /\ Taking(p)
    BY DEF Succeeded, TakeInv, Structure, ProcInv, Working, Taking
  <2>2. \A e \in Selected(proc[p].cmd) \ proc[p].failed : Taken(e)
    BY <2>1 DEF TakeInv, TakenSoFar, Passed
  <2>3. d \in Selected(proc[p].cmd)
    BY DevicesAssumption DEF Named, Selected
  <2> QED
    BY <2>2, <2>3
<1> QED
  BY <1>1, <1>2, TakeNext, PTL DEF Spec

-----------------------------------------------------------------------------
(* Releases that race.                                                     *)

Clean(q) ==
  /\ proc[q].exit \in {"running", "ok"} /\ proc[q].cmd \in Releases
  /\ disturbed[q] \subseteq {"unbind"}

\* Where a process may find that another one has detached the card, and give
\* up the card with its auxiliary device.
AtMainDriver(q) == OnMain(q) /\ proc[q].pc \in {"readlink", "detach"}

\* The cards whose auxiliary device a process will still see to.
Ahead(q) ==
  IF proc[q].pc = "enumerate" THEN Selected(proc[q].cmd)
  ELSE {d \in proc[q].todo : ~(d = Main(q) /\ AtMainDriver(q))}

\* A process that was killed or has failed owes everything: nothing has
\* converged before it has been started again.
Owes(q, d) == ~Clean(q) \/ (proc[q].exit = "running" /\ d \in Ahead(q))
AuxDue(d) == AuxFree(d) \/ \E q \in Procs : Owes(q, d)

\* What a release has passed is free; of the auxiliary device it may have
\* given up, somebody takes care.
UnbindingSoFar(p) ==
  Clean(p) /\ proc[p].pc # "enumerate" =>
    /\ \A d \in Selected(proc[p].cmd) \ proc[p].todo : Free(d) /\ AuxDue(d)
    /\ proc[p].pc \in {"stat", "readlink", "detach"} =>
         override[proc[p].on] = None
    /\ OffMain(p) => Free(Main(p))
    /\ AtMainDriver(p) /\ driver[Main(p)] = None => AuxDue(Main(p))

UnbindingInv ==
  Structure /\ (used["fault"] = 0 => \A p \in Procs : UnbindingSoFar(p))

LEMMA ReleaseFacts ==
  ASSUME NEW c \in Releases
  PROVE  /\ c \in Commands /\ c.op = "unbind" /\ c.dev = All
         /\ \A d \in Functions : AuxOf(d) # None => d \in Selected(c)
BY DevicesAssumption DEF Releases, AuxOf, Selected

LEMMA CleanStep ==
  ASSUME Structure, NEW p \in Procs, Step(p), Clean(p)'
  PROVE  /\ Clean(p) /\ proc[p].exit = "running" /\ Op(p) = "unbind"
         /\ proc[p].cmd.dev = All /\ proc'[p].exit # "error" /\ OnlyFrees
         /\ proc'[p].cmd = proc[p].cmd /\ proc'[p].pc # "enumerate"
<1>1. /\ Onward(p) /\ proc[p].exit = "running" /\ disturbed'[p] = disturbed[p]
  BY StepOnward, StepFrame
<1>2. Clean(p) /\ proc[p].cmd \in Releases
  BY <1>1 DEF Clean, Onward
<1>3. Op(p) = "unbind" /\ proc[p].cmd.dev = All
  BY <1>2, ReleaseFacts DEF Op
<1> QED
  BY <1>1, <1>2, <1>3, UnbindFrees DEF Clean, Onward

LEMMA OwesFrame ==
  ASSUME NEW q \in Procs, NEW d, proc'[q] = proc[q],
         disturbed[q] \subseteq disturbed'[q], Owes(q, d)
  PROVE  Owes(q, d)'
<1>1. Clean(q)' => Clean(q)
  BY DEF Clean
<1>2. Ahead(q)' = Ahead(q)
  BY DEF Ahead, AtMainDriver, OnMain, Main
<1> QED
  BY <1>1, <1>2 DEF Owes

\* A process that owes the auxiliary device of a card without a driver owes it
\* after its step too, or has freed it.
LEMMA OwesOn ==
  ASSUME Structure, NEW p \in Procs, Step(p), UnbindingSoFar(p), OnlyFrees,
         NEW d \in Functions, AuxOf(d) # None, driver[d] = None, Owes(p, d)
  PROVE  Owes(p, d)' \/ Free(AuxOf(d))'
<1> SUFFICES ASSUME Clean(p)'
             PROVE  (proc'[p].exit = "running" /\ d \in Ahead(p)')
                    \/ Free(AuxOf(d))'
  BY DEF Owes
<1>1. /\ Clean(p) /\ proc[p].exit = "running" /\ Op(p) = "unbind"
      /\ proc'[p].exit # "error"
  BY CleanStep
<1>2. d \in Ahead(p)
  BY <1>1 DEF Owes
<1>3. PICK a : a = AuxOf(d)
  OBVIOUS
<1>4. PICK m : m = Main(p)
  OBVIOUS
<1>5. PICK t : t = proc[p].on
  OBVIOUS
<1>6. proc[p].pc \in Working =>
        /\ t \in Devices /\ (t = m <=> OnMain(p)) /\ (t # m => t = AuxOf(m))
        /\ d \in proc[p].todo /\ ~(d = m /\ AtMainDriver(p))
  BY <1>2, <1>4, <1>5, WorkFacts DEF OnMain, Ahead, Working
<1>7. ASSUME NEW l, Turns(p, l), proc[p].pc \in Working, l # "enumerate",
             ~(d = m /\ t = m /\ l \in {"readlink", "detach"})
      PROVE  proc'[p].exit = "running" /\ d \in Ahead(p)'
  BY <1>1, <1>4, <1>6, <1>7, TurnsFacts DEF Turns, Ahead, AtMainDriver
<1>8. ASSUME GoesOn(p, proc'[p]), proc[p].pc \in Working, d # m
      PROVE  proc'[p].exit = "running" /\ d \in Ahead(p)'
  BY <1>1, <1>4, <1>6, <1>8 DEF GoesOn, Ahead, AtMainDriver
<1>9. ASSUME d = m, t # m, proc[p].pc \in Working, override[t] = None,
             driver[t] = None \/ driver'[t] = None
      PROVE  Free(AuxOf(d))'
  <2>1. t = a /\ t \in Devices
    BY <1>3, <1>6, <1>9
  <2>2. driver'[a] = None /\ override'[a] = None
    BY <1>9, <2>1 DEF OnlyFrees
  <2> QED
    BY <1>3, <2>2 DEF Free
<1>10. proc[p].pc \in {"stat", "readlink", "detach"} => override[t] = None
  BY <1>1, <1>5 DEF UnbindingSoFar
<1>11. CASE Enumerate(p)
  BY <1>1, <1>2, <1>11, EnumerateDoes DEF Ahead, AtMainDriver
<1>12. ~LoadVariant(p) /\ ~SetOverride(p) /\ ~Attach(p)
  BY <1>1, OverrideDoes, AttachDoes DEF LoadVariant, Structure, ProcInv,
     Working, Labels
<1>13. CASE ClearOverride(p)
  BY <1>7, <1>13, ClearDoes
<1>14. ASSUME Released(p), proc[p].pc \in {"stat", "detach"},
              driver[t] = None \/ driver'[t] = None
       PROVE  (proc'[p].exit = "running" /\ d \in Ahead(p)')
              \/ Free(AuxOf(d))'
  <2>1. proc[p].pc \in Working /\ override[t] = None
    BY <1>10, <1>14 DEF Working, Labels
  <2>2. CASE Turns(p, "aux")
    BY <1>7, <2>1, <2>2
  <2>3. CASE ~OnMain(p) /\ Passes(p)
    BY <1>6, <1>8, <1>9, <1>14, <2>1, <2>3 DEF Passes
  <2> QED
    BY <1>1, <1>14, <2>2, <2>3 DEF Released
<1>15. ASSUME Fails(p), proc[p].pc \in {"readlink", "detach"},
              driver[t] = None
       PROVE  (proc'[p].exit = "running" /\ d \in Ahead(p)')
              \/ Free(AuxOf(d))'
  <2>1. proc[p].pc \in Working /\ override[t] = None
    BY <1>10, <1>15 DEF Working, Labels
  <2>2. GoesOn(p, proc'[p])
    BY <1>1, <1>15 DEF Fails, GivesUp
  <2> QED
    BY <1>6, <1>8, <1>9, <1>15, <2>1, <2>2 DEF AtMainDriver
<1>16. CASE StatDriver(p)
  <2>1. CASE driver[t] # None /\ Turns(p, "readlink")
    BY <1>7, <1>16, <2>1, StatDoes
  <2> QED
    BY <1>5, <1>14, <1>16, <2>1, StatDoes
<1>17. CASE ReadDriverLink(p)
  <2>1. CASE Turns(p, "detach")
    BY <1>6, <1>7, <1>17, <2>1, ReadDoes DEF AtMainDriver
  <2> QED
    BY <1>5, <1>15, <1>17, <2>1, ReadDoes
<1>18. CASE Detach(p)
  <2>1. proc[p].pc = "detach" /\ proc[p].pc \in Working
    BY <1>18, DetachDoes
  <2>2. CASE Released(p) /\ driver' = [driver EXCEPT ![t] = None]
    <3>1. driver'[t] = None
      BY <1>6, <2>1, <2>2 DEF Structure, TypeOK
    <3> QED
      BY <1>14, <2>1, <2>2, <3>1
  <2> QED
    BY <1>5, <1>15, <1>18, <2>1, <2>2, DetachDoes
<1>19. CASE FindAux(p)
  <2>1. proc[p].pc \in Working /\ proc[p].pc = "aux"
    BY <1>19, AuxDoes
  <2>2. CASE AuxOf(m) = None /\ Passes(p)
    BY <1>8, <2>1, <2>2 DEF Passes
  <2>3. CASE /\ proc'[p].todo = proc[p].todo /\ proc'[p].pc = "clear"
             /\ proc'[p].exit = proc[p].exit
    BY <1>1, <1>6, <2>1, <2>3 DEF Ahead, AtMainDriver
  <2> QED
    BY <1>1, <1>4, <1>19, <2>2, <2>3, AuxDoes
<1> QED
  BY <1>11, <1>12, <1>13, <1>16, <1>17, <1>18, <1>19 DEF Step

\* A process that has just freed a card owes its auxiliary device.
LEMMA OwesOnceFreed ==
  ASSUME Structure, NEW p \in Procs, Step(p), NEW d \in Functions,
         driver[d] # None, driver'[d] = None
  PROVE  Owes(p, d)'
<1> SUFFICES ASSUME Clean(p)'
             PROVE  proc'[p].exit = "running" /\ d \in Ahead(p)'
  BY DEF Owes
<1>1. /\ proc[p].exit = "running" /\ Op(p) = "unbind"
  BY CleanStep
<1>2. proc[p].pc \in Working /\ d = proc[p].on
  BY StepChanges, AuxFacts
<1>3. d = Main(p) /\ d \in proc[p].todo /\ OnMain(p)
  BY <1>2, WorkFacts, AuxFacts DEF OnMain
<1>4. Detach(p)
  BY <1>1, <1>2, AttachDoes DEF Step, Enumerate, LoadVariant, ClearOverride,
     StatDriver, ReadDriverLink, SetOverride, FindAux, sysfs
<1>5. Released(p)
  BY <1>2, <1>4, DetachDoes
<1>6. Turns(p, "aux")
  BY <1>1, <1>3, <1>5 DEF Released
<1> QED
  BY <1>1, <1>3, <1>6 DEF Turns, Ahead, AtMainDriver

\* The auxiliary device of a card without a driver is free or will be seen to.
LEMMA DueOn ==
  ASSUME Structure, \A r \in Procs : UnbindingSoFar(r), NEW q \in Procs,
         Step(q) \/ Kill(q) \/ (\E c \in Commands : Begin(q, c)), OnlyFrees,
         NEW d \in Functions, driver'[d] = None, driver[d] = None => AuxDue(d)
  PROVE  AuxDue(d)'
<1>1. CASE AuxFree(d)
  BY <1>1, FreeStays DEF AuxDue
<1>2. CASE driver[d] # None
  <2>1. Step(q)
    BY <1>2 DEF Kill, Begin, sysfs
  <2> QED
    BY <1>2, <2>1, OwesOnceFreed DEF AuxDue
<1>3. CASE driver[d] = None /\ ~AuxFree(d)
  <2>1. AuxOf(d) # None
    BY <1>3 DEF AuxFree
  <2>2. PICK r \in Procs : Owes(r, d)
    BY <1>3 DEF AuxDue
  <2>3. CASE Step(q)
    <3>1. CASE r = q
      <4>1. Owes(q, d)' \/ Free(AuxOf(d))'
        BY <1>3, <2>1, <2>2, <2>3, <3>1, OwesOn
      <4> QED
        BY <4>1 DEF AuxDue, AuxFree
    <3>2. CASE r # q
      <4>1. proc'[r] = proc[r] /\ disturbed[r] \subseteq disturbed'[r]
        BY <2>3, <3>2, StepFrame
      <4>2. Owes(r, d)'
        BY <2>2, <4>1, OwesFrame
      <4> QED
        BY <4>2 DEF AuxDue
    <3> QED
      BY <3>1, <3>2
  <2>4. CASE Kill(q)
    <3>1. proc'[q].exit = "killed" /\ \A s \in Procs \ {q} : proc'[s] = proc[s]
      BY <2>4, Moves, EndedShape DEF Kill, Structure, TypeOK, Statuses
    <3>2. disturbed' = disturbed
      BY <2>4 DEF Kill
    <3>3. Owes(r, d)'
      BY <2>2, <3>1, <3>2, OwesFrame DEF Owes, Clean
    <3> QED
      BY <3>3 DEF AuxDue
  <2>5. CASE \E c \in Commands : Begin(q, c)
    <3>1. BeginsAfresh(q)
      BY <2>5, BeginDoes
    <3>2. CASE r = q
      <4>1. Clean(q)' => d \in Selected(proc'[q].cmd)
        BY <2>1, ReleaseFacts DEF Clean
      <4>2. Owes(q, d)'
        BY <3>1, <4>1 DEF Owes, Ahead, BeginsAfresh
      <4> QED
        BY <4>2 DEF AuxDue
    <3>3. CASE r # q
      <4>1. Owes(r, d)'
        BY <2>2, <3>1, <3>3, OwesFrame DEF BeginsAfresh
      <4> QED
        BY <4>1 DEF AuxDue
    <3> QED
      BY <3>2, <3>3
  <2> QED
    BY <2>3, <2>4, <2>5
<1> QED
  BY <1>1, <1>2, <1>3

LEMMA UnbindingFrame ==
  ASSUME Structure, NEW p \in Procs, proc'[p] = proc[p], UnbindingSoFar(p),
         disturbed'[p] \subseteq {"unbind"} =>
           /\ disturbed[p] \subseteq {"unbind"} /\ OnlyFrees
           /\ \A d \in Functions :
                driver'[d] = None /\ (driver[d] = None => AuxDue(d))
                  => AuxDue(d)'
  PROVE  UnbindingSoFar(p)'
<1>1. PICK m : m = Main(p)
  OBVIOUS
<1>2. /\ Main(p)' = m /\ (OffMain(p)' <=> OffMain(p))
      /\ (AtMainDriver(p)' <=> AtMainDriver(p))
  BY <1>1 DEF Main, OffMain, OnMain, AtMainDriver
<1> SUFFICES ASSUME Clean(p)', proc[p].pc # "enumerate"
             PROVE  /\ \A d \in Selected(proc[p].cmd) \ proc[p].todo :
                         Free(d)' /\ AuxDue(d)'
                    /\ proc[p].pc \in {"stat", "readlink", "detach"} =>
                         override'[proc[p].on] = None
                    /\ OffMain(p) => Free(m)'
                    /\ AtMainDriver(p) /\ driver'[m] = None => AuxDue(m)'
  BY <1>2 DEF UnbindingSoFar, Free, AuxDue, AuxFree, Owes
<1>3. /\ Clean(p) /\ OnlyFrees
      /\ \A d \in Functions :
           driver'[d] = None /\ (driver[d] = None => AuxDue(d)) => AuxDue(d)'
  BY DEF Clean
<1>4. PICK sel \in SUBSET Functions : sel = Selected(proc[p].cmd)
  BY <1>3, ReleaseFacts, SelectedFacts DEF Clean
<1>5. proc[p].pc \in Working =>
        m \in Functions /\ m \in Devices /\ proc[p].on \in Devices
  BY <1>1, WorkFacts
<1>6. /\ proc[p].pc \in {"stat", "readlink", "detach"} =>
           proc[p].pc \in Working
      /\ OffMain(p) => proc[p].pc \in Working
      /\ AtMainDriver(p) => proc[p].pc \in Working
  BY DEF OffMain, AtMainDriver, Working, Labels
<1>7. \A d \in sel \ proc[p].todo : Free(d) /\ AuxDue(d)
  BY <1>3, <1>4 DEF UnbindingSoFar
<1>8. \A d \in sel \ proc[p].todo : Free(d)' /\ AuxDue(d)'
  <2> TAKE d \in sel \ proc[p].todo
  <2>1. Free(d)' /\ d \in Functions
    BY <1>3, <1>7, FreeStays, AuxFacts
  <2>2. driver'[d] = None
    BY <2>1 DEF Free
  <2> QED
    BY <1>3, <1>7, <2>1, <2>2
<1>9. proc[p].pc \in {"stat", "readlink", "detach"} =>
        override'[proc[p].on] = None
  BY <1>3, <1>5, <1>6 DEF UnbindingSoFar, OnlyFrees
<1>10. OffMain(p) => Free(m)'
  BY <1>1, <1>3, <1>5, <1>6, FreeStays DEF UnbindingSoFar
<1>11. AtMainDriver(p) /\ driver'[m] = None => AuxDue(m)'
  BY <1>1, <1>3, <1>5, <1>6 DEF UnbindingSoFar
<1> QED
  BY <1>4, <1>8, <1>9, <1>10, <1>11

LEMMA UnbindingStep ==
  ASSUME Structure, NEW p \in Procs, Step(p),
         \A r \in Procs : UnbindingSoFar(r)
  PROVE  UnbindingSoFar(p)'
<1> SUFFICES ASSUME Clean(p)'
             PROVE  /\ \A d \in Selected(proc'[p].cmd) \ proc'[p].todo :
                         Free(d)' /\ AuxDue(d)'
                    /\ proc'[p].pc \in {"stat", "readlink", "detach"} =>
                         override'[proc'[p].on] = None
                    /\ OffMain(p)' => Free(Main(p))'
                    /\ AtMainDriver(p)' /\ driver'[Main(p)'] = None =>
                         AuxDue(Main(p))'
  BY DEF UnbindingSoFar
<1>1. /\ Clean(p) /\ proc[p].exit = "running" /\ Op(p) = "unbind"
      /\ proc'[p].exit # "error" /\ OnlyFrees
      /\ proc'[p].cmd = proc[p].cmd /\ UnbindingSoFar(p)
  BY CleanStep
<1>2. \A d \in Functions :
        driver'[d] = None /\ (driver[d] = None => AuxDue(d)) => AuxDue(d)'
  BY <1>1, DueOn
<1>3. PICK m : m = Main(p)
  OBVIOUS
<1>4. PICK t : t = proc[p].on
  OBVIOUS
<1>5. PICK sel \in SUBSET Functions : sel = Selected(proc[p].cmd)
  BY <1>1, ReleaseFacts, SelectedFacts DEF Clean
<1>6. proc[p].pc \in Working =>
        /\ m \in Functions /\ m \in Devices /\ m \in proc[p].todo
        /\ t \in Devices /\ (t = m <=> OnMain(p)) /\ (t # m => t = AuxOf(m))
  BY <1>3, <1>4, WorkFacts DEF OnMain
<1>7. proc[p].pc \in Working =>
        /\ \A d \in sel \ proc[p].todo : Free(d)' /\ AuxDue(d)'
        /\ OffMain(p) => Free(m)'
  <2> SUFFICES ASSUME proc[p].pc \in Working
               PROVE  /\ \A d \in sel \ proc[p].todo : Free(d)' /\ AuxDue(d)'
                      /\ OffMain(p) => Free(m)'
    OBVIOUS
  <2>1. /\ \A d \in sel \ proc[p].todo : Free(d) /\ AuxDue(d)
        /\ OffMain(p) => Free(m)
    BY <1>1, <1>3, <1>5 DEF UnbindingSoFar, Working
  <2>2. ASSUME NEW d \in sel \ proc[p].todo
        PROVE  Free(d)' /\ AuxDue(d)'
    <3>1. Free(d)' /\ d \in Functions
      BY <1>1, <2>1, FreeStays, AuxFacts
    <3>2. driver'[d] = None
      BY <3>1 DEF Free
    <3> QED
      BY <1>2, <2>1, <3>1, <3>2
  <2>3. OffMain(p) => Free(m)'
    BY <1>1, <1>6, <2>1, FreeStays
  <2> QED
    BY <2>2, <2>3
<1>8. proc[p].pc \in {"stat", "readlink", "detach"} => override'[t] = None
  <2>1. ASSUME proc[p].pc \in {"stat", "readlink", "detach"}
        PROVE  override'[t] = None
    <3>1. proc[p].pc \in Working /\ proc[p].pc # "enumerate"
      BY <2>1 DEF Working, Labels
    <3>2. override[t] = None
      BY <1>1, <1>4, <2>1, <3>1 DEF UnbindingSoFar
    <3> QED
      BY <1>1, <1>6, <3>1, <3>2 DEF OnlyFrees
  <2> QED
    BY <2>1
\* The process goes on to the next card: this one is free, and its auxiliary
\* device is or will be.
<1>9. ASSUME proc[p].pc \in Working, GoesOn(p, proc'[p]), Free(m)', AuxDue(m)'
      PROVE  /\ \A d \in sel \ proc'[p].todo : Free(d)' /\ AuxDue(d)'
             /\ proc'[p].pc \notin {"stat", "readlink", "detach"}
             /\ ~OffMain(p)' /\ ~AtMainDriver(p)'
  <2>1. /\ proc'[p].todo = proc[p].todo \ {m}
        /\ proc'[p].pc \in {"idle", "clear"}
        /\ proc'[p].pc = "clear" => OnMain(p)'
    BY <1>1, <1>3, <1>9 DEF GoesOn, OnMain, Main
  <2> QED
    BY <1>7, <1>9, <2>1 DEF OffMain, AtMainDriver, Working
\* The process stays with the card.
<1>10. ASSUME proc[p].pc \in Working, NEW l \in Working, Turns(p, l)
       PROVE  /\ \A d \in sel \ proc'[p].todo : Free(d)' /\ AuxDue(d)'
              /\ proc'[p].on = t /\ proc'[p].pc = l /\ Main(p)' = m
              /\ l # "aux" => (OffMain(p)' => Free(m)')
              /\ AtMainDriver(p)' => OnMain(p) /\ l \in {"readlink", "detach"}
  BY <1>3, <1>4, <1>7, <1>10, TurnsFacts
     DEF Turns, OffMain, AtMainDriver, Working
<1>11. ASSUME proc[p].pc \in Working, Turns(p, "readlink") \/
              Turns(p, "detach"), driver[t] # None, driver' = driver,
              proc[p].pc \in {"stat", "readlink", "detach"}
       PROVE  /\ \A d \in sel \ proc'[p].todo : Free(d)' /\ AuxDue(d)'
              /\ override'[proc'[p].on] = None
              /\ OffMain(p)' => Free(Main(p))'
              /\ AtMainDriver(p)' => driver'[Main(p)'] # None
  <2>1. PICK l \in {"readlink", "detach"} : Turns(p, l)
    BY <1>11
  <2>2. l \in Working
    BY <2>1 DEF Working, Labels
  <2>3. /\ \A d \in sel \ proc'[p].todo : Free(d)' /\ AuxDue(d)'
        /\ proc'[p].on = t /\ Main(p)' = m
        /\ OffMain(p)' => Free(m)'
        /\ AtMainDriver(p)' => OnMain(p)
    BY <1>10, <1>11, <2>1, <2>2
  <2> QED
    BY <1>6, <1>8, <1>11, <2>3 DEF Free
\* unbind is done with the device the process is on, which is free.
<1>12. ASSUME proc[p].pc \in Working, Released(p), Free(t)'
       PROVE  /\ \A d \in sel \ proc'[p].todo : Free(d)' /\ AuxDue(d)'
              /\ proc'[p].pc \notin {"stat", "readlink", "detach"}
              /\ OffMain(p)' => Free(Main(p))'
              /\ ~AtMainDriver(p)'
  <2>1. CASE OnMain(p) /\ Turns(p, "aux")
    <3>1. "aux" \in Working /\ t = m
      BY <1>6, <1>12, <2>1 DEF Working, Labels
    <3>2. Main(p)' = m
      BY <1>10, <1>12, <2>1, <3>1
    <3> QED
      BY <1>10, <1>12, <2>1, <3>1, <3>2 DEF Free
  <2>2. CASE ~OnMain(p) /\ Passes(p)
    <3>1. t = AuxOf(m) /\ Free(m)'
      BY <1>6, <1>7, <1>12, <2>2 DEF OffMain
    <3>2. AuxDue(m)'
      BY <1>12, <3>1 DEF AuxFree, AuxDue
    <3> QED
      BY <1>9, <1>12, <2>2, <3>1, <3>2 DEF Passes
  <2> QED
    BY <1>1, <1>12, <2>1, <2>2 DEF Released
\* Another process has detached the device the process is on.
<1>13. ASSUME proc[p].pc \in {"readlink", "detach"}, driver[t] = None,
              driver' = driver, Fails(p)
       PROVE  /\ \A d \in sel \ proc'[p].todo : Free(d)' /\ AuxDue(d)'
              /\ proc'[p].pc \notin {"stat", "readlink", "detach"}
              /\ ~OffMain(p)' /\ ~AtMainDriver(p)'
  <2>1. /\ proc[p].pc \in Working /\ GoesOn(p, proc'[p])
        /\ proc[p].pc # "enumerate"
    BY <1>1, <1>13 DEF Fails, GivesUp, Working, Labels
  <2>2. Free(t)'
    BY <1>8, <1>13 DEF Free
  <2>3. CASE OnMain(p)
    <3>1. t = m /\ AuxDue(m)
      BY <1>1, <1>3, <1>6, <1>13, <2>1, <2>3
         DEF UnbindingSoFar, AtMainDriver
    <3>2. AuxDue(m)'
      BY <1>2, <1>6, <1>13, <2>1, <3>1
    <3> QED
      BY <1>9, <2>1, <2>2, <3>1, <3>2
  <2>4. CASE ~OnMain(p)
    <3>1. t = AuxOf(m) /\ Free(m)'
      BY <1>6, <1>7, <2>1, <2>4 DEF OffMain
    <3>2. AuxDue(m)'
      BY <2>2, <3>1 DEF AuxFree, AuxDue
    <3> QED
      BY <1>9, <2>1, <3>1, <3>2
  <2> QED
    BY <2>3, <2>4
<1>14. CASE Enumerate(p)
  BY <1>1, <1>14, EnumerateDoes DEF OffMain, AtMainDriver, Working
<1>15. ~LoadVariant(p) /\ ~SetOverride(p) /\ ~Attach(p)
  BY <1>1, OverrideDoes, AttachDoes DEF LoadVariant, Structure, ProcInv,
     Working, Labels
<1>16. CASE ClearOverride(p)
  <2>1. /\ proc[p].pc \in Working /\ Turns(p, "stat") /\ "stat" \in Working
        /\ override' = [override EXCEPT ![t] = None]
    BY <1>4, <1>16, ClearDoes DEF Working, Labels
  <2>2. override'[t] = None
    BY <1>6, <2>1 DEF Structure, TypeOK
  <2>3. /\ \A d \in sel \ proc'[p].todo : Free(d)' /\ AuxDue(d)'
        /\ proc'[p].on = t /\ Main(p)' = m /\ ~AtMainDriver(p)'
        /\ OffMain(p)' => Free(m)'
    BY <1>10, <2>1
  <2> QED
    BY <1>1, <1>5, <2>2, <2>3 DEF Free
<1>17. CASE StatDriver(p)
  <2>1. /\ proc[p].pc \in Working /\ proc[p].pc = "stat" /\ driver' = driver
        /\ \/ driver[t] # None /\ Turns(p, "readlink")
           \/ driver[t] = None /\ Released(p)
    BY <1>4, <1>17, StatDoes
  <2>2. CASE driver[t] # None /\ Turns(p, "readlink")
    BY <1>1, <1>5, <1>11, <2>1, <2>2
  <2>3. CASE driver[t] = None /\ Released(p)
    <3>1. Free(t)'
      BY <1>8, <2>1, <2>3 DEF Free
    <3> QED
      BY <1>1, <1>5, <1>12, <2>1, <2>3, <3>1
  <2> QED
    BY <2>1, <2>2, <2>3
<1>18. CASE ReadDriverLink(p)
  <2>1. /\ proc[p].pc \in Working /\ proc[p].pc = "readlink"
        /\ driver' = driver
        /\ \/ driver[t] # None /\ Turns(p, "detach")
           \/ driver[t] = None /\ Fails(p)
    BY <1>4, <1>18, ReadDoes
  <2>2. CASE driver[t] # None /\ Turns(p, "detach")
    BY <1>1, <1>5, <1>11, <2>1, <2>2
  <2>3. CASE driver[t] = None /\ Fails(p)
    BY <1>1, <1>5, <1>13, <2>1, <2>3
  <2> QED
    BY <2>1, <2>2, <2>3
<1>19. CASE Detach(p)
  <2>1. /\ proc[p].pc \in Working /\ proc[p].pc = "detach"
        /\ \/ Released(p) /\ driver' = [driver EXCEPT ![t] = None]
           \/ driver[t] = None /\ Fails(p) /\ driver' = driver
    BY <1>4, <1>19, DetachDoes
  <2>2. CASE Released(p) /\ driver' = [driver EXCEPT ![t] = None]
    <3>1. driver'[t] = None
      BY <1>6, <2>1, <2>2 DEF Structure, TypeOK
    <3>2. Free(t)'
      BY <1>8, <2>1, <3>1 DEF Free
    <3> QED
      BY <1>1, <1>5, <1>12, <2>1, <2>2, <3>2
  <2>3. CASE driver[t] = None /\ Fails(p) /\ driver' = driver
    BY <1>1, <1>5, <1>13, <2>1, <2>3
  <2> QED
    BY <2>1, <2>2, <2>3
<1>20. CASE FindAux(p)
  <2>1. /\ proc[p].pc \in Working /\ proc[p].pc = "aux" /\ Free(m)'
    BY <1>7, <1>20, AuxDoes DEF OffMain
  <2>2. CASE AuxOf(m) = None /\ Passes(p)
    <3>1. AuxDue(m)'
      BY <2>2 DEF AuxFree, AuxDue
    <3> QED
      BY <1>1, <1>5, <1>9, <2>1, <2>2, <3>1 DEF Passes
  <2>3. CASE proc'[p].todo = proc[p].todo /\ proc'[p].pc = "clear"
    <3>1. Main(p)' = m /\ ~AtMainDriver(p)'
      BY <1>3, <2>3 DEF Main, AtMainDriver
    <3> QED
      BY <1>1, <1>5, <1>7, <2>1, <2>3, <3>1 DEF Free
  <2> QED
    BY <1>1, <1>3, <1>20, <2>2, <2>3, AuxDoes
<1> QED
  BY <1>14, <1>15, <1>16, <1>17, <1>18, <1>19, <1>20 DEF Step

LEMMA UnbindingNext == UnbindingInv /\ [Next]_vars => UnbindingInv'
<1> SUFFICES ASSUME UnbindingInv, [Next]_vars, used'["fault"] = 0
             PROVE  \A p \in Procs : UnbindingSoFar(p)'
  BY StructureNext DEF UnbindingInv
<1>1. used \in [Disturbances -> Nat] /\ "fault" \in Disturbances
  BY DEF UnbindingInv, Structure, TypeOK, Disturbances
<1>2. \A q \in Procs : ~Fault(q)
  BY <1>1 DEF Fault, Spend
<1>3. used["fault"] = 0
  <2>1. CASE UNCHANGED used
    BY <2>1
  <2>2. CASE \E k \in Disturbances : Spend(k)
    BY <1>1, <2>2 DEF Spend
  <2> QED
    BY <1>1, <1>2, <2>1, <2>2, StepFrame DEF Next, vars, Begin, Kill,
       NativeProbe, Disturbances, UnbindingInv
<1>4. Structure /\ \A p \in Procs : UnbindingSoFar(p)
  BY <1>3 DEF UnbindingInv
<1>5. CASE UNCHANGED vars
  <2>1. /\ OnlyFrees /\ proc' = proc /\ disturbed' = disturbed
        /\ driver' = driver
        /\ \A d \in Functions : AuxDue(d) => AuxDue(d)'
    BY <1>5 DEF vars, sysfs, OnlyFrees, AuxDue, AuxFree, Free, Owes, Clean,
       Ahead, AtMainDriver, OnMain, Main
  <2> QED
    BY <1>4, <2>1, UnbindingFrame
<1>6. ASSUME NEW q \in Procs,
             Step(q) \/ Kill(q) \/ (\E c \in Commands : Begin(q, c)),
             NEW p \in Procs \ {q}, proc'[p] = proc[p],
             disturbed'[p] \subseteq {"unbind"} =>
               disturbed[p] \subseteq {"unbind"} /\ OnlyFrees
      PROVE  UnbindingSoFar(p)'
  <2>1. OnlyFrees => \A d \in Functions :
          driver'[d] = None /\ (driver[d] = None => AuxDue(d)) => AuxDue(d)'
    BY <1>4, <1>6, DueOn
  <2> QED
    BY <1>4, <1>6, <2>1, UnbindingFrame
<1>7. ASSUME NEW q \in Procs, NEW c \in Commands, Begin(q, c)
      PROVE  \A p \in Procs : UnbindingSoFar(p)'
  <2>1. BeginsAfresh(q)
    BY <1>4, <1>7, BeginDoes
  <2>2. UnbindingSoFar(q)'
    BY <2>1 DEF UnbindingSoFar, BeginsAfresh
  <2>3. \A p \in Procs \ {q} : UnbindingSoFar(p)'
    BY <1>6, <1>7, <2>1 DEF OnlyFrees, BeginsAfresh
  <2> QED
    BY <2>2, <2>3
<1>8. ASSUME NEW q \in Procs, Step(q)
      PROVE  \A p \in Procs : UnbindingSoFar(p)'
  <2>1. UnbindingSoFar(q)'
    BY <1>4, <1>8, UnbindingStep
  <2>2. ASSUME NEW p \in Procs \ {q}
        PROVE  UnbindingSoFar(p)'
    <3>1. /\ proc'[p] = proc[p]
          /\ \/ UNCHANGED <<driver, override>> /\ disturbed'[p] = disturbed[p]
             \/ disturbed'[p] = disturbed[p] \cup {Op(q)}
      BY <1>4, <1>8, StepFrame
    <3>2. Op(q) = "bind" \/ Op(q) = "unbind"
      BY <1>4, <1>8, StepOnward, SelectedFacts DEF Op
    <3>3. disturbed'[p] \subseteq {"unbind"} =>
            disturbed[p] \subseteq {"unbind"} /\ OnlyFrees
      BY <1>4, <1>8, <3>1, <3>2, UnbindFrees DEF OnlyFrees
    <3> QED
      BY <1>6, <1>8, <3>1, <3>3
  <2> QED
    BY <2>1, <2>2
<1>9. ASSUME NEW q \in Procs, Kill(q)
      PROVE  \A p \in Procs : UnbindingSoFar(p)'
  <2>1. /\ UNCHANGED <<driver, override, disturbed>>
        /\ proc'[q].exit = "killed" /\ \A s \in Procs \ {q} : proc'[s] = proc[s]
    BY <1>4, <1>9, Moves, EndedShape DEF Kill, sysfs, Structure, TypeOK,
       Statuses
  <2>2. UnbindingSoFar(q)'
    BY <2>1 DEF UnbindingSoFar, Clean
  <2>3. \A p \in Procs \ {q} : UnbindingSoFar(p)'
    BY <1>6, <1>9, <2>1 DEF OnlyFrees
  <2> QED
    BY <2>2, <2>3
<1>10. ASSUME NativeProbe, NEW p \in Procs
       PROVE  UnbindingSoFar(p)'
  <2>1. "probe" \in disturbed'[p]
    BY <1>10 DEF NativeProbe
  <2> QED
    BY <2>1 DEF UnbindingSoFar, Clean
<1> QED
  BY <1>2, <1>5, <1>7, <1>8, <1>9, <1>10 DEF Next

\* However many releases of every device race, and whichever of them were
\* killed on the way: once each has been run again and returned, every device
\* is free, although each may have given up cards that another was at.
THEOREM RacingReleasesConverge == Spec => []UnbindsConverge
<1>1. Init => UnbindingInv
  <2>1. ASSUME Init PROVE \A p \in Procs : UnbindingSoFar(p)
    BY <2>1 DEF Init, Idle, UnbindingSoFar, Clean
  <2> QED
    BY <2>1, StructureInit DEF UnbindingInv
<1>2. UnbindingInv => UnbindsConverge
  <2> SUFFICES ASSUME UnbindingInv, used["fault"] = 0,
                      \A p \in Procs :
                        /\ proc[p].exit = "ok" /\ proc[p].cmd \in Releases
                        /\ disturbed[p] \subseteq {"unbind"},
                      NEW p \in Procs, NEW d \in Reach(proc[p].cmd)
               PROVE  Free(d)
    BY DEF UnbindsConverge
  <2>1. \A q \in Procs : Clean(q) /\ \A e : ~Owes(q, e)
    BY DEF Clean, Owes
  <2>2. proc[p].todo = {} /\ proc[p].pc # "enumerate" /\ UnbindingSoFar(p)
    BY DEF UnbindingInv, Structure, ProcInv, Working
  <2>3. \A e \in Selected(proc[p].cmd) : Free(e) /\ AuxFree(e)
    BY <2>1, <2>2 DEF UnbindingSoFar, AuxDue
  <2>4. \E e \in Selected(proc[p].cmd) : d = e \/ (d = AuxOf(e) /\ d # None)
    BY ReleaseFacts DEF Reach, WithAux, Named, Selected
  <2> QED
    BY <2>3, <2>4 DEF AuxFree
<1> QED
  BY <1>1, <1>2, UnbindingNext, PTL DEF Spec

-----------------------------------------------------------------------------
(* Binds that race.                                                        *)

Parts(d) == {d, AuxOf(d)} \ {None}
BoundTo(d, t) == driver[t] = Variant[d] /\ override[t] = Variant[d]

\* The process q is at the part t of the card d, and what it does next changes
\* t or comes closer to that.  Everything else that q may find there makes it
\* give up the card.
Acting(q, d, t) ==
  /\ proc[q].on = t
  /\ \/ proc[q].pc \in {"stat", "readlink", "detach"} /\ driver[t] # None
     \/ proc[q].pc \in {"clear", "stat"} /\ Op(q) = "bind"
     \/ proc[q].pc = "override" /\ driver[t] = None
     \/ /\ proc[q].pc = "attach" /\ driver[t] = None
        /\ override[t] = Variant[d]

Settled(d, t) == BoundTo(d, t) \/ \E q \in Procs : Acting(q, d, t)

\* The process q binds, and will look for the auxiliary device of d.
Coming(q, d) ==
  /\ d \in proc[q].todo /\ Op(q) = "bind"
  /\ d # Main(q) \/ proc[q].pc \in {"load", "aux"} \/ Acting(q, d, d)

\* A part with the driver of its card has the override too, unless a process
\* that will detach it has cleared the override.
Overridden ==
  \A d \in Functions : \A t \in Parts(d) :
    driver[t] = Variant[d] =>
      \/ BoundTo(d, t)
      \/ \E q \in Procs : /\ proc[q].on = t
                          /\ proc[q].pc \in {"stat", "readlink", "detach"}

Binds(p) ==
  /\ proc[p].exit \in {"running", "ok"} /\ proc[p].cmd.dev = All
  /\ Op(p) = "bind" /\ disturbed[p] \subseteq {"bind"}
  /\ proc[p].pc # "enumerate"

\* What a bind has found to do at a card is settled or is still ahead of it;
\* the auxiliary device is settled or somebody comes to it.
BindingSoFar(p) ==
  Binds(p) =>
    \A d \in Selected(proc[p].cmd) :
      /\ \/ Settled(d, d)
         \/ /\ d \in proc[p].todo /\ proc[p].snap[d] # Variant[d]
            /\ d # Main(p) \/ proc[p].pc = "load"
      /\ AuxOf(d) # None =>
           Settled(d, AuxOf(d)) \/ \E q \in Procs : Coming(q, d)

BindingInv ==
  /\ Structure
  /\ used["fault"] = 0 /\ used["kill"] = 0 =>
       Overridden /\ \A p \in Procs : BindingSoFar(p)

LEMMA PartFacts ==
  ASSUME NEW d \in Functions, NEW t \in Parts(d)
  PROVE  /\ t \in Devices /\ t # None /\ d \in Parts(d)
         /\ Variant[d] # None /\ Variant[d] # Native
<1>1. t \in Devices /\ t # None /\ d \in Parts(d)
  BY AuxFacts DEF Parts
<1>2. Variant[d] \in Vfio
  BY VariantType
<1> QED
  BY <1>1, <1>2, DevicesAssumption

\* A process at a part of a card is at that card.
LEMMA AtPart ==
  ASSUME Structure, NEW p \in Procs, proc[p].pc \in Working,
         NEW d \in Functions, proc[p].on \in Parts(d)
  PROVE  Main(p) = d /\ d \in proc[p].todo
<1>1. /\ Main(p) \in Functions /\ Main(p) \in proc[p].todo
      /\ proc[p].on \in {Main(p), AuxOf(Main(p))} \ {None}
  BY WorkFacts DEF Structure, ProcInv
<1> QED
  BY <1>1, AuxFacts DEF Parts

LEMMA ActingWorks ==
  ASSUME NEW q \in Procs, NEW d, NEW t, Acting(q, d, t)
  PROVE  proc[q].pc \in Working /\ proc[q].on = t
BY DEF Acting, Working, Labels

\* The other processes act on, where a step leaves the part as it is.
LEMMA OthersAct ==
  ASSUME Structure, NEW p \in Procs, Step(p), NEW d, NEW t,
         driver'[t] = driver[t], override'[t] = override[t]
  PROVE  \A q \in Procs \ {p} : Acting(q, d, t) => Acting(q, d, t)'
<1>1. \A q \in Procs \ {p} : proc'[q] = proc[q]
  BY StepFrame
<1> QED
  BY <1>1 DEF Acting, Op

LEMMA SettledQuietly ==
  ASSUME Structure, NEW p \in Procs, Step(p), NEW d, NEW t,
         driver'[t] = driver[t], override'[t] = override[t],
         ~Acting(p, d, t), Settled(d, t)
  PROVE  Settled(d, t)'
BY OthersAct DEF Settled, BoundTo

\* Once a part is bound or somebody is at it, that remains so, as long as
\* devices are only bound.
LEMMA SettledStays ==
  ASSUME Structure, NEW p \in Procs, Step(p),
         Op(p) = "bind" \/ UNCHANGED <<driver, override>>,
         NEW d \in Functions, NEW t \in Parts(d), Settled(d, t)
  PROVE  Settled(d, t)'
<1>1. t \in Devices /\ t # None /\ Variant[d] # None
  BY PartFacts
<1>2. CASE ~(proc[p].pc \in Working /\ proc[p].on = t)
  <2>1. driver'[t] = driver[t] /\ override'[t] = override[t]
    BY <1>1, <1>2, StepChanges
  <2> QED
    BY <1>2, <2>1, SettledQuietly, ActingWorks
<1>3. CASE proc[p].pc \in Working /\ proc[p].on = t
  <2>1. Main(p) = d /\ Op(p) \in {"bind", "unbind"}
    BY <1>3, AtPart, WorkFacts
  <2>2. ASSUME driver' = driver, override' = override, ~Acting(p, d, t)
        PROVE  Settled(d, t)'
    BY <2>2, SettledQuietly
  <2>3. ASSUME Acting(p, d, t)' PROVE Settled(d, t)'
    BY <2>3 DEF Settled
  <2>4. ~Enumerate(p)
    BY <1>3 DEF Enumerate, Working
  <2>5. CASE LoadVariant(p) \/ FindAux(p)
    <3>1. ~Acting(p, d, t)
      BY <2>5, LoadDoes, AuxDoes DEF Acting
    <3> QED
      BY <2>2, <2>5, <3>1, LoadDoes, AuxDoes
  <2>6. CASE ClearOverride(p)
    <3>1. proc[p].pc = "clear" /\ Turns(p, "stat") /\ driver' = driver
      BY <2>6, ClearDoes
    <3>2. CASE Op(p) = "bind"
      <4>1. Acting(p, d, t)'
        BY <1>3, <3>1, <3>2, TurnsFacts DEF Acting, Turns
      <4> QED
        BY <2>3, <4>1
    <3>3. CASE Op(p) # "bind"
      <4>1. ~Acting(p, d, t)
        BY <3>1, <3>3 DEF Acting
      <4> QED
        BY <2>2, <3>3, <4>1
    <3> QED
      BY <3>2, <3>3
  <2>7. CASE StatDriver(p)
    <3>1. /\ proc[p].pc = "stat" /\ driver' = driver /\ override' = override
          /\ \/ driver[t] # None /\ Turns(p, "readlink")
             \/ driver[t] = None /\ Released(p)
      BY <1>3, <2>7, StatDoes
    <3>2. CASE driver[t] # None /\ Turns(p, "readlink")
      <4>1. Acting(p, d, t)'
        BY <1>3, <3>1, <3>2 DEF Acting, Turns
      <4> QED
        BY <2>3, <4>1
    <3>3. CASE driver[t] = None /\ Op(p) = "bind" /\ Turns(p, "override")
      <4>1. Acting(p, d, t)'
        BY <1>3, <3>1, <3>3 DEF Acting, Turns
      <4> QED
        BY <2>3, <4>1
    <3>4. CASE driver[t] = None /\ Op(p) # "bind"
      <4>1. ~Acting(p, d, t)
        BY <3>1, <3>4 DEF Acting
      <4> QED
        BY <2>2, <3>1, <4>1
    <3> QED
      BY <3>1, <3>2, <3>3, <3>4 DEF Released
  <2>8. CASE ReadDriverLink(p)
    <3>1. /\ proc[p].pc = "readlink" /\ driver' = driver
          /\ override' = override
          /\ \/ driver[t] # None /\ Turns(p, "detach")
             \/ driver[t] = None
      BY <1>3, <2>8, ReadDoes
    <3>2. CASE driver[t] # None /\ Turns(p, "detach")
      <4>1. Acting(p, d, t)'
        BY <1>3, <3>1, <3>2 DEF Acting, Turns
      <4> QED
        BY <2>3, <4>1
    <3>3. CASE driver[t] = None
      <4>1. ~Acting(p, d, t)
        BY <3>1, <3>3 DEF Acting
      <4> QED
        BY <2>2, <3>1, <4>1
    <3> QED
      BY <3>1, <3>2, <3>3
  <2>9. CASE Detach(p)
    <3>1. /\ proc[p].pc = "detach" /\ override' = override
          /\ \/ /\ driver[t] # None /\ Released(p)
                /\ driver' = [driver EXCEPT ![t] = None]
             \/ driver[t] = None /\ driver' = driver
      BY <1>3, <2>9, DetachDoes
    <3>2. CASE driver[t] = None /\ driver' = driver
      <4>1. ~Acting(p, d, t)
        BY <3>1, <3>2 DEF Acting
      <4> QED
        BY <2>2, <3>1, <3>2, <4>1
    <3>3. CASE /\ driver[t] # None /\ Released(p)
               /\ driver' = [driver EXCEPT ![t] = None]
      <4>1. driver'[t] = None
        BY <1>1, <3>3 DEF Structure, TypeOK
      <4>2. Op(p) = "bind"
        BY <3>3, <4>1
      <4>3. Turns(p, "override")
        BY <3>3, <4>2 DEF Released
      <4>4. Acting(p, d, t)'
        BY <1>3, <4>1, <4>3 DEF Acting, Turns
      <4> QED
        BY <2>3, <4>4
    <3> QED
      BY <3>1, <3>2, <3>3
  <2>10. CASE SetOverride(p)
    <3>1. /\ proc[p].pc = "override" /\ Turns(p, "attach")
          /\ driver' = driver
          /\ override' = [override EXCEPT ![t] = Variant[d]]
      BY <1>3, <2>1, <2>10, OverrideDoes
    <3>2. override'[t] = Variant[d]
      BY <1>1, <3>1 DEF Structure, TypeOK
    <3>3. CASE driver[t] = None
      <4>1. Acting(p, d, t)'
        BY <1>3, <3>1, <3>2, <3>3 DEF Acting, Turns
      <4> QED
        BY <2>3, <4>1
    <3>4. CASE driver[t] # None
      <4>1. ~Acting(p, d, t)
        BY <3>1, <3>4 DEF Acting
      <4>2. \A q \in Procs \ {p} : proc'[q] = proc[q]
        BY StepFrame
      <4>3. \A q \in Procs \ {p} : Acting(q, d, t) => Acting(q, d, t)'
        BY <3>1, <3>4, <4>2 DEF Acting, Op
      <4>4. BoundTo(d, t) => BoundTo(d, t)'
        BY <3>1, <3>2 DEF BoundTo
      <4> QED
        BY <4>1, <4>3, <4>4 DEF Settled
    <3> QED
      BY <3>3, <3>4
  <2>11. CASE Attach(p)
    <3>1. /\ proc[p].pc = "attach" /\ override' = override
          /\ \/ /\ driver' = [driver EXCEPT ![t] = Variant[d]]
                /\ override[t] = Variant[d]
             \/ /\ ~(driver[t] = None /\ override[t] = Variant[d])
                /\ driver' = driver
      BY <1>3, <2>1, <2>11, AttachDoes
    <3>2. CASE /\ driver' = [driver EXCEPT ![t] = Variant[d]]
               /\ override[t] = Variant[d]
      <4>1. driver'[t] = Variant[d]
        BY <1>1, <3>2 DEF Structure, TypeOK
      <4> QED
        BY <3>1, <3>2, <4>1 DEF Settled, BoundTo
    <3>3. CASE /\ ~(driver[t] = None /\ override[t] = Variant[d])
               /\ driver' = driver
      <4>1. ~Acting(p, d, t)
        BY <3>1, <3>3 DEF Acting
      <4> QED
        BY <2>2, <3>1, <3>3, <4>1
    <3> QED
      BY <3>1, <3>2, <3>3
  <2> QED
    BY <2>4, <2>5, <2>6, <2>7, <2>8, <2>9, <2>10, <2>11 DEF Step
<1> QED
  BY <1>2, <1>3

\* Another process takes a card over only to go on binding it.
LEMMA TakenOver ==
  ASSUME Structure, NEW p \in Procs, Step(p),
         Op(p) = "bind" \/ UNCHANGED <<driver, override>>,
         NEW d \in Functions, NEW q \in Procs \ {p}, Coming(q, d)
  PROVE  Coming(q, d)' \/ Coming(p, d)'
<1>1. proc'[q] = proc[q]
  BY StepFrame
<1>2. /\ d \in proc'[q].todo /\ Op(q)' = "bind" /\ Main(q)' = Main(q)
      /\ proc'[q].pc = proc[q].pc
  BY <1>1 DEF Coming, Op, Main
<1>3. CASE d # Main(q) \/ proc[q].pc \in {"load", "aux"}
  BY <1>2, <1>3 DEF Coming
<1>4. CASE Acting(q, d, d) /\ UNCHANGED <<driver, override>>
  <2>1. Acting(q, d, d)'
    BY <1>4, OthersAct
  <2> QED
    BY <1>2, <2>1 DEF Coming
<1>5. CASE Acting(q, d, d) /\ ~UNCHANGED <<driver, override>>
  <2>1. d \in Devices /\ d \in Parts(d) /\ Op(p) = "bind"
    BY <1>5, AuxFacts DEF Parts
  <2>2. CASE ~(proc[p].pc \in Working /\ proc[p].on = d)
    <3>1. driver'[d] = driver[d] /\ override'[d] = override[d]
      BY <2>1, <2>2, StepChanges
    <3>2. Acting(q, d, d)'
      BY <1>5, <3>1, OthersAct
    <3> QED
      BY <1>2, <3>2 DEF Coming
  <2>3. CASE proc[p].pc \in Working /\ proc[p].on = d
    <3>1. Main(p) = d /\ d \in proc[p].todo /\ OnMain(p)
      BY <2>1, <2>3, AtPart DEF OnMain
    <3>2. ASSUME NEW l, Turns(p, l),
                 l = "aux" \/ (proc'[p].on = d => Acting(p, d, d)')
          PROVE  Coming(p, d)'
      <4>1. /\ proc'[p].on = d /\ d \in proc'[p].todo /\ proc'[p].pc = l
            /\ Op(p)' = "bind"
        BY <2>1, <2>3, <3>1, <3>2, TurnsFacts DEF Turns
      <4> QED
        BY <3>2, <4>1 DEF Coming
    <3>3. CASE ClearOverride(p)
      <4>1. Turns(p, "stat") /\ Op(p)' = "bind"
        BY <2>1, <3>3, ClearDoes, TurnsFacts
      <4>2. proc'[p].on = d => Acting(p, d, d)'
        BY <4>1 DEF Acting, Turns
      <4> QED
        BY <3>2, <4>1, <4>2
    <3>4. CASE Detach(p)
      <4>1. /\ Released(p) /\ driver' = [driver EXCEPT ![d] = None]
        BY <1>5, <2>3, <3>4, DetachDoes
      <4>2. driver'[d] = None
        BY <2>1, <4>1 DEF Structure, TypeOK
      <4>3. Turns(p, "override")
        BY <2>1, <4>1 DEF Released
      <4>4. proc'[p].on = d => Acting(p, d, d)'
        BY <4>2, <4>3 DEF Acting, Turns
      <4> QED
        BY <3>2, <4>3, <4>4
    <3>5. CASE SetOverride(p)
      <4>1. /\ driver' = driver
            /\ override' = [override EXCEPT ![d] = Variant[d]]
        BY <2>3, <3>1, <3>5, OverrideDoes
      <4>2. override'[d] = Variant[d]
        BY <2>1, <4>1 DEF Structure, TypeOK
      <4>3. Acting(q, d, d)'
        BY <1>1, <1>5, <4>1, <4>2 DEF Acting, Op
      <4> QED
        BY <1>2, <4>3 DEF Coming
    <3>6. CASE Attach(p)
      <4>1. Turns(p, "aux")
        BY <1>5, <3>1, <3>6, AttachDoes
      <4> QED
        BY <3>2, <4>1
    <3> QED
      BY <1>5, <3>3, <3>4, <3>5, <3>6, EnumerateDoes, LoadDoes, StatDoes,
         ReadDoes, AuxDoes DEF Step
  <2> QED
    BY <2>2, <2>3
<1> QED
  BY <1>3, <1>4, <1>5 DEF Coming

\* A process that binds and comes to the auxiliary device of a card is at it,
\* or still comes to it.
LEMMA ComesOn ==
  ASSUME Structure, Overridden, NEW p \in Procs, Step(p),
         NEW d \in Functions, AuxOf(d) # None, Coming(p, d)
  PROVE  Settled(d, AuxOf(d))' \/ Coming(p, d)'
<1>1. /\ Op(p) = "bind" /\ d \in proc[p].todo
      /\ d # Main(p) \/ proc[p].pc \in {"load", "aux"} \/ Acting(p, d, d)
  BY DEF Coming
<1>2. ~Enumerate(p)
  BY <1>1, EnumerateDoes DEF Structure, ProcInv, Working
<1>3. proc[p].pc \in Working
  BY <1>2, LoadDoes, ClearDoes, StatDoes, ReadDoes, DetachDoes, OverrideDoes,
     AttachDoes, AuxDoes DEF Step
<1>4. PICK m : m = Main(p)
  OBVIOUS
<1>5. PICK t : t = proc[p].on
  OBVIOUS
<1>6. t \in Devices /\ (t = m <=> OnMain(p))
  BY <1>3, <1>4, <1>5, WorkFacts DEF OnMain
<1>7. d = m /\ proc[p].pc \notin {"load", "aux"} => Acting(p, d, d) /\ t = d
  BY <1>1, <1>4, <1>5 DEF Acting
\* Only --all goes through several cards, and it skips those that fail.
<1>s. d # m => /\ proc[p].cmd.dev = All /\ proc[p].pc # "enumerate"
               /\ Fails(p) => GoesOn(p, proc'[p])
  <2>1. d # m => proc[p].cmd.dev = All
    BY <1>1, <1>3, <1>4, WorkFacts DEF Structure, ProcInv, Selected
  <2> QED
    BY <1>3, <2>1 DEF Fails, GivesUp, Working
\* The process is not yet done with the card it is at.
<1>8. ASSUME NEW l, Turns(p, l),
             d = m => l \in {"load", "aux"} \/ Acting(p, d, d)'
      PROVE  Coming(p, d)'
  BY <1>1, <1>4, <1>8, TurnsFacts DEF Turns, Coming
<1>9. ASSUME GoesOn(p, proc'[p]), d # m
      PROVE  Coming(p, d)'
  <2>1. /\ d \in proc'[p].todo /\ proc'[p].cmd = proc[p].cmd
        /\ proc'[p].pc = "load"
    BY <1>1, <1>4, <1>9 DEF GoesOn
  <2> QED
    BY <1>1, <2>1 DEF Coming, Op
<1>10. CASE LoadVariant(p)
  <2>1. PICK l \in {"aux", "clear"} : Turns(p, l) /\ proc[p].pc = "load"
    BY <1>10, LoadDoes
  <2>2. OnMain(p) /\ Op(p)' = "bind"
    BY <1>1, <1>3, <2>1, TurnsFacts DEF Structure, ProcInv
  <2>3. d = m /\ l = "clear" => Acting(p, d, d)'
    BY <1>5, <1>6, <2>1, <2>2 DEF Acting, Turns
  <2> QED
    BY <1>8, <2>1, <2>3
<1>11. CASE ClearOverride(p)
  <2>1. Turns(p, "stat") /\ Op(p)' = "bind" /\ proc[p].pc = "clear"
    BY <1>1, <1>11, ClearDoes, TurnsFacts
  <2>2. d = m => Acting(p, d, d)'
    BY <1>5, <1>7, <2>1 DEF Acting, Turns
  <2> QED
    BY <1>8, <2>1, <2>2
<1>12. CASE StatDriver(p)
  <2>1. /\ proc[p].pc = "stat" /\ driver' = driver
        /\ \/ driver[t] # None /\ Turns(p, "readlink")
           \/ driver[t] = None /\ Turns(p, "override")
    BY <1>1, <1>5, <1>12, StatDoes DEF Released
  <2>2. d = m => Acting(p, d, d)'
    BY <1>5, <1>7, <2>1 DEF Acting, Turns
  <2> QED
    BY <1>8, <2>1, <2>2
<1>13. CASE ReadDriverLink(p)
  <2>1. /\ proc[p].pc = "readlink" /\ driver' = driver
        /\ \/ driver[t] # None /\ Turns(p, "detach")
           \/ driver[t] = None /\ Fails(p)
    BY <1>5, <1>13, ReadDoes
  <2>2. CASE driver[t] # None /\ Turns(p, "detach")
    <3>1. d = m => Acting(p, d, d)'
      BY <1>5, <1>7, <2>1, <2>2 DEF Acting, Turns
    <3> QED
      BY <1>8, <2>2, <3>1
  <2>3. CASE driver[t] = None /\ Fails(p)
    <3>1. d # m
      BY <1>7, <2>1, <2>3 DEF Acting
    <3> QED
      BY <1>9, <1>s, <2>3, <3>1
  <2> QED
    BY <2>1, <2>2, <2>3
<1>14. CASE Detach(p)
  <2>1. /\ proc[p].pc = "detach"
        /\ \/ /\ driver[t] # None /\ Turns(p, "override")
              /\ driver' = [driver EXCEPT ![t] = None]
           \/ driver[t] = None /\ Fails(p)
    BY <1>1, <1>5, <1>14, DetachDoes DEF Released
  <2>2. CASE /\ driver[t] # None /\ Turns(p, "override")
             /\ driver' = [driver EXCEPT ![t] = None]
    <3>1. driver'[t] = None
      BY <1>6, <2>2 DEF Structure, TypeOK
    <3>2. d = m => Acting(p, d, d)'
      BY <1>5, <1>7, <2>1, <2>2, <3>1 DEF Acting, Turns
    <3> QED
      BY <1>8, <2>2, <3>2
  <2>3. CASE driver[t] = None /\ Fails(p)
    <3>1. d # m
      BY <1>7, <2>1, <2>3 DEF Acting
    <3> QED
      BY <1>9, <1>s, <2>3, <3>1
  <2> QED
    BY <2>1, <2>2, <2>3
<1>15. CASE SetOverride(p)
  <2>1. /\ proc[p].pc = "override" /\ driver' = driver /\ Turns(p, "attach")
        /\ override' = [override EXCEPT ![t] = Variant[m]]
    BY <1>4, <1>5, <1>15, OverrideDoes
  <2>2. override'[t] = Variant[m]
    BY <1>6, <2>1 DEF Structure, TypeOK
  <2>3. d = m => Acting(p, d, d)'
    BY <1>5, <1>7, <2>1, <2>2 DEF Acting, Turns
  <2> QED
    BY <1>8, <2>1, <2>3
<1>16. CASE Attach(p)
  <2>1. /\ proc[p].pc = "attach"
        /\ \/ OnMain(p) /\ Turns(p, "aux")
           \/ ~OnMain(p) /\ Passes(p)
           \/ /\ ~(driver[t] = None /\ override[t] = Variant[m])
              /\ Fails(p)
    BY <1>4, <1>5, <1>16, AttachDoes
  <2>2. CASE Turns(p, "aux")
    BY <1>8, <2>2
  <2>3. CASE ~OnMain(p) /\ Passes(p)
    <3>1. d # m
      BY <1>6, <1>7, <2>1, <2>3
    <3> QED
      BY <1>9, <2>3, <3>1 DEF Passes
  <2>4. CASE /\ ~(driver[t] = None /\ override[t] = Variant[m])
             /\ Fails(p)
    <3>1. d # m
      BY <1>7, <2>1, <2>4 DEF Acting
    <3> QED
      BY <1>9, <1>s, <2>4, <3>1
  <2> QED
    BY <2>1, <2>2, <2>3, <2>4
<1>17. CASE FindAux(p)
  <2>1. /\ proc[p].pc = "aux" /\ driver' = driver /\ override' = override
        /\ \/ /\ \/ AuxOf(m) = None
                 \/ driver[AuxOf(m)] = Variant[m]
              /\ Passes(p)
           \/ /\ proc'[p].pc = "clear" /\ proc'[p].cmd = proc[p].cmd
              /\ proc'[p].todo = proc[p].todo
              /\ proc'[p].on = AuxOf(m)
    BY <1>4, <1>17, AuxDoes
  <2>2. CASE Passes(p) /\ d # m
    BY <1>9, <2>2 DEF Passes
  <2>3. CASE driver[AuxOf(d)] = Variant[d]
    <3>1. AuxOf(d) \in Parts(d) /\ Variant[d] # None
      BY PartFacts DEF Parts
    <3>2. Settled(d, AuxOf(d))
      BY <2>3, <3>1 DEF Overridden, Settled, Acting
    <3> QED
      BY <1>1, <3>1, <3>2, SettledStays
  <2>4. CASE /\ proc'[p].pc = "clear" /\ proc'[p].cmd = proc[p].cmd
             /\ proc'[p].todo = proc[p].todo
             /\ proc'[p].on = AuxOf(m)
    <3>1. Op(p)' = "bind" /\ Main(p)' = m
      BY <1>1, <1>4, <2>4 DEF Op, Main
    <3>2. CASE d = m
      <4>1. Acting(p, d, AuxOf(d))'
        BY <2>4, <3>1, <3>2 DEF Acting
      <4> QED
        BY <4>1 DEF Settled
    <3>3. CASE d # m
      BY <1>1, <2>4, <3>1, <3>3 DEF Coming
    <3> QED
      BY <3>2, <3>3
  <2> QED
    BY <2>1, <2>2, <2>3, <2>4
<1> QED
  BY <1>2, <1>10, <1>11, <1>12, <1>13, <1>14, <1>15, <1>16, <1>17 DEF Step

LEMMA OverriddenStep ==
  ASSUME Structure, Overridden, NEW p \in Procs, Step(p)
  PROVE  Overridden'
<1> DEFINE There(q, t) == /\ proc[q].on = t
                          /\ proc[q].pc \in {"stat", "readlink", "detach"}
<1> SUFFICES ASSUME NEW d \in Functions, NEW t \in Parts(d),
                    driver'[t] = Variant[d]
             PROVE  \/ BoundTo(d, t)'
                    \/ \E q \in Procs : There(q, t)'
  BY DEF Overridden
<1>1. t \in Devices /\ t # None /\ Variant[d] # None
  BY PartFacts
<1>2. \A q \in Procs \ {p} : There(q, t) => There(q, t)'
  BY StepFrame
<1>3. driver[t] = Variant[d] =>
        BoundTo(d, t) \/ \E q \in Procs : There(q, t)
  BY DEF Overridden
<1>4. There(p, t) => proc[p].pc \in Working /\ proc[p].on = t
  BY DEF Working, Labels
<1> HIDE DEF There
<1>5. ASSUME driver'[t] = driver[t], override'[t] = override[t],
             ~There(p, t)
      PROVE  BoundTo(d, t)' \/ \E q \in Procs : There(q, t)'
  BY <1>2, <1>3, <1>5 DEF BoundTo
<1>6. CASE ~(proc[p].pc \in Working /\ proc[p].on = t)
  <2>1. driver'[t] = driver[t] /\ override'[t] = override[t]
    BY <1>1, <1>6, StepChanges
  <2> QED
    BY <1>4, <1>5, <1>6, <2>1
<1>7. CASE proc[p].pc \in Working /\ proc[p].on = t
  <2>1. Main(p) = d
    BY <1>7, AtPart
  <2>2. ASSUME NEW l \in {"stat", "readlink", "detach"}, Turns(p, l)
        PROVE  There(p, t)'
    BY <1>7, <2>2 DEF Turns, There
  <2>3. CASE ClearOverride(p) \/ StatDriver(p) \/ ReadDriverLink(p)
    BY <1>1, <1>7, <2>2, <2>3, ClearDoes, StatDoes, ReadDoes
  <2>4. CASE Enumerate(p) \/ LoadVariant(p) \/ FindAux(p)
    <3>1. /\ driver' = driver /\ override' = override
          /\ proc[p].pc \in {"enumerate", "load", "aux"}
      BY <2>4, EnumerateDoes, LoadDoes, AuxDoes
    <3> QED
      BY <1>5, <3>1 DEF There
  <2>5. CASE Detach(p)
    <3>1. driver'[t] = None
      BY <1>1, <1>7, <2>5, DetachDoes DEF Structure, TypeOK
    <3> QED
      BY <1>1, <3>1
  <2>6. CASE SetOverride(p)
    <3>1. /\ driver' = driver
          /\ override' = [override EXCEPT ![t] = Variant[d]]
      BY <1>7, <2>1, <2>6, OverrideDoes
    <3>2. override'[t] = Variant[d]
      BY <1>1, <3>1 DEF Structure, TypeOK
    <3> QED
      BY <3>2 DEF BoundTo
  <2>7. CASE Attach(p)
    <3>1. /\ override' = override /\ proc[p].pc = "attach"
          /\ override[t] = Variant[d] \/ driver' = driver
      BY <1>7, <2>1, <2>7, AttachDoes
    <3> QED
      BY <1>5, <3>1 DEF There, BoundTo
  <2> QED
    BY <2>3, <2>4, <2>5, <2>6, <2>7 DEF Step
<1> QED
  BY <1>6, <1>7 DEF There

\* What the devices and the processes that run tell stays when neither change.
LEMMA QuietBinding ==
  ASSUME Structure, UNCHANGED <<driver, override>>,
         \A q \in Procs : proc[q].pc # "idle" => proc'[q] = proc[q]
  PROVE  /\ \A d, t : Settled(d, t) => Settled(d, t)'
         /\ Overridden => Overridden'
         /\ \A d : (\E q \in Procs : Coming(q, d)) =>
                   \E q \in Procs : Coming(q, d)'
<1>1. \A d, t : \A q \in Procs : Acting(q, d, t) => Acting(q, d, t)'
  BY DEF Acting, Op
<1>2. \A q \in Procs : \A d : Coming(q, d) => proc'[q] = proc[q]
  BY DEF Coming, Structure, ProcInv, Working
<1>3. \A q \in Procs : \A d : Coming(q, d) => Coming(q, d)'
  BY <1>1, <1>2 DEF Coming, Main, Op
<1>4. \A d, t : BoundTo(d, t) => BoundTo(d, t)'
  BY DEF BoundTo
<1>5. Overridden => Overridden'
  BY <1>4 DEF Overridden
<1> QED
  BY <1>1, <1>3, <1>4, <1>5 DEF Settled

LEMMA BindingFrame ==
  ASSUME NEW p \in Procs, proc'[p] = proc[p], BindingSoFar(p),
         proc[p].cmd \in Commands \/ ~Binds(p),
         disturbed'[p] \subseteq {"bind"} =>
           /\ disturbed[p] \subseteq {"bind"}
           /\ \A d \in Functions : \A t \in Parts(d) :
                Settled(d, t) => Settled(d, t)'
           /\ \A d \in Functions :
                AuxOf(d) # None /\ (\E q \in Procs : Coming(q, d)) =>
                  Settled(d, AuxOf(d))' \/ \E q \in Procs : Coming(q, d)'
  PROVE  BindingSoFar(p)'
<1> SUFFICES ASSUME Binds(p)', NEW d \in Selected(proc[p].cmd)
             PROVE  /\ \/ Settled(d, d)'
                       \/ /\ d \in proc[p].todo
                          /\ proc[p].snap[d] # Variant[d]
                          /\ d # Main(p) \/ proc[p].pc = "load"
                    /\ AuxOf(d) # None =>
                         \/ Settled(d, AuxOf(d))'
                         \/ \E q \in Procs : Coming(q, d)'
  BY DEF BindingSoFar, Main
<1>1. Binds(p) /\ disturbed'[p] \subseteq {"bind"}
  BY DEF Binds, Op
<1>2. d \in Functions /\ d \in Parts(d)
  BY <1>1, SelectedFacts, AuxFacts DEF Parts
<1>3. AuxOf(d) # None => AuxOf(d) \in Parts(d)
  BY DEF Parts
<1>4. /\ \/ Settled(d, d)
         \/ /\ d \in proc[p].todo /\ proc[p].snap[d] # Variant[d]
            /\ d # Main(p) \/ proc[p].pc = "load"
      /\ AuxOf(d) # None =>
           Settled(d, AuxOf(d)) \/ \E q \in Procs : Coming(q, d)
  BY <1>1 DEF BindingSoFar
<1> QED
  BY <1>1, <1>2, <1>3, <1>4

\* Somebody comes to the auxiliary device, until somebody is there.
LEMMA SomebodyComes ==
  ASSUME Structure, Overridden, NEW p \in Procs, Step(p),
         Op(p) = "bind" \/ UNCHANGED <<driver, override>>,
         NEW d \in Functions, AuxOf(d) # None, NEW q \in Procs, Coming(q, d)
  PROVE  Settled(d, AuxOf(d))' \/ \E r \in Procs : Coming(r, d)'
<1>1. CASE q = p
  BY <1>1, ComesOn
<1>2. CASE q # p
  BY <1>2, TakenOver
<1> QED
  BY <1>1, <1>2

LEMMA BindingStep ==
  ASSUME Structure, Overridden, NEW p \in Procs, Step(p), BindingSoFar(p)
  PROVE  BindingSoFar(p)'
<1> SUFFICES ASSUME Binds(p)', NEW d \in Selected(proc'[p].cmd)
             PROVE  /\ \/ Settled(d, d)'
                       \/ /\ d \in proc'[p].todo
                          /\ proc'[p].snap[d] # Variant[d]
                          /\ d # Main(p)' \/ proc'[p].pc = "load"
                    /\ AuxOf(d) # None =>
                         \/ Settled(d, AuxOf(d))'
                         \/ \E q \in Procs : Coming(q, d)'
  BY DEF BindingSoFar
<1>1. /\ Onward(p) /\ disturbed'[p] = disturbed[p]
      /\ proc[p].exit = "running" /\ proc[p].cmd \in Commands
  BY StepOnward, StepFrame
<1>2. /\ proc'[p].cmd = proc[p].cmd /\ Op(p) = "bind" /\ Op(p)' = "bind"
      /\ proc[p].cmd.dev = All
      /\ proc[p].pc # "enumerate" => Binds(p) /\ (Fails(p) => GoesOn(p, proc'[p]))
  BY <1>1 DEF Binds, Onward, Op, Fails, GivesUp
<1>3. d \in Functions /\ d \in Parts(d) /\ d \in Selected(proc[p].cmd)
  BY <1>1, <1>2, SelectedFacts, AuxFacts DEF Parts
<1>4. AuxOf(d) # None => AuxOf(d) \in Parts(d)
  BY DEF Parts
<1>5. Settled(d, d) => Settled(d, d)'
  BY <1>2, <1>3, SettledStays
<1>6. CASE Enumerate(p)
  <2>1. /\ driver' = driver /\ proc'[p].todo # {} /\ d \in proc'[p].todo
        /\ proc'[p].pc = "load" /\ proc'[p].snap = driver
    BY <1>2, <1>3, <1>6, EnumerateDoes
  <2>2. Coming(p, d)'
    BY <1>2, <2>1 DEF Coming
  <2>3. CASE driver[d] # Variant[d]
    BY <2>1, <2>2, <2>3
  <2>4. CASE driver[d] = Variant[d]
    <3>1. Settled(d, d)
      BY <1>3, <2>4, PartFacts DEF Overridden, Settled, Acting
    <3> QED
      BY <1>5, <2>2, <3>1
  <2> QED
    BY <2>3, <2>4
<1>7. CASE ~Enumerate(p)
  <2>1. proc[p].pc \in Working
    BY <1>7, LoadDoes, ClearDoes, StatDoes, ReadDoes, DetachDoes,
       OverrideDoes, AttachDoes, AuxDoes DEF Step
  <2>2. /\ \/ Settled(d, d)
           \/ /\ d \in proc[p].todo /\ proc[p].snap[d] # Variant[d]
              /\ d # Main(p) \/ proc[p].pc = "load"
        /\ AuxOf(d) # None =>
             Settled(d, AuxOf(d)) \/ \E q \in Procs : Coming(q, d)
    BY <1>2, <1>3, <2>1 DEF BindingSoFar, Working
  <2>3. AuxOf(d) # None =>
          Settled(d, AuxOf(d))' \/ \E q \in Procs : Coming(q, d)'
    BY <1>2, <1>3, <1>4, <2>2, SettledStays, SomebodyComes
  <2>4. CASE /\ d \in proc[p].todo /\ proc[p].snap[d] # Variant[d]
             /\ d # Main(p)
    <3>1. ASSUME /\ proc'[p].todo = proc[p].todo
                 /\ proc'[p].snap = proc[p].snap
          PROVE  /\ d \in proc'[p].todo /\ proc'[p].snap[d] # Variant[d]
                 /\ d # Main(p)'
      BY <2>4, <3>1 DEF Main
    <3>2. ASSUME GoesOn(p, proc'[p])
          PROVE  /\ d \in proc'[p].todo /\ proc'[p].snap[d] # Variant[d]
                 /\ proc'[p].pc = "load"
      BY <1>2, <2>4, <3>2 DEF GoesOn
    <3>3. \/ GoesOn(p, proc'[p])
          \/ /\ proc'[p].todo = proc[p].todo
             /\ proc'[p].snap = proc[p].snap
      <4>1. Fails(p) \/ Passes(p) => GoesOn(p, proc'[p])
        BY <1>2, <2>1 DEF Passes, Working
      <4>2. (\E l \in Labels : Turns(p, l)) =>
              /\ proc'[p].todo = proc[p].todo
              /\ proc'[p].snap = proc[p].snap
        BY DEF Turns
      <4>3. Released(p) \/ Fails(p) \/ Passes(p)
            \/ (\E l \in Labels : Turns(p, l))
            \/ /\ proc'[p].todo = proc[p].todo
               /\ proc'[p].snap = proc[p].snap
        <5>1. CASE LoadVariant(p) \/ ClearOverride(p) \/ SetOverride(p)
          BY <5>1, LoadDoes, ClearDoes, OverrideDoes DEF Labels
        <5>2. CASE StatDriver(p) \/ ReadDriverLink(p) \/ Detach(p)
          BY <5>2, StatDoes, ReadDoes, DetachDoes DEF Labels
        <5>3. CASE Attach(p) \/ FindAux(p)
          BY <5>3, AttachDoes, AuxDoes DEF Labels
        <5> QED
          BY <1>7, <5>1, <5>2, <5>3 DEF Step
      <4>4. Released(p) => \E l \in Labels : Turns(p, l)
        BY <1>2 DEF Released, Labels
      <4> QED
        BY <4>1, <4>2, <4>3, <4>4
    <3> QED
      BY <2>3, <3>1, <3>2, <3>3
  <2>5. CASE /\ d = Main(p) /\ proc[p].pc = "load"
             /\ proc[p].snap[d] # Variant[d]
    <3>1. LoadVariant(p)
      BY <2>5, EnumerateDoes, ClearDoes, StatDoes, ReadDoes, DetachDoes,
         OverrideDoes, AttachDoes, AuxDoes DEF Step
    <3>2. Turns(p, "clear") /\ proc[p].on = d
      BY <2>1, <2>5, <3>1, LoadDoes DEF Structure, ProcInv, OnMain
    <3>3. Acting(p, d, d)'
      BY <1>2, <3>2 DEF Acting, Turns
    <3> QED
      BY <2>3, <3>3 DEF Settled
  <2>6. CASE Settled(d, d)
    BY <1>5, <2>3, <2>6
  <2> QED
    BY <2>2, <2>4, <2>5, <2>6
<1> QED
  BY <1>6, <1>7

LEMMA BindingNext == BindingInv /\ [Next]_vars => BindingInv'
<1> SUFFICES ASSUME BindingInv, [Next]_vars,
                    used'["fault"] = 0, used'["kill"] = 0
             PROVE  Overridden' /\ \A p \in Procs : BindingSoFar(p)'
  BY StructureNext DEF BindingInv
<1>1. /\ used \in [Disturbances -> Nat]
      /\ "fault" \in Disturbances /\ "kill" \in Disturbances
  BY DEF BindingInv, Structure, TypeOK, Disturbances
<1>2. \A q \in Procs : ~Fault(q) /\ ~Kill(q)
  BY <1>1 DEF Fault, Kill, Spend
<1>3. used["fault"] = 0 /\ used["kill"] = 0
  <2>1. CASE UNCHANGED used
    BY <2>1
  <2>2. CASE Spend("probe")
    BY <1>1, <2>2 DEF Spend, Disturbances
  <2> QED
    BY <1>2, <2>1, <2>2, StepFrame DEF Next, vars, Begin, NativeProbe,
       BindingInv
<1>4. Structure /\ Overridden /\ \A p \in Procs : BindingSoFar(p)
  BY <1>3 DEF BindingInv
<1>5. \A p \in Procs : proc[p].cmd \in Commands \/ ~Binds(p)
  BY <1>4 DEF Structure, ProcInv, Binds
<1>6. CASE UNCHANGED vars
  <2>1. /\ \A d, t : Settled(d, t) => Settled(d, t)'
        /\ Overridden'
        /\ \A d : (\E q \in Procs : Coming(q, d)) =>
                  \E q \in Procs : Coming(q, d)'
    BY <1>4, <1>6, QuietBinding DEF vars, sysfs
  <2>2. \A p \in Procs : proc'[p] = proc[p] /\ disturbed'[p] = disturbed[p]
    BY <1>6 DEF vars
  <2> QED
    BY <1>4, <1>5, <2>1, <2>2, BindingFrame
<1>7. ASSUME NEW q \in Procs, NEW c \in Commands, Begin(q, c)
      PROVE  Overridden' /\ \A p \in Procs : BindingSoFar(p)'
  <2>1. BeginsAfresh(q) /\ proc[q].pc = "idle"
    BY <1>4, <1>7, BeginDoes DEF Begin
  <2>2. /\ \A d, t : Settled(d, t) => Settled(d, t)'
        /\ Overridden'
        /\ \A d : (\E r \in Procs : Coming(r, d)) =>
                  \E r \in Procs : Coming(r, d)'
    BY <1>4, <2>1, QuietBinding DEF BeginsAfresh
  <2>3. BindingSoFar(q)'
    BY <2>1 DEF BindingSoFar, Binds, BeginsAfresh
  <2>4. ASSUME NEW p \in Procs \ {q}
        PROVE  BindingSoFar(p)'
    <3>1. proc'[p] = proc[p] /\ disturbed'[p] = disturbed[p]
      BY <2>1 DEF BeginsAfresh
    <3> QED
      BY <1>4, <1>5, <2>2, <3>1, BindingFrame
  <2> QED
    BY <2>2, <2>3, <2>4
<1>8. ASSUME NEW q \in Procs, Step(q)
      PROVE  Overridden' /\ \A p \in Procs : BindingSoFar(p)'
  <2>1. BindingSoFar(q)' /\ Overridden'
    BY <1>4, <1>8, BindingStep, OverriddenStep
  <2>2. ASSUME NEW p \in Procs \ {q}
        PROVE  BindingSoFar(p)'
    <3>1. /\ proc'[p] = proc[p]
          /\ \/ UNCHANGED <<driver, override>> /\ disturbed'[p] = disturbed[p]
             \/ disturbed'[p] = disturbed[p] \cup {Op(q)}
      BY <1>4, <1>8, StepFrame
    <3>2. disturbed'[p] \subseteq {"bind"} =>
            /\ disturbed[p] \subseteq {"bind"}
            /\ Op(q) = "bind" \/ UNCHANGED <<driver, override>>
      BY <3>1
    <3>3. ASSUME Op(q) = "bind" \/ UNCHANGED <<driver, override>>
          PROVE  \A d \in Functions : \A t \in Parts(d) :
                   Settled(d, t) => Settled(d, t)'
      BY <1>4, <1>8, <3>3, SettledStays
    <3>4. ASSUME Op(q) = "bind" \/ UNCHANGED <<driver, override>>
          PROVE  \A d \in Functions :
                   AuxOf(d) # None /\ (\E r \in Procs : Coming(r, d)) =>
                     Settled(d, AuxOf(d))' \/ \E r \in Procs : Coming(r, d)'
      BY <1>4, <1>8, <3>4, SomebodyComes
    <3> QED
      BY <1>4, <1>5, <3>1, <3>2, <3>3, <3>4, BindingFrame
  <2> QED
    BY <2>1, <2>2
<1>9. CASE NativeProbe
  <2>1. \A p \in Procs : BindingSoFar(p)'
    <3>1. \A p \in Procs : "probe" \in disturbed'[p]
      BY <1>9 DEF NativeProbe
    <3> QED
      BY <3>1 DEF BindingSoFar, Binds
  <2>2. Overridden'
    <3> SUFFICES ASSUME NEW d \in Functions, NEW t \in Parts(d),
                        driver'[t] = Variant[d]
                 PROVE  \/ BoundTo(d, t)'
                        \/ \E q \in Procs :
                             /\ proc'[q].on = t
                             /\ proc'[q].pc \in {"stat", "readlink", "detach"}
      BY DEF Overridden
    <3>1. /\ t \in Devices /\ Variant[d] # Native
          /\ override' = override /\ proc' = proc
      BY <1>9, PartFacts DEF NativeProbe
    <3>2. driver[t] = Variant[d]
      BY <1>9, <3>1 DEF NativeProbe
    <3> QED
      BY <1>4, <3>1, <3>2 DEF Overridden, BoundTo
  <2> QED
    BY <2>1, <2>2
<1> QED
  BY <1>2, <1>6, <1>7, <1>8, <1>9 DEF Next

\* However many binds of every device race: once each has returned, every card
\* and its auxiliary device are bound to the driver chosen for the card and
\* have its override, although some of the binds gave up cards that another
\* was at.
THEOREM RacingBindsConverge == Spec => []BindsConverge
<1>1. Init => BindingInv
  <2> SUFFICES ASSUME Init PROVE BindingInv
    OBVIOUS
  <2>1. \A p \in Procs : BindingSoFar(p)
    BY DEF Init, Idle, BindingSoFar, Binds
  <2>2. ASSUME NEW d \in Functions, NEW t \in Parts(d)
        PROVE  driver[t] # Variant[d]
    BY PartFacts DEF Init
  <2> QED
    BY <2>1, <2>2, StructureInit DEF BindingInv, Overridden
<1>2. BindingInv => BindsConverge
  <2> SUFFICES ASSUME BindingInv, used["fault"] = 0, used["kill"] = 0,
                      \A p \in Procs :
                        /\ proc[p].exit = "ok" /\ proc[p].cmd.dev = All
                        /\ Op(p) = "bind" /\ disturbed[p] \subseteq {"bind"},
                      NEW p \in Procs,
                      NEW d \in Reach(proc[p].cmd) \cap Functions,
                      NEW t \in Parts(d)
               PROVE  BoundTo(d, t)
    BY DEF BindsConverge, BoundTo, Parts
  <2>1. /\ Structure /\ BindingSoFar(p)
        /\ \A q \in Procs : /\ proc[q].pc = "idle" /\ proc[q].todo = {}
                            /\ proc[q].cmd \in Commands
    BY DEF BindingInv, Structure, ProcInv, Working
  <2>2. Binds(p)
    BY <2>1 DEF Binds
  <2>3. \A e, s : \A q \in Procs : ~Acting(q, e, s) /\ ~Coming(q, e)
    BY <2>1 DEF Acting, Coming
  <2>4. d \in Selected(proc[p].cmd)
    BY <2>1, AuxFacts, DevicesAssumption DEF Reach, WithAux, Named, Selected
  <2>5. Settled(d, d) /\ (AuxOf(d) # None => Settled(d, AuxOf(d)))
    BY <2>1, <2>2, <2>3, <2>4 DEF BindingSoFar
  <2> QED
    BY <2>3, <2>5 DEF Settled, Parts
<1> QED
  BY <1>1, <1>2, BindingNext, PTL DEF Spec

==============================================================================
