----------------------------- MODULE VfioManage -----------------------------
(***************************************************************************)
(* The vfio-manage program: several processes that bind NVIDIA devices to  *)
(* a VFIO driver or release them, one sysfs operation at a time.  What the *)
(* writes do is the kernel's and external; it is modelled as the code      *)
(* relies on it: the write to driver_override always takes, a driver's     *)
(* bind file accepts a device that has no driver and whose override names  *)
(* it, a device's driver/unbind file detaches the driver bound at that     *)
(* moment and does not exist when there is none.                           *)
(***************************************************************************)
EXTENDS Naturals, Sequences, FiniteSets

CONSTANTS
  Procs,       \* processes running vfio-manage, one command at a time each
  Bus,         \* the NVIDIA functions of the node, in the order they are
               \* listed: GPUs before NVSwitches, each by address
  Gpus,        \* those of class VGA or 3D, virtual functions included
  Vfs,         \* the virtual functions among the GPUs
  Vga,         \* the GPUs of class VGA, which have auxiliary devices
  Switches,    \* the NVSwitches
  Consumers,   \* the consumer: entries of a VGA device, in directory order
  Variant,     \* the VFIO driver modules.alias names for a device
  Native,      \* the driver that claims a device when none is overridden
  Commands,    \* the command lines processes are started with
  Limit,       \* how often each kind of Disturbance happens at most
  All,         \* --all, in place of a --device-id
  None

Range(f) == {f[x] : x \in DOMAIN f}
Functions == Range(Bus)
Devices == Functions \cup UNION {Range(Consumers[g]) : g \in Vga}
Vfio == {Variant[d] : d \in Functions}
Drivers == Vfio \cup {Native, None}
Disturbances == {"kill", "fault", "probe"}
\* What changes a device under a process that works on it.
Others == {"bind", "unbind", "probe"}

CommandLines ==
  [op : {"bind", "unbind"}, dev : Functions \cup {All}, switches : BOOLEAN]

ASSUME DevicesAssumption ==
  /\ Vfs \subseteq Gpus /\ Vga \subseteq Gpus \ Vfs
  /\ Bus \in Seq(Gpus \cup Switches)
  /\ Functions = Gpus \cup Switches /\ Gpus \cap Switches = {}
  \* the consumers of a card are no NVIDIA functions, and belong to it alone
  /\ \A g \in Vga : /\ Consumers[g] \in Seq(Range(Consumers[g]))
                    /\ Range(Consumers[g]) \cap Functions = {}
                    /\ \A h \in Vga \ {g} :
                         Range(Consumers[g]) \cap Range(Consumers[h]) = {}
  /\ Commands \subseteq CommandLines
  /\ Limit \in [Disturbances -> Nat]
  /\ None \notin Devices /\ All \notin Devices
  /\ Native \notin Vfio /\ None \notin Vfio \cup {Native}

VARIABLES
  driver,      \* the driver a device is bound to
  override,    \* its driver_override
  proc,        \* the processes
  disturbed,   \* history: what others did to devices since p's command began
  used         \* history: the disturbances so far

sysfs == <<driver, override>>
vars == <<driver, override, proc, disturbed, used>>

Labels == {"idle", "enumerate", "load", "clear", "stat", "readlink",
           "detach", "override", "attach", "aux"}
Statuses == {"none", "running", "ok", "error", "killed"}

Process ==
  [cmd : Commands \cup {None}, pc : Labels, exit : Statuses,
   failed : SUBSET Functions,     \* the devices whose failure was logged
   todo : SUBSET Functions,       \* what the loop has not done with yet
   on : Devices \cup {None},      \* the device unbind or bind is called for
   snap : [Devices -> Drivers]]   \* device.Driver, as it was enumerated

TypeOK ==
  /\ driver \in [Devices -> Drivers]
  /\ override \in [Devices -> Vfio \cup {None}]
  /\ disturbed \in [Procs -> SUBSET Others]
  /\ used \in [Disturbances -> Nat]
  /\ proc \in [Procs -> Process]

-----------------------------------------------------------------------------
(* Devices and commands.                                                   *)

\* The one auxiliary device the code looks for: the first consumer.
AuxOf(d) == IF d \in Vga /\ Consumers[d] # <<>> THEN Consumers[d][1] ELSE None

\* The one of S that is listed first.
First(S) ==
  Bus[CHOOSE i \in DOMAIN Bus :
        Bus[i] \in S /\ \A j \in DOMAIN Bus : Bus[j] \in S => i <= j]

\* As the code would be if --all listed virtual functions too.
SelectedWithVfs(c) ==
  IF c.dev = All THEN Gpus \cup (IF c.switches THEN Switches ELSE {})
  ELSE {c.dev} \cap Gpus
\* GetGPUs and GetNVSwitches for --all; GetGPUByPciBusID otherwise, which
\* returns nothing for a device that is no GPU.
Selected(c) ==
  IF c.dev = All
  THEN (Gpus \ Vfs) \cup (IF c.switches THEN Switches ELSE {})
  ELSE {c.dev} \cap Gpus

\* The devices a command names, and all it is about.
Named(c) ==
  IF c.dev # All THEN {c.dev}
  ELSE (Gpus \ Vfs) \cup (IF c.switches THEN Switches ELSE {})
WithAux(S) == S \cup ({AuxOf(d) : d \in S} \ {None})
Reach(c) == WithAux(Named(c))

-----------------------------------------------------------------------------
(* Control flow of a process.                                              *)

NoSnap == [d \in Devices |-> None]
Idle == [cmd |-> None, pc |-> "idle", todo |-> {}, on |-> None,
         snap |-> NoSnap, exit |-> "none", failed |-> {}]

Init ==
  /\ driver \in {[d \in Devices |-> Native], [d \in Devices |-> None]}
  /\ override = [d \in Devices |-> None]
  /\ proc = [p \in Procs |-> Idle]
  /\ disturbed = [p \in Procs |-> {}]
  /\ used = [k \in Disturbances |-> 0]

Spend(k) == used[k] < Limit[k] /\ used' = [used EXCEPT ![k] = @ + 1]

Op(p) == proc[p].cmd.op
Main(p) == First(proc[p].todo)
OnMain(p) == proc[p].on = Main(p)

Becomes(p, r) == proc' = [proc EXCEPT ![p] = r]
At(p, l) == [proc[p] EXCEPT !.pc = l]

\* The command returns; its locals are gone.
Ended(p, status) ==
  [proc[p] EXCEPT !.pc = "idle", !.exit = status, !.todo = {}, !.on = None,
                  !.snap = NoSnap]

\* The loop of bindAll and unbindAll over the devices that remain.
Loop(p, r, rest) ==
  IF rest = {} THEN [Ended(p, "ok") EXCEPT !.failed = r.failed]
  ELSE [r EXCEPT !.todo = rest, !.on = First(rest),
                 !.pc = IF Op(p) = "bind" THEN "load" ELSE "clear"]

NextDevice(p) == Loop(p, proc[p], proc[p].todo \ {Main(p)})

\* As the code would be if the first failure ended the loop.
DeviceFailureEnds(p) ==
  IF proc[p].cmd.dev # All \/ proc[p].pc = "enumerate" THEN Ended(p, "error")
  ELSE [Ended(p, "ok") EXCEPT !.failed = @ \cup {Main(p)}]
\* A failed device is logged and skipped under --all, and is the command's
\* error under --device-id.
DeviceFails(p) ==
  IF proc[p].cmd.dev # All \/ proc[p].pc = "enumerate" THEN Ended(p, "error")
  ELSE Loop(p, [proc[p] EXCEPT !.failed = @ \cup {Main(p)}],
            proc[p].todo \ {Main(p)})

\* As the code would be if UnbindFromDriver left out the auxiliary device.
AfterUnbindOfMain(p) ==
  IF Op(p) = "bind" THEN At(p, "override") ELSE NextDevice(p)
\* bind follows unbind in BindToVFIODriver; UnbindFromDriver is done with it.
AfterUnbind(p) ==
  IF Op(p) = "bind" THEN At(p, "override")
  ELSE IF OnMain(p) THEN At(p, "aux") ELSE NextDevice(p)

\* A change of a device's driver or override, seen by the other commands.
Touch(p) ==
  disturbed' = [q \in Procs |-> IF q = p THEN disturbed[q]
                                ELSE disturbed[q] \cup {Op(p)}]

Begin(p, c) ==
  /\ proc[p].pc = "idle"
  /\ Becomes(p, [Idle EXCEPT !.cmd = c, !.pc = "enumerate",
                             !.exit = "running"])
  /\ disturbed' = [disturbed EXCEPT ![p] = {}]
  /\ UNCHANGED <<sysfs, used>>

\* As the code would be if it passed over devices that have no driver.
EnumerateBound(p) ==
  /\ proc[p].pc = "enumerate"
  /\ Becomes(p, Loop(p, [proc[p] EXCEPT
                  !.snap = IF Op(p) = "bind" THEN driver ELSE @],
                {d \in Selected(proc[p].cmd) :
                   Op(p) = "bind" \/ driver[d] # None}))
  /\ UNCHANGED <<sysfs, disturbed, used>>
\* The devices with the driver each is bound to now, which bind compares with
\* later.
Enumerate(p) ==
  /\ proc[p].pc = "enumerate"
  /\ Becomes(p, Loop(p, [proc[p] EXCEPT
                  !.snap = IF Op(p) = "bind" THEN driver ELSE @],
                Selected(proc[p].cmd)))
  /\ UNCHANGED <<sysfs, disturbed, used>>

\* FindBestVFIOVariant, modprobe and the search for the driver's directory; a
\* device that had the driver when it was enumerated is left as it is.
LoadVariant(p) ==
  /\ proc[p].pc = "load"
  /\ Becomes(p, At(p, IF proc[p].snap[Main(p)] = Variant[Main(p)]
                      THEN "aux" ELSE "clear"))
  /\ UNCHANGED <<sysfs, disturbed, used>>

-----------------------------------------------------------------------------
(* unbind and bind of the device a process is on.                          *)

\* As the code would be if unbind looked for a driver first ...
ClearOverrideIfBound(p) ==
  /\ proc[p].pc = "clear"
  /\ override' = [override EXCEPT ![proc[p].on] =
                    IF driver[proc[p].on] = None THEN @ ELSE None]
  /\ Becomes(p, At(p, "stat")) /\ Touch(p)
  /\ UNCHANGED <<driver, used>>
\* ... or kept the device to the driver it has.
ClearOverrideToDriver(p) ==
  /\ proc[p].pc = "clear"
  /\ override' = [override EXCEPT ![proc[p].on] = driver[proc[p].on]]
  /\ Becomes(p, At(p, "stat")) /\ Touch(p)
  /\ UNCHANGED <<driver, used>>
ClearOverride(p) ==
  /\ proc[p].pc = "clear"
  /\ override' = [override EXCEPT ![proc[p].on] = None]
  /\ Becomes(p, At(p, "stat")) /\ Touch(p)
  /\ UNCHANGED <<driver, used>>

StatDriver(p) ==
  /\ proc[p].pc = "stat"
  /\ Becomes(p, IF driver[proc[p].on] = None THEN AfterUnbind(p)
                ELSE At(p, "readlink"))
  /\ UNCHANGED <<sysfs, disturbed, used>>

ReadDriverLink(p) ==
  /\ proc[p].pc = "readlink"
  /\ Becomes(p, IF driver[proc[p].on] = None THEN DeviceFails(p)
                ELSE At(p, "detach"))
  /\ UNCHANGED <<sysfs, disturbed, used>>

Detach(p) ==
  /\ proc[p].pc = "detach"
  /\ IF driver[proc[p].on] = None
     THEN Becomes(p, DeviceFails(p)) /\ UNCHANGED <<driver, disturbed>>
     ELSE /\ driver' = [driver EXCEPT ![proc[p].on] = None]
          /\ Becomes(p, AfterUnbind(p)) /\ Touch(p)
  /\ UNCHANGED <<override, used>>

SetOverride(p) ==
  /\ proc[p].pc = "override"
  /\ override' = [override EXCEPT ![proc[p].on] = Variant[Main(p)]]
  /\ Becomes(p, At(p, "attach")) /\ Touch(p)
  /\ UNCHANGED <<driver, used>>

\* As the code would be if a failed bind took its override back.
AttachOrRevert(p) ==
  /\ proc[p].pc = "attach"
  /\ LET t == proc[p].on
         accepted == driver[t] = None /\ override[t] = Variant[Main(p)]
     IN IF accepted
        THEN /\ driver' = [driver EXCEPT ![t] = override[t]]
             /\ Becomes(p, IF OnMain(p) THEN At(p, "aux") ELSE NextDevice(p))
             /\ Touch(p) /\ UNCHANGED override
        ELSE /\ Becomes(p, DeviceFails(p)) /\ UNCHANGED <<driver, disturbed>>
             /\ override' = [override EXCEPT ![t] = None]
  /\ UNCHANGED used
Attach(p) ==
  /\ proc[p].pc = "attach"
  /\ LET t == proc[p].on
         accepted == driver[t] = None /\ override[t] = Variant[Main(p)]
     IN IF accepted
        THEN /\ driver' = [driver EXCEPT ![t] = override[t]]
             /\ Becomes(p, IF OnMain(p) THEN At(p, "aux") ELSE NextDevice(p))
             /\ Touch(p)
        ELSE Becomes(p, DeviceFails(p)) /\ UNCHANGED <<driver, disturbed>>
  /\ UNCHANGED <<override, used>>

\* As the code would be if an auxiliary device kept the driver it has.
FindAuxDriverless(p) ==
  /\ proc[p].pc = "aux"
  /\ LET a == AuxOf(Main(p))
         done == a = None \/ (Op(p) = "bind" /\ driver[a] # None)
     IN Becomes(p, IF done THEN NextDevice(p)
                   ELSE [At(p, "clear") EXCEPT !.on = a])
  /\ UNCHANGED <<sysfs, disturbed, used>>
\* getGraphicsAuxDev, and what its callers do with what it finds.
FindAux(p) ==
  /\ proc[p].pc = "aux"
  /\ LET a == AuxOf(Main(p))
         done == a = None \/ (Op(p) = "bind" /\ driver[a] = Variant[Main(p)])
     IN Becomes(p, IF done THEN NextDevice(p)
                   ELSE [At(p, "clear") EXCEPT !.on = a])
  /\ UNCHANGED <<sysfs, disturbed, used>>

-----------------------------------------------------------------------------
(* What goes wrong around the processes.                                   *)

\* A file operation or modprobe fails and changes nothing.  An error of Stat
\* other than absence is ignored by unbind, Readlink then reports it.
Fault(p) ==
  /\ proc[p].pc \notin {"idle", "stat"}
  /\ Spend("fault")
  /\ Becomes(p, DeviceFails(p))
  /\ UNCHANGED <<sysfs, disturbed>>

\* The process dies with its container.
Kill(p) ==
  /\ proc[p].pc # "idle"
  /\ Spend("kill")
  /\ Becomes(p, Ended(p, "killed"))
  /\ UNCHANGED <<sysfs, disturbed>>

\* The native driver is loaded and claims the devices nothing else holds.
NativeProbe ==
  /\ Spend("probe")
  /\ driver' = [d \in Devices |->
                 IF driver[d] = None /\ override[d] = None THEN Native
                 ELSE driver[d]]
  /\ disturbed' = [p \in Procs |-> disturbed[p] \cup {"probe"}]
  /\ UNCHANGED <<override, proc>>

Step(p) ==
  \/ Enumerate(p) \/ LoadVariant(p) \/ ClearOverride(p) \/ StatDriver(p)
  \/ ReadDriverLink(p) \/ Detach(p) \/ SetOverride(p) \/ Attach(p)
  \/ FindAux(p)

Next ==
  \/ \E p \in Procs : \/ \E c \in Commands : Begin(p, c)
                      \/ Step(p) \/ Fault(p) \/ Kill(p)
  \/ NativeProbe

Spec == Init /\ [][Next]_vars

\* A started process is scheduled, and a release of every device that was
\* killed or returned an error is started again, as the init container it
\* belongs to is.  A failure that is only logged is not retried.
Releases == {c \in Commands : c.op = "unbind" /\ c.dev = All}
Retry(p) ==
  proc[p].exit \in {"error", "killed"} /\ \E c \in Releases : Begin(p, c)
FairSpec == Spec /\ \A p \in Procs : WF_vars(Step(p)) /\ WF_vars(Retry(p))

-----------------------------------------------------------------------------
(* Properties.                                                             *)

Succeeded(p, op) == proc[p].exit = "ok" /\ Op(p) = op

Free(d) == driver[d] = None /\ override[d] = None

\* An unbind that returns no error leaves every device it names, but those whose
\* failure it logged, and their auxiliary devices with no driver and no
\* override: one device that fails keeps no other from being released, whatever
\* killed or failed commands left behind it and whatever other processes
\* release meanwhile, until one is bound again.
UnbindReleases ==
  \A p \in Procs :
    /\ Succeeded(p, "unbind") /\ disturbed[p] \subseteq {"unbind"}
    /\ proc[p].cmd.dev \notin Switches
    => \A d \in WithAux(Named(proc[p].cmd) \ proc[p].failed) : Free(d)

\* A bind that returns no error leaves each GPU it names, but those whose failure
\* it logged, and the GPU's auxiliary device bound to the driver chosen for the
\* GPU, whatever state an earlier command left them in, as long as nobody else
\* works on devices.
BindTakes ==
  \A p \in Procs : Succeeded(p, "bind") /\ disturbed[p] = {}
    => \A d \in (Named(proc[p].cmd) \ proc[p].failed) \cap Gpus :
         /\ driver[d] = Variant[d]
         /\ AuxOf(d) # None => driver[AuxOf(d)] = Variant[d]

\* Releases that race (a preStop hook and the driver manager) fail on each
\* other's devices and log it; once all have returned, everything is released
\* all the same, also when some process was killed before its last command.
UnbindsConverge ==
  (/\ used["fault"] = 0
   /\ \A p \in Procs : /\ proc[p].exit = "ok" /\ proc[p].cmd \in Releases
                       /\ disturbed[p] \subseteq {"unbind"})
    => \A p \in Procs : \A d \in Reach(proc[p].cmd) : Free(d)

\* Binds that race leave every device bound and overridden once all have
\* returned, although some of them report failures.
BindsConverge ==
  (/\ used["fault"] = 0 /\ used["kill"] = 0
   /\ \A p \in Procs : /\ proc[p].exit = "ok" /\ proc[p].cmd.dev = All
                       /\ Op(p) = "bind" /\ disturbed[p] \subseteq {"bind"})
    => \A p \in Procs : \A d \in Reach(proc[p].cmd) \cap Functions :
         \A t \in {d, AuxOf(d)} \ {None} :
           driver[t] = Variant[d] /\ override[t] = Variant[d]

\* A process changes nothing outside the reach of its command: with --all
\* neither a virtual function nor, without the option, an NVSwitch.
StaysInReach(p) ==
  \A d \in Devices :
    Step(p) /\ (driver'[d] # driver[d] \/ override'[d] # override[d])
      => d \in Reach(proc[p].cmd)
OnlySelected == [][\A p \in Procs : StaysInReach(p)]_vars

\* A release of every device, once begun, frees them all even if it is killed
\* on the way and races another one that is, unless devices are bound
\* meanwhile.
Binding == \E q \in Procs : proc[q].pc # "idle" /\ Op(q) = "bind"
ReleaseCompletes ==
  \A p \in Procs : \A c \in Releases :
    (/\ proc[p].pc # "idle" /\ proc[p].cmd = c
     /\ disturbed[p] \subseteq {"unbind"} /\ ~Binding)
      ~> Binding \/ \A d \in Reach(c) : Free(d)

\* bind.go:151: "Despite its name, GetGPUByPciBusID returns any NVIDIA PCI
\* device (GPU, NVSwitch, etc.) at the specified address": a successful bind
\* of an NVSwitch with BIND_NVSWITCHES binds it.
SwitchByIdIsBound ==
  \A p \in Procs :
    /\ Succeeded(p, "bind") /\ proc[p].failed = {} /\ disturbed[p] = {}
    /\ proc[p].cmd.switches
    => \A d \in Reach(proc[p].cmd) \cap Switches : driver[d] = Variant[d]

\* main.go:973: "If vfio-pci driver is in use, ensure we unbind it from all
\* devices", on which the error returned at main.go:489 rests: when the unbind
\* --all that nobody disturbs exits with success, no GPU is left to it.
ReleasedAtSuccess ==
  \A p \in Procs :
    /\ proc[p].exit = "ok" /\ proc[p].cmd \in Releases /\ disturbed[p] = {}
    => \A d \in Gpus \ Vfs : driver[d] \notin Vfio

\* The same line, of the NVSwitches: after an unbind --all that logged no
\* failure no device is left to it.
NoDeviceOnVfio ==
  \A p \in Procs :
    /\ Succeeded(p, "unbind") /\ proc[p].failed = {} /\ disturbed[p] = {}
    /\ proc[p].cmd.dev = All
    => \A d \in Devices : driver[d] \notin Vfio
=============================================================================
