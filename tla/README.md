# Verification of the NVIDIA driver-manager for Kubernetes

TLA+ models of the driver-manager, checked with TLC on small instances, and
theorems about them, proved with TLAPS for every instance. The reference is the
code: `cmd/driver-manager`, `cmd/vfio-manage` and `internal/`.

## The system

The driver-manager is the init container of the NVIDIA driver's pod. On every
start it runs one command, `uninstall_driver`, which makes the node ready for the
driver container that follows: it turns the operands of the GPU Operator off by
rewriting node labels, gets GPU workloads off the node, unloads the old kernel
modules, unmounts the old driver's files, and turns the operands on again. It
keeps nothing but what is on the node and the host: when it fails or is killed
(it handles no signal), the kubelet starts it again with an empty memory.

| component | source | its state | its operations |
|---|---|---|---|
| `uninstall_driver` | `cmd/driver-manager/main.go` | `config`, `componentState` (the label values it fetched) | `uninstallDriver` and its three paths: *fresh* (no driver is loaded), *skip* (the wanted driver is loaded) and *full*; `cleanupOnFailure` |
| label rewriting | `main.go` `maybeSetPaused`, `maybeSetTrue` | none | pause a value, restore it |
| Kubernetes client | `internal/kubernetes/client.go` | none | labels and annotations, cordon, waits, claim-holders, GPU pod eviction, node drain |
| drain helper | vendored `kubectl/pkg/drain` | one goroutine per evicted pod | `GetPodsForDeletion`, `DeleteOrEvictPods`, `RunNodeDrain` |
| kernel modules, mounts | `main.go`, `internal/linuxutils/kmod.go` | the kernel's | `unloadDriver`, `unmountRootfs`, `unloadNouveau`; `List`, `Load` |
| `vfio-manage` | `cmd/vfio-manage`, `internal/nvpassthrough/nvpassthrough.go` | sysfs: `driver`, `driver_override` of each device | bind and unbind one device or all, with the auxiliary graphics device |
| VFIO variant selection | `internal/nvpassthrough/modalias.go` | none | parse modaliases, choose the best alias |
| `preflight_check`, flags, version, `scripts/vfio-manage` | | | a stub; parsing; a superseded script that is not installed |

**Interaction.** The manager and the pods talk through the node object alone: a label
that pauses an operand makes its DaemonSet withdraw the pod, and the manager polls until
the pod is gone. Three other parties matter to the order of things. The *DRA
kubelet-plugin* (`draDriver`) is an operand too, but it is needed to terminate every pod
that holds a ResourceClaim, so it has to leave last. The *scheduler* can bring a
workload in between any two steps; a cordon stops it from choosing the node, not from
binding a pod it had chosen the node for. The *driver container* starts when the command
succeeds; it loads the modules, mounts its files and records the digest of its
configuration in `/run/nvidia/nvidia-driver.state`, which the manager reads to decide
whether the driver may stay.

**What is hard.** Each attempt may stop anywhere, and the next one has to make
sense of half-paused labels, a cordoned node, half-unloaded modules. Patches are
retried, and one whose answer was lost may have been applied. Labels are read at
the start and written back minutes later. Waits depend on pods that depend on the
plugin that the manager itself withdraws. Some waits have no timeout. A new driver
pod may bring another configuration in the middle of all this.

What makes each part correct:

- labels: an operand asks for what the administrator asked for, whatever the
  attempts did; success leaves nothing paused; what was paused comes back;
- order: no operand runs when modules are unloaded and files unmounted; the
  plugin outlives the claim-holders; nobody keeps the old driver's files;
- host: on success the old driver is gone, or kept as a whole;
- workloads: the node is uncordoned again; the upgrade policy, when it owns the
  drain, is not interfered with;
- progress: the upgrade ends.

## Modules

| module | what it is |
|---|---|
| `NodeLabels` | label values and their rewriting, and the sets of labels and pods each patch and wait covers |
| `LabelCodec` | the texts behind those values, through attempts, kills, edits and refused patches |
| `LabelCodec_proofs` | theorems about `LabelCodec` |
| `DriverManager` | `uninstall_driver`: the process, the node, the pods and the host around it |
| `OperandGate` | abstract: what the command promises the operands; `DriverManager` implements it |
| `OperandGate_proofs` | what the gate keeps, proved |
| `DriverManager_proofs` | theorems about `DriverManager` and their proofs: types, labels, the operands' eviction, and that it implements `OperandGate` |
| `DriverManager_host` | theorems about what an attempt leaves behind: the host, the cordon, the claim-holders, stale pods |
| `PodDrain` | the eviction of GPU pods, pod by pod and goroutine by goroutine |
| `PodDrain_proofs` | theorems about `PodDrain`, the refinement of `Evacuation` among them |
| `Evacuation` | abstract: what a drain promises; `PodDrain` implements it |
| `ClaimHolders` | the check for pods that hold a ResourceClaim of the GPU driver |
| `ClaimHolders_proofs` | theorems about `ClaimHolders` |
| `VfioManage` | `vfio-manage`: devices bound and released by several processes |
| `VfioManage_proofs` | theorems about `VfioManage` |
| `ModAlias` | the choice of a device's VFIO driver |
| `ModAlias_proofs` | theorems about `ModAlias` |
| `MC<module>` | instances of the module for TLC: constants and bounds |

`DriverManager` is the composition: it has `PodDrain` as the steps from
`CountGPUPods` to `GPUPodsDrained`, `ClaimHolders` as the step `CheckHolders`,
`vfio-manage unbind --all` as the step `UnbindVfioPCI`, and `LabelCodec`'s texts as
the values of `NodeLabels`. The four detailed modules check what these steps take
for granted, and find where they may not.

**`NodeLabels`.** A label value is its `base` (missing, empty, `false`, `true`, or
another text) and whether it is `paused`. `maybeSetPaused` and `maybeSetTrue` are
modelled by what they do to the two; that the texts behave like that is `LabelCodec`'s
invariant `Commutes`, proved for texts of any length. Operands are named after the
fields of `componentState`. Which labels a patch contains and which pods a wait covers
differ from list to list in the code (`AlwaysPaused`, `PausedIfDeployed`,
`AlwaysWaited`, `WaitedIfDeployed`), and much depends on these lists agreeing.

**`DriverManager`.** `pc` names the call the process is at, `path` the part of
`uninstallDriver` it took. One action is one call with an effect of its own or one
observation others can interfere with; consecutive code without either is one
action.

| state | in the code |
|---|---|
| `comps`, `policy` | `dm.components` |
| `cfg` | `dm.config` and `DRIVER_CONFIG_DIGEST` |
| `tries` | the attempts inside `UpdateNodeLabels` |
| `todo`, `failed` | the loop variables and collected errors of `fetchCurrentLabels`, `waitForPodsToTerminate`, `evictPods`, `unloadDriver` |
| `attempt` | first or second `cleanupDriver` |
| `labels`, `unschedulable`, `annotation` | the node object |
| `pod`, `wl` | the pods of operands and of users; a workload is pending, assigned (the scheduler chose the node), running (bound), terminating or gone |
| `host`, `stale`, `vfio`, `digest` | loaded modules and installed drivers, mounts and PID file, devices on vfio-pci, the state file |
| `want` | history: what the administrator asked for |
| `ownCordon` | history: the manager asked for the cordon and never asked for it to be lifted since |
| `inFlight` | history: the pods assigned but not bound when `CheckHolders` passed |
| `used` | the disturbances spent so far, bounded by `Limit` |

Around the process stand the kubelet (`Restart`, pods that start and end), the DaemonSet
controller, the driver container (`InstallDriver`), the administrator (`EditLabel`), the
upgrade controller (`EditPolicy`: the annotation changes at any time), and `Crash`,
`Reboot`, `Redeploy`. The scheduler works in two steps: it chooses a node that is not
cordoned (`ScheduleWorkload`), and binds the pod later, whatever was done to the node in
between (`BindWorkload`); the cordon stops only the first. A pod that runs across an
unmount becomes `stale`: it sees the old files, now empty. A pod in `ClaimPods` or
`ClaimOperands` ends only while the kubelet-plugin serves.

Abstractions. Labels are fetched, pods awaited and modules unloaded in any order
(`nvidia` last), where the code has a fixed one; the poll interval is left out; the
timeout of a wait may strike whenever the pod is still there (budget `timeout`), and
does strike when the pod cannot leave; an operand's pod is placed by any value that is
not empty, `false` or paused. These allow more behaviours than the code has. A failed
call of the API or the host is a `fault`, and one that writes may have been applied
although its answer was lost; a state file that cannot be read, which the code takes for
a changed configuration, has the budget `misread`. Left out: a disruption budget that
refuses for ever, a workload created again under its name, and which step of
`vfio-manage` failed for a device (the devices that remain bound are any subset).
Removing the PID file fails with a log message only.

**`LabelCodec`.** A text is a sequence of symbols; a symbol is a character or a run
of characters the code never takes apart, and `Weight` is its length, so that the
limit of 63 characters is exact. `PausedText` and `TrueText` are the two functions of
the code on texts, the regular expression and the trim included: each is the
subsequence (`SubText`) of the symbols that it keeps. `Patch` is refused as a whole
when one of its values is not valid.

**`OperandGate`.** The driver is a resource with readers, the operands' pods, and a
writer, the attempt that takes the driver away. `DriverManager!Gate` maps the
writer's stay to the labels of `pc` from the wait to the rescheduling, an open gate
to a label that deploys, `Firm` to the requests the waits cover, and the files to
the mount. It leaves out labels' history, failures, retries, paths and workloads.

**`PodDrain`.** `CountGPUPods` and `ListPods` are the two lists of
`DeleteOrEvictPods`, with the filters of the drain helper in between. A filter whose
request fails leaves its pod out, and the drain goes on all the same if the two numbers
then agree; a list that fails makes the process panic. Every listed
pod then has a goroutine (`routine`), which evicts by name (`EvictAccepted`,
`EvictRefused` for a disruption budget, `EvictForbidden` in a namespace that is being
deleted), holds the pod it last read (`active`) and waits until that one is gone or
replaced. Pods are told apart by `gen`, their UID. Around the drain pods finish, are
deleted, vanish, are replaced on this node or another one, and arrive late.
`Evacuation` knows the pods that exist, those the drain chose, and its result.

**`ClaimHolders`.** One list and one request per claim, against a controller that
generates claims and writes their names into the pod's status, a scheduler that
reserves them before it binds the pod, and pods that finish and take generated
claims with them. A reference whose name is not written yet is passed over.

**`VfioManage`.** Each sysfs operation is an action: a process enumerates the devices
with their drivers (`snap`) and keeps the set of those still to do (`todo`), which it
works off in listing order, GPUs before NVSwitches; for each it clears the override,
looks at the driver link, reads it, writes to `unbind`, sets the override and writes to
`bind`, and does the same for the auxiliary device it finds. `--all` logs a device that
fails and goes on (`failed` is their set), `--device-id` returns the error. `Fault`, `Kill` and
`NativeProbe` (the NVIDIA driver is loaded and takes what nothing else claims) strike
between any two operations. What the kernel does with a write is external.

**`ModAlias`.** A modalias is a sequence of symbols: the lower-case letters the
delimiters are made of, which the code cuts at their first occurrence, and `Digits`,
of which the values between them consist, as the kernel writes numbers with upper-case
digits. `Cuts` is the chain of `strings.Cut`, each in what the one before it left;
`Written` is how the kernel writes an identity down. The file is parsed and compared
line by line. `FileUnreadable` is every error return of `FindBestVFIOVariant` that does
not depend on a text: of reading the device's file, of `uname` and of reading
`modules.alias`.

## Runs

`tlc -config <cfg> MC<module>`; the cfg of a run is `<module>_<instance>.cfg`.

### DriverManager

Deadlock is not checked: the system stops when the driver runs, the containerized
driver is disabled, or the bounded disturbances are spent.

| run | instance | properties |
|---|---|---|
| `labels` | a custom operand and the GPU clients (one label of each conditional kind), two configurations of which one does not name the custom label; a node with a driver of its own among them; two faults, a crash, a redeployment, an edit | `TypeOK`, `IntentPreserved`, `RestoredAtSuccess`, `EvictedBeforeUnload`, `ImplementsGate` |
| `dra` | `draValidator` and the plugin, a claim-holding workload and one of a DaemonSet, chosen and bound at any moment; a fault, a misread, a timeout, a crash and a redeployment or a change of the policy | `PluginOutlivesHolders`, `NoStaleBinding` |
| `host` | two modules, a workload and a DaemonSet's; every way to drain; a booted node, one with `nouveau`, the driver and a device on vfio-pci together, and that one under the upgrade policy, which may change during an attempt; a fault, a timeout, a crash and a redeployment | `UninstalledAtSuccess`, `CordonReleased`, `PolicyOwnsDrain` |
| `live` | `FairSpec`: `draValidator`, the GPU clients (a label that only some lists name), the plugin, a running claim-holding workload; a configuration that evicts, one that drains without a timeout and waits for MOFED, one that keeps the driver; the booted node and the one with everything to remove; two faults, a timeout, a crash | `Reconciles`, `PausedIsRestored` |

Bounds. One operand of each kind is enough because operands meet only through the
patches, whose effect on a label depends on its kind alone (the theorems hold for
all of them at once). `PatchSteps` is 2 instead of 7: the first and the last
attempt of a patch are what the code tells apart. One crash reaches a state left at
any step; the second fault falls on the attempt that follows. The budgets bound
how often the surroundings interfere, never what the process does. `NoStaleBinding` is
checked of the step that reports success: it does not speak of an operand whose label
is being edited meanwhile, and of that one nothing is known any more afterwards.

### The other modules

| run | instance | properties |
|---|---|---|
| `LabelCodec_texts` | two labels; values of one and two words, with double underscores, beginning with `true`, one that leaves room for the marker and one a character too long | `TypeOK`, `Commutes`, `TextsStandForWant`, `RestoringSucceeds`, `RoomForMarker` |
| `ClaimHolders_check` | a pod with a generated claim and one of another driver, two pods that share one; a failed request | `TypeOK`, `NoHolderMissed`, `FailsOnlyByFault` |
| `PodDrain_evict` | `FairSpec`: a pod with a claim, one without a controller, with local data, in a namespace that is being deleted, and one of a DaemonSet that arrives late; the first two finished or not, deleted or not; without `force`; a fault and a replacement | `TypeOK`, `CountedAreGone`, `KeepsPromise`, `TimeoutEndsDrain` |
| `VfioManage_alone` | one process, every command line, on a graphics card with two consumers, a GPU with a virtual function and an NVSwitch; one kill, fault and probe | `TypeOK`, `UnbindReleases`, `BindTakes`, `OnlySelected` |
| `VfioManage_race` | `FairSpec`: two processes that release all devices or bind them, on a card with an auxiliary device; two kills | `UnbindReleases`, `UnbindsConverge`, `BindsConverge`, `ReleaseCompletes` |
| `ModAlias_choice` | every device that differs in its first or last value, every truncated text, every file of up to three lines of patterns, other drivers' lines and malformed ones | `TypeOK`, `BestSoFar`, `MostSpecific`, `ParsesWhatIsWritten` |

Bounds. Labels of one patch meet only when one of them makes the API server refuse
all of them, so two are enough. A drain treats each pod by itself but for the two
numbers; the three pods get every answer to an eviction. That each filter spares what
it should, `SparesOthers`, is proved and has a cfg of its own beside the runs,
`PodDrain_spares`: one pod for each filter, which it alone keeps from being evicted, and
a late one, because a drain that counts a pod which may not be deleted goes on only when
another one arrives. Devices meet through auxiliary devices and through processes
that work on the same one: a card, its consumer and two processes have both. The
matching loop compares a line with the best one so far, hence three lines: a worse
one, a tie and a better one in every order. Which value differs between two patterns
is of no consequence to the code, which compares all seven alike, so two of them vary.

Deadlock is checked in `LabelCodec_texts`, `ClaimHolders_check` and
`VfioManage_alone`. A drain and a search for a driver end, and so does the last
command of two processes.

### What does not hold

Each of these configurations checks one statement of a comment or of the project's
documentation, and TLC finds a behaviour of the code that breaks it. `panic` and
`remount` are runs of the project and its findings; the others are kept beside them, to
be run by hand.

| cfg | statement | what happens |
|---|---|---|
| `DriverManager_panic` | client.go:250: "DrainNode drains a Node" | its helper has no `Out`; the first pod it evicts makes the process panic, with the node cordoned and without cleanup |
| `DriverManager_remount` | main.go:473-477: operands are not put back before the stale mount is removed | a failed unmount puts them back, and the next attempt finds no driver loaded and unmounts under them |
| `DriverManager_daemonsets` | README.md:7: the drain ignores DaemonSet pods | `DrainNode` leaves `IgnoreAllDaemonSets` unset: a node with a DaemonSet pod in the selection fails the drain |
| `DriverManager_cordon` | README.md:11: the node is uncordoned | a killed attempt leaves its cordon; a driver pod with the running configuration takes the skip path, which never uncordons |
| `DriverManager_rollout` | main.go:358-361: the plugin must outlive the claim-holders | an attempt killed after pausing the plugin is followed by one that evicts claim-holders and waits, without a timeout, for what the absent plugin would have to release |
| `DriverManager_holders` | main.go:443: the plugin is drained "after the claim-holders and GPU workloads are gone" | a pod scheduled before the cordon is bound right after the check and holds a claim under the plugin that leaves |
| `DriverManager_revert` | main.go:369: the loaded driver is the desired one | a failed unload leaves `nvidia` without its other modules; the digest still matches once the configuration is reverted |
| `DriverManager_nvsm` | main.go:358-361: all operands are evicted | no wait covers the pods of `nvsm` and of the custom operand; modules are unloaded under them |
| `PodDrain_count` | main.go:406: "Delete any GPU pods running on the node" | the lists are compared by number: a pod that may not be deleted is forgotten when one that may arrives between them |
| `PodDrain_elsewhere` | client.go:271: "Draining node %s of any GPU pods" | an eviction that was refused is tried again by name, and ends the successor on another node |
| `VfioManage_logged` | main.go:973-975: "ensure we unbind it from all devices" | a device that cannot be released is logged by `vfio-manage`, which exits with success: `unbindVfioPCI` returns no error and the driver is installed beside it |
| `VfioManage_switch` | bind.go:151-152: the lookup "returns any NVIDIA PCI device" | it returns nothing for an NVSwitch; the command succeeds and binds nothing |
| `VfioManage_all` | main.go:973-975: "ensure we unbind it from all devices" | `unbind --all` leaves NVSwitches bound, unless the environment of the driver-manager happens to contain `BIND_NVSWITCHES` |

## Fairness

`FairSpec` assumes weak fairness of the process's own steps, of the kubelet
restarting a failed init container, of the driver container, of the DaemonSet
controller and the kubelet starting and stopping pods, and of a terminating
workload that can end. It does not assume that workloads come or end by
themselves. MOFED is assumed to get installed, because the code waits for it
without a timeout; nothing else would let `uninstall_driver` return. Faults,
timeouts and crashes are bounded, not fair: the question is whether the upgrade
ends once they stop. `Reconciles` and `PausedIsRestored` are checked with
operands everybody waits for; the pods of `nvsm` and of the custom operand, which
nobody waits for, are left out there, for they can keep a module in use at every
attempt if they never end.

`VfioManage!FairSpec` assumes that a started process is scheduled, and that a release
of every device that was killed or returned an error is started again, as the init
container it belongs to is. A failure that is only logged is not retried by anybody,
and `ReleaseCompletes` does not assume it; it may lose races against another release,
and then the other one frees the device. `PodDrain!FairSpec` assumes that the
goroutines are scheduled and that the timer of the drain timeout fires. Nothing is
assumed of the pods, of disruption budgets, or of the namespace that is going.

## Theorems

`tlapm` proves the modules `OperandGate_proofs`, `DriverManager_proofs`,
`DriverManager_host`, `LabelCodec_proofs`, `PodDrain_proofs`, `ClaimHolders_proofs`,
`VfioManage_proofs` and `ModAlias_proofs`. Every invariant and every action property of
a passing run, and both refinements, are theorems. All constants are arbitrary: any set
of operands, workloads, modules, pods, claims, devices, configurations, nodes and
processes, any texts, any number of patch attempts and of disturbances. What is assumed
of them is stated beside their declarations and evaluated by TLC in every run of the
module: `CustomBasesAssumption`, `DriverManagerAssumption` (among others that a booted
node with any of the driver's modules has `nvidia`, whose symbols the others use),
`CodecAssumption` (an administrator's own text is not one of the words the code knows
and does not contain the marker, and the marker alone is short enough for a label),
`KindsAssumption`, `ClaimsAssumption`, `DevicesAssumption`, `TextsAssumption` (no digit
is a letter of a delimiter) and `FilesAssumption`.

### `uninstall_driver`

- `TypeCorrect`: `Spec => []TypeOK`. One case per action; the calls that share
  `UpdateNodeLabels` and `UncordonNode` use a lemma about each.
- `IntentIsPreserved`, `RestoredWhenDone`. Neither is inductive: a patch writes what
  the process *remembers*. `LabelInv` adds that the value remembered of a label asks
  for what is wanted of it (`EditLabel` marks a label as contested when it is changed
  after it was read), that a label remembered as empty, which the optional lists leave
  out, is not paused, that a label the configuration does not name is remembered as
  empty, and that nothing is paused from the acknowledged restoring patch on
  (`Settled`). `LabelQuiet` covers every step that writes no label; `LabelPatch` the
  three patches, from what each does to one label (`PatchedLabel`, `RestoredLabel`);
  `LabelFetch` and `LabelEnvironment` the rest.
- `EvictedWhenUnloading`. `EvictInv` adds that from the acknowledged patch on the
  label of an awaited operand deploys nothing, and that its pod is gone or still on
  the list. It rests on `EvictPatched`: the labels the patch always rewrites, or
  rewrites when they have a value, cover exactly the pods that the waits cover, apart
  from `NotAwaited`; and on `LabelInv`, for an operand whose label the administrator
  edits meanwhile.
- `CommandImplementsGate`: `Spec => ImplementsGate`, the refinement that the run
  `labels` checks on an instance. Each action is a step of the gate (`GateAcquire` for
  `CheckSkip`, `GateUnload`, `GateUnmount`, `GateTurn` for the patches sent while the
  writer is out, `GateInstall`, `GateReboot`, `GatePods`, `GateEdit`) or leaves the
  gate alone (`GateApart`). `GateAcquire` rests on `EvictInv`, `GateEdit` on what
  `contested` means, and `GateUnload` and `GateUnmount` on `PathInv`: only `CheckSkip`
  chooses the path that unloads, and on the path that found no driver nothing loads
  one before the files are unmounted.
- `WriterIsAlone` and `NothingTakenFromUsers`: a gate keeps `Exclusive` and
  `TakenFromNobody`. With the refinement this carries over to the command:
  `OperandsStayOut` says that no awaited operand has a pod, or a label that would
  place one, from the end of the waits to the rescheduling, and `UnloadedUnderNobody`
  that a step which takes some modules and leaves others finds none of them with a
  pod, whatever fails, is killed or is edited meanwhile.
- `UninstalledWhenDone`: the driver's modules, `nouveau` and the mounted root are gone
  when the driver container is let in, except on the path that keeps the driver; and no
  device is left on vfio-pci if no call has failed. (One that failed may have been the
  release of a device, which is only logged: `VfioManage_logged`.) `StageInv` adds that
  `nvidia` is the last module to go; that the loop over the modules has unloaded each it
  has dealt with or has collected an error; and that what a path has taken from the host
  stays away until the driver container is let in.
- `PolicyDrains`, an action property of an attempt that found the drain owned by the
  policy, which may change afterwards: it neither cordons nor uncordons, evicts no
  workload and calls neither form of drain. `StageInv` and `DrainInv` say that the
  steps of a drain are taken only by an attempt that may.
- `HoldersAreGone`, of an attempt that evicts up front. `DrainInv` adds that it keeps
  the node cordoned from `CordonNode` to `Uncordon`, so that the scheduler chooses the
  node for no further pod; the holders that are left are pods of DaemonSets, which
  tolerate the cordon, and those whose binding was under way when `CheckHolders` found
  nobody (`inFlight`). The latter are a gap of the code: the cfg
  `DriverManager_holders`.
- `CordonIsLifted`. As long as the configuration and the policy stay and the state file
  can be read, nobody succeeds over a cordon of the manager that has not been asked to
  be lifted (the request may fail, which is only logged), also if a killed, panicked or
  failed attempt left it; and if no call fails either, a command that returns an error
  has lifted it unless an attempt was killed. `CordonInv` says that whoever finds the
  manager's cordon lifts it: the configuration evicts, the policy does not own the
  drain, and the driver stays loaded until the attempt that cordoned has unloaded it,
  unless an attempt was killed, so that no attempt takes a path without an uncordoning.
  With another configuration one does (`DriverManager_cordon`).
- `NothingPinned`, an action property: no pod that was waited for is stale when the
  command reports success. `DraInv` carries over to the plugin, which is evicted on
  its own and later, what `EvictInv` says of the other operands, and `StaleInv` that a
  pod which was not running at the unmounting does not get stale afterwards.

### Label texts

- `RewritingCommutes`: `Spec => []Commutes`, on which the values of `NodeLabels`, and
  with them all theorems about labels, rest. It is a fact about texts. `MarkersGo` and
  `Trimmed` say which symbols the regular expression and the trim keep: of a text that
  does not end in an underscore, followed by an underscore and the marker, exactly the
  text (`SubTextIsPrefix`). The first of the two leaves the underscore before the
  marker behind; the second takes it away, and cannot take more because Kubernetes
  accepts no text that ends in one. `TextsTellValues` adds that a text tells
  whether it is paused and, up to values that read alike, which value it is, so that
  `Commutes` asks the same of every value a text stands for.
- `TextsStand`, `RestoringIsNeverRefused`, `PausingNeedsRoom` and `CodecTypes` follow
  from `CodecInv`. None is inductive by itself: what the restoring patch writes depends
  on the texts the attempt fetched. `CodecInv` says that those stand for what is wanted
  too, that until the first patch is accepted they are the texts on the node, and that
  the plain text of what is wanted is always valid, so that a patch which writes only
  such texts is accepted. `MarkerCosts` computes the length of a paused text, and
  `RefusedWhenFull` that the limit is exceeded exactly when there is no room.

### The drain

- `DrainTypes`. A count is at most the number of names, because a name has one pod at
  a time (`UidsCounted`).
- `DrainKeepsPromise`: `Spec => KeepsPromise`, every step of `PodDrain` is one of
  `Evacuation` or leaves it alone. `ListedInv` says that a goroutine follows the pod
  that was listed or a successor of it, and that when it ends without an error the
  listed pod is gone for good (`Past`, which is stable because the pods of a name
  succeed each other: `PodsOnward`).
- `CountedPodsAreGone`. `CountInv` says that the two lists are of one size, so that
  they are the same pods when every listed pod was counted. That condition is what the
  code does not check, and without it the statement is the cfg `PodDrain_count`.
- `DrainSparesOthers`, an action property. `StartedInv`: a goroutine evicts for a pod
  that the filters let through, as long as that pod exists. Of its successors, which
  an eviction by name may hit, nothing is claimed.

### The claim-holder check

- `CheckTypes`, `OnlyFaultsFail`.
- `NobodyMissed`. `ReservedInv` and `HeldInv` describe the controllers: a pod that may
  use its claims holds each of them, and got it when the names of its generated claims
  were in its status. That is why the check may pass over a reference whose name is
  not written. `LookInv` describes the loop: of a listed pod not found to be a holder,
  every claim of the GPU driver is still to be looked up.

### `vfio-manage`

- `ManageTypes`. `ProcInv` says where a process can be: the device it is at is one of
  those its command selects or the auxiliary device of that one, and the command at
  hand decides which sysfs operation it has reached.
- `OnlyWhatIsNamed`, an action property: a process changes only selected devices and
  their auxiliary ones.
- `ReleasesAll` and `BindTakesAll`, of the devices a command that returns no error
  names, but those whose failure it logged (`failed`), while others release, or while
  nobody else works on devices: one device that fails keeps no other from its turn.
  `ReleasedSoFar`: what a release has passed without a failure is free, with its
  auxiliary device, and has no override. `TakenSoFar`: what a bind has passed is bound,
  and what is still ahead has the driver it was enumerated with, for a bind leaves a
  device alone that had the right one.
- `RacingReleasesConverge`, of any number of processes that release all devices at
  once, some of which may have been killed and started again. A process that loses a
  race gives up the card *and* its auxiliary device, so what it has passed need not be
  free. `UnbindingSoFar` says that the card is free and that its auxiliary device is
  free or owed (`AuxDue`) by a process still ahead of it: one fails at a card only
  because another has detached it, and that one goes on to the auxiliary device
  (`Owes`). When all have ended, nobody owes anything.
- `RacingBindsConverge`, of any number of processes that bind all and are not killed.
  Nothing grows here: a process detaches what another has bound. `Settled` says that a
  device is bound, or that some process is about to do what brings it closer
  (`Acting`); `Coming` that some process will still look for the auxiliary device; and
  `Overridden` that a device with the right driver has the override as well, unless a
  process that will detach it has cleared it. A process that fails at a device leaves
  it to the one that got in its way (`TakenOver`, `ComesOn`).

### The variant

- `ChoiceTypes`.
- `HoldsTheBest` and `ReturnsMostSpecific`: the loop returns the first of the lines
  with the fewest wildcards that match. `Follows` relates the list of aliases to the
  lines of the file in their order, which carries "the first" from the one to the
  other; `MaxInt` is beyond any count by `WildcardsBounded`. Parsing is not expanded:
  the theorems hold whatever a text is parsed into.
- `ReadsWhatIsWritten`: `Spec => []ParsesWhatIsWritten`. A value of digits hides no
  delimiter, so that the first occurrence is the one written after the value
  (`CutAtDelimiter`, also for `sd` and `sc`, which begin with a letter that others
  share), and six such cuts give the seven values back (`WrittenIsParsed`, from the
  first field to the last). Conversely a cut leaves an end of the text
  (`CutLeavesTheEnd`), hence a text that is parsed has every delimiter
  (`ParsedIsDelimited`). `ReadInv` ties the program counter to the device's text.

### Only model-checked

- The liveness properties `Reconciles`, `PausedIsRestored`, `TimeoutEndsDrain` and
  `ReleaseCompletes`, which the prover does not handle.
- The violations of *What does not hold*: counterexamples of an instance.
- That the steps of `DriverManager` for a drain, the claim-holder check and the
  release of the devices do what `PodDrain`, `ClaimHolders` and `VfioManage` promise:
  the modules share no state, and the correspondence is by reading.

## Not modelled

Two things could be added and are not. An abstract specification of the devices under
several commands, with `VfioManage` as its implementation, would say what the two
convergence theorems say. A mapping of the workloads of `DriverManager` to the pods of
`PodDrain` and `ClaimHolders` would replace the reading named above by a proof.

Left out, and why:

- `preflight_check` is a stub that returns; flag parsing, the version string and
  `KernelModules.List` (it prints) have no state.
- `scripts/vfio-manage` is the script that the program replaced and is not installed.
- Third-party code beyond what the managers rely on: the drain helper is modelled, the
  API machinery, the PCI library and `modprobe` are not.
- A write to `unbind` that blocks as long as a virtual machine holds the device: every
  sysfs operation of `VfioManage` returns.
- Time: the delay between evictions, poll intervals and timeouts are choices.
- The consumers of a graphics card after the first, which the code passes over.
