-------------------------- MODULE MCDriverManager --------------------------
(* Small instances of DriverManager for TLC; every cfg picks among them.   *)
EXTENDS DriverManager

CONSTANTS claimPod, plainPod, daemonPod, gpu0, d1, d2, team

NoWorkloads == {}

\* Environments of the driver pod.
Env == [forceReinstall |-> FALSE, gpuPodEviction |-> TRUE, autoDrain |-> FALSE,
        rdma |-> FALSE, customLabel |-> TRUE, drainTimeout |-> TRUE,
        selected |-> {"driver"}, digest |-> d2]
SameDriver == [Env EXCEPT !.digest = d1]
AutoDrains == [Env EXCEPT !.gpuPodEviction = FALSE, !.autoDrain = TRUE]
DrainsSome(sel) == [Env EXCEPT !.autoDrain = TRUE, !.selected = sel]
HandsOff   == [Env EXCEPT !.gpuPodEviction = FALSE, !.customLabel = FALSE]
Forced     == [SameDriver EXCEPT !.forceReinstall = TRUE, !.rdma = TRUE]
NoTimeout  == [Env EXCEPT !.drainTimeout = FALSE]

\* A node on which every operand is deployed and the driver d1 runs.
AllOn == [c \in Components |-> Plain("true")]
UpNode == [labels |-> AllOn, host |-> DriverModules, stale |-> Mounts,
           vfio |-> {}, digest |-> d1, running |-> {}, cordoned |-> FALSE,
           annotation |-> FALSE]
BusyNode == [UpNode EXCEPT !.running = Workloads]
\* A node that has booted, with a foreign driver and a device for a VM.
BootedNode == [UpNode EXCEPT !.host = {"nouveau"}, !.stale = {},
                             !.vfio = Gpus, !.digest = "none"]
\* A node with everything to remove: two drivers and a device for a VM.
MixedNode == [UpNode EXCEPT !.host = @ \cup {"nouveau"}, !.vfio = Gpus]
CustomNode(c) == [UpNode EXCEPT !.labels[c] = Plain(team)]
PolicyNode(n) == [n EXCEPT !.annotation = TRUE]
HostDriverNode == [UpNode EXCEPT !.host = @ \cup {"hostDriver"}]

Bound(f, m, t, c, r, e) ==
  [k \in Disturbances |-> CASE k = "fault"    -> f
                            [] k = "misread"  -> m
                            [] k = "timeout"  -> t
                            [] k = "crash"    -> c
                            [] k = "redeploy" -> r
                            [] k = "edit"     -> e]

\* labels: no workload; edits, lost answers, killed attempts and drivers with
\* another configuration.
LabelConfigs == {SameDriver, HandsOff}
LabelNodes   == {UpNode, CustomNode("customOperand"), HostDriverNode}
LabelLimit   == Bound(2, 0, 0, 1, 1, 1)

\* dra: claim-holders among operands and workloads, one workload of each kind.
DraConfigs == {DrainsSome({}), SameDriver}
DraNodes   == {UpNode}
DraLimit   == Bound(1, 1, 1, 1, 1, 0)

\* host: what else is on the node, and every way to drain.
HostConfigs == {AutoDrains, DrainsSome({plainPod}), Forced}
HostNodes == {BootedNode, MixedNode, PolicyNode(MixedNode)}
HostLimit == Bound(1, 0, 1, 1, 1, 0)

\* live: an evictable claim-holder, a label that only some lists name, and
\* every configuration that evicts.
LiveConfigs == {Env, SameDriver,
                [AutoDrains EXCEPT !.rdma = TRUE, !.drainTimeout = FALSE]}
LiveNodes   == {[MixedNode EXCEPT !.running = Workloads], BootedNode}
LiveLimit   == Bound(2, 0, 1, 1, 0, 0)

\* The runs of the findings need a disturbance or two.
NoLimit       == Bound(0, 0, 0, 0, 0, 0)
OneFault      == Bound(1, 0, 0, 0, 0, 0)
OneRollout    == Bound(0, 0, 0, 1, 1, 0)
DrainConfigs  == {[AutoDrains EXCEPT !.gpuPodEviction = TRUE]}
PanicConfigs  == {[AutoDrains EXCEPT !.selected = {claimPod}]}
RolloutConfigs == {NoTimeout, [NoTimeout EXCEPT !.digest = d1]}
RevertConfigs == {HandsOff, [HandsOff EXCEPT !.digest = d1]}
OnlyEnv       == {Env}
OnlyHandsOff  == {HandsOff}
OneBusyNode   == {BusyNode}
OneUpNode     == {UpNode}
=============================================================================
