----------------------------- MODULE NodeLabels -----------------------------
(***************************************************************************)
(* The node labels through which the driver-manager turns the operands of  *)
(* the GPU Operator off and on (nvidia.com/gpu.deploy.<operand>), the      *)
(* rewriting of their values, and the sets of labels and pods that each    *)
(* step of cmd/driver-manager/main.go touches.  An operand is named after  *)
(* its field of componentState.                                            *)
(*                                                                         *)
(* A label's value is a record: "base" is what the administrator asked for *)
(* ("absent" is a missing label, "empty" the empty string, a member of     *)
(* CustomBases any other text) and "paused" says that the value carries    *)
(* the text paused-for-driver-upgrade.                                     *)
(***************************************************************************)
EXTENDS FiniteSets

CONSTANT CustomBases    \* values other than "true" and "false"

ASSUME CustomBasesAssumption ==
  CustomBases \cap {"absent", "empty", "false", "true", "contested"} = {}

\* Operands whose label evictAllGPUOperatorComponents always rewrites.
AlwaysPaused ==
  {"validator", "toolkit", "plugin", "gfd", "dcgmExporter", "dcgm", "nvsm",
   "sandboxValidator", "sandboxPlugin", "vgpuDeviceManager",
   "draValidator", "draDCGM", "draDCGMExporter"}

\* Operands whose label is rewritten only when it had a value.
PausedIfDeployed == {"migManager", "customOperand", "gpuClients"}

Operands == AlwaysPaused \cup PausedIfDeployed \cup {"draDriver"}

\* Operands whose pods waitForPodsToTerminate always polls for (the two
\* validators share one app label) ...
AlwaysWaited ==
  {"validator", "toolkit", "plugin", "gfd", "dcgmExporter", "dcgm",
   "draValidator", "draDCGM", "draDCGMExporter"}

\* ... and those it polls for only when their label had a value.
WaitedIfDeployed ==
  {"migManager", "sandboxValidator", "sandboxPlugin", "vgpuDeviceManager",
   "gpuClients"}

\* The claim-holding operands named by the comment on evictKubeletPlugin.
ClaimOperands == {"draValidator", "gfd"}

Pausable == {"true"} \cup CustomBases
Intents  == {"empty", "false"} \cup Pausable
Bases    == {"absent"} \cup Intents

LabelValues ==
  {v \in [base : Bases, paused : BOOLEAN] : v.paused => v.base \in Pausable}

Plain(b) == [base |-> b, paused |-> FALSE]

\* What the label asks for: a missing label reads as the empty string.
Intent(v) == IF v.base = "absent" THEN "empty" ELSE v.base

\* A DaemonSet places its pod on the node while its nodeSelector matches.
Deploys(v) == v.base \in Pausable /\ ~v.paused

GetNodeLabelValue(v) == IF v.base = "absent" THEN Plain("empty") ELSE v

MaybeSetPaused(v) ==
  IF v.base \in Pausable THEN [v EXCEPT !.paused = TRUE] ELSE v

MaybeSetTrue(v) == [v EXCEPT !.paused = FALSE]

\* A field of componentState that is the empty string.
IsEmpty(v) == v.base = "empty"

-----------------------------------------------------------------------------
\* The label keys of the three patches, given the fetched values comps.
EvictKeys(comps) ==
  {c \in DOMAIN comps : \/ c \in AlwaysPaused
                        \/ c \in PausedIfDeployed /\ ~IsEmpty(comps[c])}

\* As the code would be without the list of conditional labels.
RescheduleAlwaysKeys(comps) ==
  {c \in DOMAIN comps : c \in AlwaysPaused \cup {"draDriver"}}
\* As the code would be if it restored what the first patch paused.
RescheduleEvictedKeys(comps) == EvictKeys(comps)
RescheduleKeys(comps) ==
  {c \in DOMAIN comps : \/ c \in AlwaysPaused \cup {"draDriver"}
                        \/ c \in PausedIfDeployed /\ ~IsEmpty(comps[c])}

\* As the code would be without the waits for optional components.
WaitedAlways(comps) == {c \in DOMAIN comps : c \in AlwaysWaited}
Waited(comps) ==
  {c \in DOMAIN comps : \/ c \in AlwaysWaited
                        \/ c \in WaitedIfDeployed /\ ~IsEmpty(comps[c])}

\* As the code would be if the kubelet-plugin were paused with the others.
EvictPatchWithPlugin(comps, labels) ==
  [c \in DOMAIN labels |->
     IF c \in RescheduleKeys(comps) THEN MaybeSetPaused(comps[c])
                                    ELSE labels[c]]

\* The node's labels after each patch: keys outside the patch keep their value.
EvictPatch(comps, labels) ==
  [c \in DOMAIN labels |->
     IF c \in EvictKeys(comps) THEN MaybeSetPaused(comps[c]) ELSE labels[c]]

PausePluginPatch(comps, labels) ==
  [c \in DOMAIN labels |->
     IF c = "draDriver" THEN MaybeSetPaused(comps[c]) ELSE labels[c]]

\* As the code would be if an upgrade always turned its operands on.
RescheduleAllTrue(comps, labels) ==
  [c \in DOMAIN labels |->
     IF c \in RescheduleKeys(comps) THEN Plain("true") ELSE labels[c]]
ReschedulePatch(comps, labels) ==
  [c \in DOMAIN labels |->
     IF c \in RescheduleKeys(comps) THEN MaybeSetTrue(comps[c]) ELSE labels[c]]
=============================================================================
