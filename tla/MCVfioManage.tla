---------------------------- MODULE MCVfioManage ----------------------------
(* Small instances of VfioManage for TLC; every cfg picks among them.      *)
EXTENDS VfioManage

CONSTANTS vga, gpu, vf, switch, hda, usb, vfioPci, vfioNv

\* A graphics card with two consumers, a GPU, its virtual function, a switch.
FullBus == <<vga, gpu, vf, switch>>
CardOnly == <<vga>>
CardAndSwitch == <<vga, switch>>
TwoConsumers == [d \in {vga} |-> <<hda, usb>>]
OneConsumer == [d \in {vga} |-> <<hda>>]
\* The virtual function and its GPU have a variant driver.
Variants == [d \in {vga, gpu, vf, switch} |->
              IF d \in {gpu, vf} THEN vfioNv ELSE vfioPci]

Cmd(op, dev, sw) == [op |-> op, dev |-> dev, switches |-> sw]
UnbindAll == {Cmd("unbind", All, FALSE)}
EveryTarget == {Cmd(op, dev, sw) : op \in {"bind", "unbind"},
                                   dev \in {vga, vf, switch}, sw \in {TRUE}}
                 \cup {Cmd(op, All, sw) : op \in {"bind", "unbind"},
                                         sw \in BOOLEAN}
BindSwitch == {Cmd("bind", switch, TRUE), Cmd("bind", vga, TRUE)}
VmThenDriver == {Cmd("bind", All, TRUE)} \cup UnbindAll

Bound(k, f, n) == [d \in Disturbances |-> CASE d = "kill"  -> k
                                            [] d = "fault" -> f
                                            [] d = "probe" -> n]
Calm == Bound(0, 0, 0)
OneOfEach == Bound(1, 1, 1)
KilledOften == Bound(2, 0, 0)
OneFault == Bound(0, 1, 0)
=============================================================================
