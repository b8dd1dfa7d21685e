---------------------------- MODULE OperandGate ----------------------------
(***************************************************************************)
(* What uninstall_driver promises the operands: the driver is shared by    *)
(* its operands and taken away by one who holds it alone.  Readers are the *)
(* operands' pods, the writer is the attempt that unloads modules and      *)
(* unmounts files.  The writer gets in once every operand it waits for is  *)
(* shut out and gone, and lets nobody back in before it leaves.            *)
(***************************************************************************)
CONSTANTS
  Readers,       \* the operands
  Asked,         \* what an operand may have been asked to do
  Firm,          \* those requests whose operand the writer waits for
  Modules,       \* kernel modules
  Core           \* the module without which there is no driver to share

VARIABLES
  asked,         \* the request each operand was last given
  open,          \* the operands whose pod may start
  inside,        \* the operands that have a pod
  held,          \* the writer is in
  loaded,        \* the modules of the driver
  mounted        \* the files of the driver are mounted

vars == <<asked, open, inside, held, loaded, mounted>>

Waited == {r \in Readers : asked[r] \in Firm}

Excluded == Waited \cap (open \cup inside) = {}

Init ==
  /\ asked \in [Readers -> Asked] /\ inside \subseteq Readers
  /\ open \subseteq Readers /\ held = FALSE
  /\ loaded \subseteq Modules /\ mounted \in BOOLEAN

\* An administrator's request for r opens or shuts its gate at once.
Request(r) ==
  /\ asked' \in {[asked EXCEPT ![r] = a] : a \in Asked}
  /\ held => asked'[r] \notin Firm
  /\ open' \in {open \cup {r}, open \ {r}}
  /\ UNCHANGED <<inside, held, loaded, mounted>>

Enter(r) ==
  /\ r \in open /\ inside' = inside \cup {r}
  /\ UNCHANGED <<asked, open, held, loaded, mounted>>

Leave(r) ==
  /\ inside' = inside \ {r}
  /\ UNCHANGED <<asked, open, held, loaded, mounted>>

\* The writer shuts gates, and opens them again.
Turn ==
  /\ ~held /\ open' \in SUBSET Readers
  /\ UNCHANGED <<asked, inside, held, loaded, mounted>>

Acquire ==
  /\ ~held /\ Excluded /\ held' = TRUE
  /\ UNCHANGED <<asked, open, inside, loaded, mounted>>

Release ==
  /\ held' = FALSE
  /\ UNCHANGED <<asked, open, inside, loaded, mounted>>

Unload ==
  /\ held /\ loaded' \in SUBSET loaded
  /\ UNCHANGED <<asked, open, inside, held, mounted>>

\* Files without a driver are nobody's.
Unmount ==
  /\ held \/ Core \notin loaded
  /\ mounted' = FALSE /\ held' \in {held, FALSE}
  /\ UNCHANGED <<asked, open, inside, loaded>>

Install ==
  /\ ~held /\ mounted' = TRUE /\ loaded' \in {loaded, loaded \cup Modules}
  /\ UNCHANGED <<asked, open, inside, held>>

\* The node restarts.
Reset ==
  /\ held' = FALSE /\ loaded' = {} /\ mounted' = FALSE
  /\ UNCHANGED <<asked, open, inside>>

Next ==
  \/ \E r \in Readers : Request(r) \/ Enter(r) \/ Leave(r)
  \/ Turn \/ Acquire \/ Release \/ Unload \/ Unmount \/ Install \/ Reset

Spec == Init /\ [][Next]_vars

\* While the writer is in, every operand with a firm request is out and stays
\* out: evictAllGPUOperatorComponents to
\* rescheduleGPUOperatorComponents.
Exclusive == held => Excluded

\* A module of a driver that is still there is taken from nobody: no operand
\* with a firm request is using it.
TakenFromNobody ==
  [][loaded' # loaded /\ loaded' # {} /\ loaded' \subseteq loaded
     => Waited \cap inside = {}]_vars
=============================================================================
