------------------------- MODULE OperandGate_proofs -------------------------
(***************************************************************************)
(* What the gate keeps, for any operands, requests and modules.            *)
(***************************************************************************)
EXTENDS OperandGate, TLAPS

GateInv == asked \in [Readers -> Asked] /\ Exclusive

\* An operand that may not be inside while the writer is cannot get there,
\* and a request that would put it in the writer's way is not firm.
LEMMA GateStep == GateInv /\ [Next]_vars => GateInv'
<1> SUFFICES ASSUME GateInv, [Next]_vars PROVE GateInv'
  OBVIOUS
<1> USE DEF GateInv, Exclusive, Excluded, Waited
<1>1. ASSUME NEW r \in Readers, Request(r) PROVE GateInv'
  <2>1. PICK a \in Asked : asked' = [asked EXCEPT ![r] = a]
    BY <1>1 DEF Request
  <2>2. asked' \in [Readers -> Asked] /\ inside' = inside /\ held' = held
    BY <1>1, <2>1 DEF Request
  <2>3. ASSUME held, NEW q \in Readers, asked'[q] \in Firm
        PROVE  q \notin open' \cup inside'
    <3>1. q # r
      BY <1>1, <2>3 DEF Request
    <3>2. asked'[q] = asked[q] /\ (q \in open' <=> q \in open)
      BY <1>1, <2>1, <3>1 DEF Request
    <3> QED
      BY <2>2, <2>3, <3>2
  <2> QED
    BY <2>2, <2>3
<1>2. ASSUME NEW r \in Readers, Enter(r) PROVE GateInv'
  BY <1>2 DEF Enter
<1>3. ASSUME NEW r \in Readers, Leave(r) PROVE GateInv'
  BY <1>3 DEF Leave
<1>4. CASE Turn
  BY <1>4 DEF Turn
<1>5. CASE Acquire
  BY <1>5 DEF Acquire
<1>6. CASE Release
  BY <1>6 DEF Release
<1>7. CASE Unload
  BY <1>7 DEF Unload
<1>8. CASE Unmount
  <2>1. CASE held' = held
    BY <1>8, <2>1 DEF Unmount
  <2>2. CASE held' = FALSE
    BY <1>8, <2>2 DEF Unmount
  <2> QED
    BY <1>8, <2>1, <2>2 DEF Unmount
<1>9. CASE Install
  BY <1>9 DEF Install
<1>10. CASE Reset
  BY <1>10 DEF Reset
<1>11. CASE UNCHANGED vars
  BY <1>11 DEF vars
<1> QED
  BY <1>1, <1>2, <1>3, <1>4, <1>5, <1>6, <1>7, <1>8, <1>9, <1>10, <1>11
     DEF Next

LEMMA GateInvariant == Spec => []GateInv
<1>1. Init => GateInv
  BY DEF Init, GateInv, Exclusive
<1> QED
  BY <1>1, GateStep, PTL DEF Spec

\* While the writer is in, every operand it waited for is out and stays out:
\* evictAllGPUOperatorComponents to rescheduleGPUOperatorComponents.
THEOREM WriterIsAlone == Spec => []Exclusive
<1>1. GateInv => Exclusive
  BY DEF GateInv
<1> QED
  BY GateInvariant, <1>1, PTL

\* A module of a driver that stays is unloaded under nobody: unloadDriver.
THEOREM NothingTakenFromUsers == Spec => TakenFromNobody
<1> DEFINE Taken == loaded' # loaded /\ loaded' # {} /\ loaded' \subseteq loaded
<1>1. GateInv /\ [Next]_vars => [Taken => Waited \cap inside = {}]_vars
  <2> SUFFICES ASSUME GateInv, Next, Taken PROVE Waited \cap inside = {}
    OBVIOUS
  <2>1. Unload
    BY DEF Next, Request, Enter, Leave, Turn, Acquire, Release, Unmount,
           Install, Reset
  <2> QED
    BY <2>1 DEF Unload, GateInv, Exclusive, Excluded
<1> QED
  BY GateInvariant, <1>1, PTL DEF Spec, TakenFromNobody
=============================================================================
