----------------------------- MODULE FpgaBackend -----------------------------
(***************************************************************************)
(* worker/app/fpga.py: what the Worker process holds of the FPGA. Overlay, *)
(* DMA and two contiguous (CMA) buffers are bound and dropped together;    *)
(* the driver's buffers are counted apart from the references to them,     *)
(* because freeing one may fail after its reference is gone.               *)
(***************************************************************************)
EXTENDS Naturals, FiniteSets

CONSTANTS
  Artifacts,    \* artifact ids
  Unloadable,   \* those whose overlay does not match the hardware contract
  None,         \* Python's None
  MaxFaults     \* bound: things that go wrong

ASSUME ArtifactsAssumption == None \notin Artifacts /\ Unloadable \subseteq Artifacts
ASSUME MaxFaultsAssumption == MaxFaults \in Nat

VARIABLES
  fabric,    \* the bitstream in the programmable logic, which outlives the process
  overlay,   \* self.overlay and self.dma: the artifact they were made from
  held,      \* which of self.x_buffer and self.y_buffer are not None
  fresh,     \* which of load_overlay's local x_buffer and y_buffer are not None
  cma,       \* how many buffers the driver has given to this process
  leaked,    \* how many of them could not be freed and have no reference left
  faults     \* how many things have gone wrong

runtime == <<overlay, held, cma, leaked>>
backend == <<fabric, runtime, fresh>>

Buffers == {"x", "y"}

BackendTypeOK ==
  /\ fabric \in Artifacts \cup {None} /\ overlay \in Artifacts \cup {None}
  /\ held \in SUBSET Buffers /\ fresh \in SUBSET Buffers
  /\ cma \in Nat /\ leaked \in Nat /\ faults \in 0 .. MaxFaults

BackendInit ==
  /\ fabric = None /\ overlay = None /\ held = {} /\ fresh = {}
  /\ cma = 0 /\ leaked = 0 /\ faults = 0

\* n things go wrong in one step.
Faults(n) == faults + n <= MaxFaults /\ faults' = faults + n

\* Free the buffers of B; freebuffer raises for those of `stuck`.
Free(B, stuck) ==
  /\ cma' = cma - Cardinality(B \ stuck)
  /\ leaked' = leaked + Cardinality(stuck)

\* Mistaken form of FreeAll: the first error ends the loop.
FreeUntilError(B, stuck) ==
  IF "x" \in stuck THEN cma' = cma /\ leaked' = leaked + 1 ELSE Free(B, stuck)
\* Mistaken form of FreeAll: two references to the same buffer are freed.
FreeTwice(B, stuck) == leaked' = leaked /\ cma' = cma - 2 * Cardinality(B)
FreeAll(B, stuck) == Free(B, stuck)

\* _clear_runtime: all references go first, then both buffers are freed.
ClearRuntime(stuck) ==
  /\ stuck \subseteq held
  /\ overlay' = None /\ held' = {}
  /\ FreeAll(held, stuck)

\* Mistaken form of ReleaseRuntime: the next deployment will clear it anyway.
KeepRuntime(stuck) == stuck = {} /\ UNCHANGED runtime
ReleaseRuntime(stuck) == ClearRuntime(stuck)

\* overlay_factory: the bitstream is loaded, whether or not it fits the contract.
ProgramOverlay(a) ==
  /\ a \notin Unloadable
  /\ fabric' = a
  /\ UNCHANGED <<runtime, fresh, faults>>
ProgramFails(a) ==
  /\ \/ a \in Unloadable /\ UNCHANGED faults
     \/ Faults(1)
  /\ fabric' \in {fabric, a}
  /\ UNCHANGED <<runtime, fresh>>

\* allocate_factory for one buffer.
Allocate(buffer) ==
  /\ fresh' = fresh \cup {buffer} /\ cma' = cma + 1
  /\ UNCHANGED <<fabric, overlay, held, leaked, faults>>

\* An allocation fails: the buffer already allocated is freed, if that succeeds.
AllocateFails(stuck) ==
  /\ stuck \subseteq fresh /\ Faults(1 + Cardinality(stuck))
  /\ Free(fresh, stuck) /\ fresh' = {}
  /\ UNCHANGED <<fabric, overlay, held>>

BindRuntime(a) ==
  /\ overlay' = a /\ held' = fresh /\ fresh' = {}
  /\ UNCHANGED <<fabric, cma, leaked, faults>>

\* _predict_sync's precondition.
RuntimeBound == overlay # None /\ held = Buffers

\* The process dies; the driver takes its buffers back.
BackendRestart ==
  /\ overlay' = None /\ held' = {} /\ fresh' = {} /\ cma' = 0 /\ leaked' = 0
  /\ UNCHANGED fabric
=============================================================================
