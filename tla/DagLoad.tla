------------------------------ MODULE DagLoad ------------------------------
(***************************************************************************)
(* The DAG load of every CUDA worker (part_001: CUDAMiner::init and        *)
(* CUDAMiner::cuda_init) under the three load modes, with the process-wide *)
(* statics they share: s_dagLoadIndex, s_dagInHostMemory, s_devices,       *)
(* s_dagCreateDevice and s_numInstances.                                   *)
(*                                                                         *)
(* A worker is one thread; pc[w] is its position in init/cuda_init.  The   *)
(* DAG a worker holds is dag[w], the epoch its buffer's bytes belong to   *)
(* (Garbage before it is filled), and live[w] says whether that device     *)
(* allocation is still alive: cudaDeviceReset() frees every allocation on *)
(* the device, including those of other workers that share it.  The host  *)
(* buffer of SINGLE mode is named by the epoch it was generated for.       *)
(*                                                                         *)
(* Each init() is for a new epoch, and the ethash dataset grows with the  *)
(* epoch, so dagElms != m_dag_elms always holds and cuda_init always      *)
(* takes its reset-and-reallocate path.  Its out-of-memory early return   *)
(* is modelled in CUDAMiner.tla.                                           *)
(***************************************************************************)
EXTENDS Integers, FiniteSets

CONSTANTS
  Workers,          \* miner indices 0 .. n-1
  NumDevices,       \* getNumDevices()
  SDevices,         \* s_devices: a worker's configured device, or -1
  DagCreateDevice,  \* s_dagCreateDevice
  Instances,        \* s_numInstances
  Modes,            \* the values s_dagLoadMode may be configured with
  MaxEpochOf        \* per mode, the last epoch the farm publishes

ASSUME /\ Workers = 0 .. Cardinality(Workers) - 1
       /\ NumDevices >= 1
       /\ SDevices \in [Workers -> -1 .. NumDevices]
       /\ Modes \subseteq {"parallel", "sequential", "single"}
       /\ MaxEpochOf \in [Modes -> Nat \ {0}]

MaxEpoch == CHOOSE m \in {MaxEpochOf[x] : x \in Modes} :
              \A x \in Modes : MaxEpochOf[x] <= m

Garbage == -1      \* bytes of an allocation nobody has written
NULL == 0          \* s_dagInHostMemory == NULL

VARIABLES
  mode,       \* s_dagLoadMode, fixed by configureGPU before mining
  epoch,      \* the epoch of the farm's current work
  pc,         \* per worker: where its thread is
  cur,        \* per worker: current.epoch of workLoop
  tgt,        \* per worker: the epoch init() was called with
  dag,        \* per worker: the epoch of the bytes in its m_dag
  live,       \* per worker: its m_dag allocation has not been freed
  hostDag,    \* s_dagInHostMemory: NULL or the host buffer's epoch
  freed,      \* host buffers already deleted
  hdag,       \* per worker: the host pointer cpyDag copies from
  tmp,        \* per worker: value read by a non-atomic access
  loadIndex,  \* s_dagLoadIndex
  fault       \* memory errors that happened: "doublefree", "uaf"

vars == <<mode, epoch, pc, cur, tgt, dag, live, hostDag, freed, hdag, tmp,
          loadIndex, fault>>

PCs == {"mining", "seqwait", "cuda", "fill", "waithost", "copy", "inc",
        "incw", "freechk", "delete", "clear"}

\* init(): device = s_devices[index] > -1 ? s_devices[index] : index;
\* cuda_init(): m_device_num = _deviceId < numDevices-1 ? _deviceId : numDevices-1
DeviceNum(w) ==
  LET d == IF SDevices[w] > -1 THEN SDevices[w] ELSE w
  IN  IF d < NumDevices - 1 THEN d ELSE NumDevices - 1

\* The epoch of the DAG the worker's kernel reads.
Content(w) == IF live[w] THEN dag[w] ELSE Garbage

\* init() returns true: workLoop adopts the work's epoch.
Finish(w) ==
  /\ pc' = [pc EXCEPT ![w] = "mining"]
  /\ cur' = [cur EXCEPT ![w] = tgt[w]]

Goto(w, l) == pc' = [pc EXCEPT ![w] = l]

TypeOK ==
  /\ mode \in Modes
  /\ epoch \in 1 .. MaxEpoch
  /\ pc \in [Workers -> PCs]
  /\ cur \in [Workers -> 0 .. MaxEpoch]
  /\ tgt \in [Workers -> 0 .. MaxEpoch]
  /\ dag \in [Workers -> {Garbage} \cup 0 .. MaxEpoch]
  /\ live \in [Workers -> BOOLEAN]
  /\ hostDag \in {NULL} \cup 1 .. MaxEpoch
  /\ freed \subseteq 1 .. MaxEpoch
  /\ hdag \in [Workers -> 0 .. MaxEpoch]
  /\ tmp \in [Workers -> 0 .. Cardinality(Workers) * MaxEpoch]
  /\ loadIndex \in 0 .. Cardinality(Workers) * MaxEpoch
  /\ fault \subseteq {"doublefree", "uaf"}

Init ==
  /\ mode \in Modes
  /\ epoch = 1
  /\ pc = [w \in Workers |-> "mining"]
  /\ cur = [w \in Workers |-> 0]
  /\ tgt = [w \in Workers |-> 0]
  /\ dag = [w \in Workers |-> 0]
  /\ live = [w \in Workers |-> FALSE]
  /\ hostDag = NULL
  /\ freed = {}
  /\ hdag = [w \in Workers |-> NULL]
  /\ tmp = [w \in Workers |-> 0]
  /\ loadIndex = 0
  /\ fault = {}

-----------------------------------------------------------------------------
(* The farm publishes work of the next epoch. *)
NewEpoch ==
  /\ epoch < MaxEpochOf[mode]
  /\ epoch' = epoch + 1
  /\ UNCHANGED <<mode, pc, cur, tgt, dag, live, hostDag, freed, hdag, tmp,
                 loadIndex, fault>>

(* workLoop sees work of another epoch and calls init(epoch); in SEQUENTIAL *)
(* mode init first polls s_dagLoadIndex.                                   *)
StartInit(w) ==
  /\ pc[w] = "mining"
  /\ cur[w] # epoch
  /\ tgt' = [tgt EXCEPT ![w] = epoch]
  /\ Goto(w, IF mode = "sequential" THEN "seqwait" ELSE "cuda")
  /\ UNCHANGED <<mode, epoch, cur, dag, live, hostDag, freed, hdag, tmp,
                 loadIndex, fault>>

(* while (s_dagLoadIndex < index) sleep(100ms) *)
SeqWait(w) ==
  /\ pc[w] = "seqwait"
  /\ loadIndex >= w
  /\ Goto(w, "cuda")
  /\ UNCHANGED <<mode, epoch, cur, tgt, dag, live, hostDag, freed, hdag, tmp,
                 loadIndex, fault>>

(* cuda_init up to the DAG fill: cudaDeviceReset() frees every allocation   *)
(* on the device, the other workers' DAGs on it included; then the new DAG  *)
(* buffer is allocated, its bytes unwritten.                               *)
CudaReset(w) ==
  /\ pc[w] = "cuda"
  /\ live' = [v \in Workers |->
                IF v = w THEN TRUE
                ELSE live[v] /\ DeviceNum(v) # DeviceNum(w)]
  /\ dag' = [dag EXCEPT ![w] = Garbage]
  /\ Goto(w, "fill")
  /\ UNCHANGED <<mode, epoch, cur, tgt, hostDag, freed, hdag, tmp, loadIndex,
                 fault>>

(* The fill with the "|| !_cpyToHost" dropped: only the create device     *)
(* generates, in every mode.                                               *)
CudaFillNoCpyFlag(w) ==
  /\ pc[w] = "fill"
  /\ \/ /\ hostDag = NULL
        /\ DeviceNum(w) = DagCreateDevice
        /\ dag' = [dag EXCEPT ![w] = tgt[w]]
        /\ hostDag' = IF mode = "single" THEN tgt[w] ELSE NULL
        /\ Goto(w, "inc")
        /\ UNCHANGED hdag
     \/ /\ hostDag = NULL
        /\ DeviceNum(w) # DagCreateDevice
        /\ Goto(w, "waithost")
        /\ UNCHANGED <<dag, hostDag, hdag>>
     \/ /\ hostDag # NULL
        /\ hdag' = [hdag EXCEPT ![w] = hostDag]
        /\ Goto(w, "copy")
        /\ UNCHANGED <<dag, hostDag>>
  /\ UNCHANGED <<mode, epoch, cur, tgt, live, freed, tmp, loadIndex, fault>>

(* The fill: with no host DAG, the create device (or every device when not *)
(* SINGLE) generates the DAG and, in SINGLE mode, publishes a host copy;   *)
(* any other device polls for the host DAG.  With a host DAG, cpyDag reads *)
(* the pointer.                                                            *)
CudaFill(w) ==
  /\ pc[w] = "fill"
  /\ \/ /\ hostDag = NULL
        /\ DeviceNum(w) = DagCreateDevice \/ mode # "single"
        /\ dag' = [dag EXCEPT ![w] = tgt[w]]
        /\ hostDag' = IF mode = "single" THEN tgt[w] ELSE NULL
        /\ Goto(w, "inc")
        /\ UNCHANGED hdag
     \/ /\ hostDag = NULL
        /\ DeviceNum(w) # DagCreateDevice /\ mode = "single"
        /\ Goto(w, "waithost")
        /\ UNCHANGED <<dag, hostDag, hdag>>
     \/ /\ hostDag # NULL
        /\ hdag' = [hdag EXCEPT ![w] = hostDag]
        /\ Goto(w, "copy")
        /\ UNCHANGED <<dag, hostDag>>
  /\ UNCHANGED <<mode, epoch, cur, tgt, live, freed, tmp, loadIndex, fault>>

(* while (!hostDAG) sleep(100ms); goto cpyDag *)
WaitHost(w) ==
  /\ pc[w] = "waithost"
  /\ hostDag # NULL
  /\ hdag' = [hdag EXCEPT ![w] = hostDag]
  /\ Goto(w, "copy")
  /\ UNCHANGED <<mode, epoch, cur, tgt, dag, live, hostDag, freed, tmp,
                 loadIndex, fault>>

(* cudaMemcpy host -> device, then m_dag = dag.  A buffer deleted meanwhile *)
(* is a use after free: the device gets undefined bytes.                   *)
CopyDag(w) ==
  /\ pc[w] = "copy"
  /\ dag' = [dag EXCEPT ![w] = IF hdag[w] \in freed THEN Garbage ELSE hdag[w]]
  /\ fault' = IF hdag[w] \in freed THEN fault \cup {"uaf"} ELSE fault
  /\ Goto(w, "inc")
  /\ UNCHANGED <<mode, epoch, cur, tgt, live, hostDag, freed, hdag, tmp,
                 loadIndex>>

(* s_dagLoadIndex++ on a plain unsigned shared by every worker thread: a    *)
(* load, then a store, which a concurrent increment may overwrite.         *)
IncRead(w) ==
  /\ pc[w] = "inc"
  /\ tmp' = [tmp EXCEPT ![w] = loadIndex]
  /\ Goto(w, "incw")
  /\ UNCHANGED <<mode, epoch, cur, tgt, dag, live, hostDag, freed, hdag,
                 loadIndex, fault>>

IncWrite(w) ==
  /\ pc[w] = "incw"
  /\ loadIndex' = tmp[w] + 1
  /\ IF mode = "single"
       THEN Goto(w, "freechk") /\ UNCHANGED cur
       ELSE Finish(w)
  /\ UNCHANGED <<mode, epoch, tgt, dag, live, hostDag, freed, hdag, tmp,
                 fault>>

(* if (s_dagLoadIndex >= s_numInstances && s_dagInHostMemory) *)
FreeCheck(w) ==
  /\ pc[w] = "freechk"
  /\ IF loadIndex >= Instances /\ hostDag # NULL
       THEN Goto(w, "delete") /\ UNCHANGED cur
       ELSE Finish(w)
  /\ UNCHANGED <<mode, epoch, tgt, dag, live, hostDag, freed, hdag, tmp,
                 loadIndex, fault>>

(* delete[] s_dagInHostMemory: reads the pointer again; delete[] NULL is a  *)
(* no-op, deleting a buffer twice is a double free.                        *)
DeleteHost(w) ==
  /\ pc[w] = "delete"
  /\ freed' = IF hostDag = NULL THEN freed ELSE freed \cup {hostDag}
  /\ fault' = IF hostDag \in freed THEN fault \cup {"doublefree"} ELSE fault
  /\ Goto(w, "clear")
  /\ UNCHANGED <<mode, epoch, cur, tgt, dag, live, hostDag, hdag, tmp,
                 loadIndex>>

(* s_dagInHostMemory = NULL; init returns true *)
ClearHost(w) ==
  /\ pc[w] = "clear"
  /\ hostDag' = NULL
  /\ Finish(w)
  /\ UNCHANGED <<mode, epoch, tgt, dag, live, freed, hdag, tmp, loadIndex,
                 fault>>

Step(w) ==
  \/ StartInit(w) \/ SeqWait(w) \/ CudaReset(w) \/ CudaFill(w)
  \/ WaitHost(w) \/ CopyDag(w) \/ IncRead(w) \/ IncWrite(w)
  \/ FreeCheck(w) \/ DeleteHost(w) \/ ClearHost(w)

Next ==
  \/ NewEpoch
  \/ \E w \in Workers : Step(w)

(* Every worker thread runs; the 100 ms polls are weakly fair: a poll that *)
(* keeps finding its condition true eventually sees it.                    *)
Spec == Init /\ [][Next]_vars /\ \A w \in Workers : WF_vars(Step(w))

-----------------------------------------------------------------------------
(* The abstract view: a worker holds the DAG of cur while it mines, and     *)
(* is loading from init() until init() returns.                            *)
DS == INSTANCE DagService
        WITH cur <- [w \in Workers |->
                       IF pc[w] = "mining" /\ cur[w] # 0
                       THEN Content(w) ELSE cur[w]],
             loading <- [w \in Workers |-> pc[w] # "mining"],
             want <- tgt

(* Every DAG load, in every mode and interleaving of the workers, acts as  *)
(* DagService says: a worker mines only with its own live DAG of the epoch *)
(* it loaded, and no worker's reset or host-buffer copy changes the DAG    *)
(* another worker is mining with. No run checks it: with a device per     *)
(* worker and SINGLE mode over one epoch it holds by construction, and the *)
(* configurations that reach a shared device or a host DAG of another      *)
(* epoch are ones where the code fails it.                                 *)
ImplementsDagService == DS!Spec

(* Once the farm stops changing epoch, every worker's init() returns and   *)
(* it mines the current epoch: no worker waits forever for the host DAG or *)
(* for s_dagLoadIndex.                                                     *)
EventuallyAllLoaded ==
  <>[](\A w \in Workers : pc[w] = "mining" /\ cur[w] = epoch)

(* No host DAG buffer is deleted twice or copied after it was deleted.     *)
HostBufferSafe == fault = {}
=============================================================================
