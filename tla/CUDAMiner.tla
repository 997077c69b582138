------------------------------ MODULE CUDAMiner ------------------------------
(***************************************************************************)
(* One CUDA mining worker of CUDAMiner.cpp (src/unnamed/part_001).         *)
(*                                                                         *)
(* Actors:                                                                 *)
(*  - the worker thread running workLoop() and search();                   *)
(*  - the NumStreams GPU streams, FIFO queues of kernel launches that      *)
(*    complete asynchronously and write into the stream's pinned          *)
(*    search_results buffer;                                               *)
(*  - the farm (not under src/): it publishes a WorkPackage, then calls    *)
(*    kick_miner(), and at some point asks the worker to stop.             *)
(*                                                                         *)
(* Device initialisation is the PARALLEL DAG load mode, with one DAG size  *)
(* per epoch, so every successful init() of a new epoch resets the device. *)
(* The nonce is NonceBits wide instead of 64 bits; all nonce arithmetic is *)
(* modulo 2^NonceBits, as uint64_t arithmetic is modulo 2^64.              *)
(***************************************************************************)
EXTENDS Integers, Sequences, FiniteSets, Bitwise

CONSTANTS
  NumStreams,      \* s_numStreams
  BatchSize,       \* batch_size = s_gridSize * s_blockSize
  SearchResults,   \* SEARCH_RESULTS, result slots of a search_results buffer
  MaxHits,         \* most results a single kernel launch reports
  NonceBits,       \* width of the nonce (64 in the code)
  Log2MaxMiners,   \* LOG2_MAX_MINERS
  index,           \* Miner::index of this worker
  PeriodLength,    \* PROGPOW_PERIOD
  TargetShift,     \* 2^192: the kernel target is boundary >> 192
  NoHeader,        \* h256(), the zero header meaning "no work"
  SentinelHeader,  \* h256{1u}, the header workLoop starts with
  NoEpoch,         \* epoch of a default WorkPackage
  NoPeriod,        \* old_period_seed = -1 before the first kernel
  Works,           \* the WorkPackages the farm may publish
  NoWork,          \* the default WorkPackage the farm holds at start
  StartNonces,     \* values get_start_nonce() may return
  DagFits,         \* epochs whose DAG fits in the device's global memory
  InitMayFail,     \* whether init() may catch a std::runtime_error and return false
  CompileMayFail,  \* whether NVRTC compilation or the module load may fail
  GpuMayFail,      \* whether a CUDA call of search() or the final device reset may fail
  MaxPublish       \* bound on the number of works the farm publishes

ASSUME
  /\ NumStreams \in Nat \ {0}
  /\ BatchSize \in Nat \ {0}
  /\ SearchResults \in Nat \ {0}
  /\ \A wp \in Works : wp.exSizeBits <= NonceBits - Log2MaxMiners
  /\ index < 2^Log2MaxMiners

VARIABLES
  farmWork,        \* Miner::m_work, read by work()
  kickPending,     \* the farm has published and not yet called kick_miner
  published,       \* number of publications so far (bounded by MaxPublish)
  stopReq,         \* shouldStop()
  m_new_work,      \* the atomic kick flag
  pc,              \* worker thread: "loop", "start", "search", "done", "exit"
  current,         \* workLoop's WorkPackage current
  old_period_seed, \* workLoop's old_period_seed
  w,               \* workLoop's copy of work(), passed to search
  dagEpoch,        \* epoch of the DAG in m_dag (NoEpoch: no DAG)
  m_kernel,        \* [period |-> period compiled for, live |-> loaded in the current context]
  m_buffers_valid, \* m_search_buf and m_streams hold allocated objects
  m_current_header,
  m_current_target,
  m_starting_nonce,
  m_current_nonce,
  m_current_index, \* kept as k if k < NumStreams, else NumStreams + k % NumStreams
  m_search_buf,    \* stream -> [count |-> ..., res |-> the results in slots below SEARCH_RESULTS]
  gpu,             \* stream -> queue of kernel launches not yet completed
  evaluated,       \* the results the last search iteration drained (history)
  kickLaunches     \* launches since a kick that came after a launch of this search, -1 if none

farmVars    == <<farmWork, kickPending, published, stopReq>>
loopVars    == <<pc, current, old_period_seed, w>>
deviceVars  == <<dagEpoch, m_kernel, m_buffers_valid, m_search_buf, gpu>>
searchVars  == <<m_current_header, m_current_target, m_starting_nonce,
                 m_current_nonce, m_current_index>>
historyVars == <<evaluated, kickLaunches>>
vars == <<farmVars, m_new_work, loopVars, deviceVars, searchVars, historyVars>>

-----------------------------------------------------------------------------
Streams == 0 .. NumStreams - 1
NonceSpace == 2^NonceBits

\* workLoop's initial current: a default WorkPackage with header h256{1u}
InitialCurrent == [NoWork EXCEPT !.header = SentinelHeader]

\* uint64_t period_seed = w.height / PROGPOW_PERIOD
Period(wp) == wp.height \div PeriodLength

\* (uint64_t)(u64)((u256)current.boundary >> 192)
Upper64(boundary) == boundary \div TargetShift

\* The start nonce workLoop hands to search(): for extranonce work, the
\* pool's start nonce with the worker index shifted in below the prefix.
StartNonceOf(wp) ==
  IF wp.exSizeBits >= 0
  THEN wp.startNonce |
         ((index * 2^(NonceBits - Log2MaxMiners - wp.exSizeBits)) % NonceSpace)
  ELSE wp.startNonce

\* The nonces whose top bits carry the pool prefix and this worker's index.
InSlice(n, wp) ==
  LET low == 2^(NonceBits - Log2MaxMiners - wp.exSizeBits)
  IN n \div low = StartNonceOf(wp) \div low

\* m_current_index++, keeping only what the code reads of it: whether it is
\* below NumStreams and its value modulo NumStreams.
NextIndex(k) == IF k + 1 < NumStreams THEN k + 1
                ELSE NumStreams + ((k + 1) % NumStreams)

EmptyBuffer == [count |-> 0, res |-> <<>>]

\* A reported result, with the launch it came from (the model's record of
\* which nonce and header the GPU searched; the code keeps only gid).
Result == [gid : 0 .. BatchSize - 1, lnonce : 0 .. NonceSpace - 1,
           lhdr : {wp.header : wp \in Works}]

\* The results one kernel launch may report, in the order its threads won
\* the atomic increment of count.
Hits == UNION { {h \in [1 .. k -> 0 .. BatchSize - 1] :
                   \A a, b \in 1 .. k : a # b => h[a] # h[b]}
                : k \in 0 .. MaxHits }

TypeOK ==
  /\ farmWork \in Works \cup {NoWork}
  /\ kickPending \in BOOLEAN /\ stopReq \in BOOLEAN /\ m_new_work \in BOOLEAN
  /\ published \in 0 .. MaxPublish
  /\ pc \in {"loop", "start", "search", "done", "exit"}
  /\ current \in Works \cup {InitialCurrent}
  /\ w \in Works \cup {NoWork}
  /\ old_period_seed \in {NoPeriod} \cup {Period(wp) : wp \in Works}
  /\ m_buffers_valid \in BOOLEAN
  /\ m_current_nonce \in 0 .. NonceSpace - 1
  /\ m_current_index \in 0 .. 2 * NumStreams - 1
  /\ m_search_buf \in [Streams -> [count : Nat, res : Seq(Result)]]
  /\ \A i \in Streams : Len(m_search_buf[i].res) <= SearchResults
  /\ \A i \in Streams : \A j \in 1 .. Len(gpu[i]) :
        gpu[i][j].nonce \in 0 .. NonceSpace - 1
  /\ kickLaunches \in Int

-----------------------------------------------------------------------------
(***************************************************************************)
(* The farm (spec section 4.8; Miner::setWork, kick_miner's caller and     *)
(* stopWorking are not under src/).                                        *)
(***************************************************************************)

\* The farm stores a new WorkPackage for this miner; kick_miner() follows.
Publish(wp) ==
  /\ published < MaxPublish
  /\ ~kickPending
  /\ farmWork' = wp
  /\ kickPending' = TRUE
  /\ published' = published + 1
  /\ UNCHANGED <<stopReq, m_new_work, loopVars, deviceVars, searchVars, historyVars>>

\* kick_miner(): m_new_work.store(true).
KickMiner ==
  /\ kickPending
  /\ kickPending' = FALSE
  /\ m_new_work' = TRUE
  \* history: a kick landing after a launch of the running search
  /\ kickLaunches' = IF pc = "search" /\ m_current_index > 0 /\ kickLaunches < 0
                     THEN 0 ELSE kickLaunches
  /\ UNCHANGED <<farmWork, published, stopReq, loopVars, deviceVars, searchVars,
                 evaluated>>

\* stopWorking(): shouldStop() becomes true.
Stop ==
  /\ ~stopReq
  /\ stopReq' = TRUE
  /\ UNCHANGED <<farmWork, kickPending, published, m_new_work, loopVars,
                 deviceVars, searchVars, historyVars>>

-----------------------------------------------------------------------------
(***************************************************************************)
(* The GPU: the oldest launch queued on a stream completes and reports its *)
(* results into the stream's buffer. A thread that finds a result takes   *)
(* slot atomicInc(count) and writes it only if the slot is below           *)
(* SEARCH_RESULTS. Which gids a launch reports is left open: the GPU may   *)
(* also be wrong, which the host's eval() check is there to catch.         *)
(***************************************************************************)
ReportedResults(i, h) ==
  [j \in 1 .. Len(h) |-> [gid |-> h[j], lnonce |-> Head(gpu[i]).nonce,
                          lhdr |-> Head(gpu[i]).hdr]]

\* A kernel that writes result[slot] without the SEARCH_RESULTS bound.
KernelCompleteUnclamped(i) ==
  /\ gpu[i] # <<>>
  /\ \E h \in Hits :
       m_search_buf' = [m_search_buf EXCEPT ![i] =
            [count |-> @.count + Len(h), res |-> @.res \o ReportedResults(i, h)]]
  /\ gpu' = [gpu EXCEPT ![i] = Tail(@)]
  /\ UNCHANGED <<farmVars, m_new_work, loopVars, dagEpoch, m_kernel,
                 m_buffers_valid, searchVars, historyVars>>

KernelComplete(i) ==
  /\ gpu[i] # <<>>
  /\ \E h \in Hits :
       LET slots == m_search_buf[i].res \o ReportedResults(i, h)
       IN m_search_buf' = [m_search_buf EXCEPT ![i] =
            [count |-> @.count + Len(h),
             res   |-> SubSeq(slots, 1, IF Len(slots) < SearchResults
                                        THEN Len(slots) ELSE SearchResults)]]
  /\ gpu' = [gpu EXCEPT ![i] = Tail(@)]
  /\ UNCHANGED <<farmVars, m_new_work, loopVars, dagEpoch, m_kernel,
                 m_buffers_valid, searchVars, historyVars>>

-----------------------------------------------------------------------------
(***************************************************************************)
(* The worker thread: workLoop(), init() / cuda_init(), compileKernel().   *)
(***************************************************************************)

\* A cuda_init that keeps the stream and buffer pointer arrays it had.
InitDeviceKeepBuffers(e) ==
  IF e \in DagFits
  THEN /\ gpu' = [i \in Streams |-> <<>>]
       /\ dagEpoch' = e
       /\ m_buffers_valid' = TRUE
       /\ m_search_buf' = [i \in Streams |-> EmptyBuffer]
       /\ m_current_header' = NoHeader
       /\ m_current_target' = 0
       /\ m_current_nonce' = 0
       /\ m_current_index' = 0
       /\ UNCHANGED m_starting_nonce
  ELSE UNCHANGED <<dagEpoch, m_buffers_valid, m_search_buf, gpu, searchVars>>

\* init(epoch) -> cuda_init() in the PARALLEL load mode. The stream and
\* result-buffer pointer arrays are always reallocated (new[]). If the DAG
\* fits, the device is reset (which frees every allocation and drops the
\* queued launches), the DAG is generated, the pinned buffers and streams
\* are created and the search state is cleared. If it does not fit,
\* cuda_init returns false before any of that, leaving the fresh pointer
\* arrays uninitialised; init() ignores the result and returns true.
InitDevice(e) ==
  IF e \in DagFits
  THEN /\ gpu' = [i \in Streams |-> <<>>]
       /\ dagEpoch' = e
       /\ m_buffers_valid' = TRUE
       /\ m_search_buf' = [i \in Streams |-> EmptyBuffer]
       /\ m_current_header' = NoHeader
       /\ m_current_target' = 0
       /\ m_current_nonce' = 0
       /\ m_current_index' = 0
       /\ UNCHANGED m_starting_nonce
  ELSE /\ m_buffers_valid' = FALSE
       /\ UNCHANGED <<dagEpoch, m_search_buf, gpu, searchVars>>

\* compileKernel(): NVRTC compiles the period's kernel and loads it into the
\* current context.
CompileKernel(p) == [period |-> p, live |-> TRUE]

\* The kernel after workLoop's "init, then compile" sequence: a device reset
\* unloads the module, a compile loads a fresh one.
KernelAfterCompileFirst(reset, recompile, p) ==
  LET k == IF recompile THEN CompileKernel(p) ELSE m_kernel
  IN IF reset THEN [k EXCEPT !.live = FALSE] ELSE k

KernelAfter(reset, recompile, p) ==
  IF recompile THEN CompileKernel(p)
  ELSE IF reset THEN [m_kernel EXCEPT !.live = FALSE] ELSE m_kernel

\* A change test that only looks at the epoch and the period.
WorkChangedNoHeader(wk) ==
  current.epoch # wk.epoch \/ old_period_seed # Period(wk)

\* workLoop's change test on (header, epoch, period): nothing else of the
\* WorkPackage (boundary, startNonce, exSizeBits) is compared.
WorkChanged(wk) ==
  \/ current.header # wk.header
  \/ current.epoch # wk.epoch
  \/ old_period_seed # Period(wk)

\* The top of a workLoop iteration: copy work(); on a change, init() for a new
\* epoch (false when it caught a std::runtime_error: the loop breaks),
\* compileKernel() for a new period (its errors are cuda_runtime_error:
\* "Fatal GPU error", exit(-1)), then adopt the work. A changed, zero header
\* is the "No work." continue: the thread spins without changing anything,
\* which the model leaves to stuttering.
Dispatch ==
  /\ pc = "loop"
  /\ ~stopReq
  /\ LET wk == farmWork IN
     \/ /\ ~WorkChanged(wk)
        /\ w' = wk
        /\ pc' = "start"
        /\ UNCHANGED <<current, old_period_seed, deviceVars, searchVars>>
     \/ /\ WorkChanged(wk)
        /\ wk.header # NoHeader
        /\ current.epoch # wk.epoch /\ InitMayFail
        \* init() returns false: break, cudaDeviceReset(), the thread returns
        /\ gpu' = [i \in Streams |-> <<>>]
        /\ m_kernel' = [m_kernel EXCEPT !.live = FALSE]
        /\ pc' = "done"
        /\ UNCHANGED <<current, old_period_seed, w, dagEpoch, m_buffers_valid,
                       m_search_buf, searchVars>>
     \/ /\ WorkChanged(wk)
        /\ wk.header # NoHeader
        /\ LET reinit    == current.epoch # wk.epoch
               reset     == reinit /\ wk.epoch \in DagFits
               recompile == old_period_seed # Period(wk)
           IN /\ IF reinit THEN InitDevice(wk.epoch)
                 ELSE UNCHANGED <<dagEpoch, m_buffers_valid, m_search_buf, gpu,
                                  searchVars>>
              /\ \/ /\ m_kernel' = KernelAfter(reset, recompile, Period(wk))
                    /\ old_period_seed' = Period(wk)
                    /\ current' = wk
                    /\ w' = wk
                    /\ pc' = "start"
                 \/ /\ recompile /\ CompileMayFail
                    /\ m_kernel' = KernelAfter(reset, FALSE, Period(wk))
                    /\ pc' = "exit"
                    /\ UNCHANGED <<current, old_period_seed, w>>
  /\ UNCHANGED <<farmVars, m_new_work, historyVars>>

\* The loop ends on shouldStop(): cudaDeviceReset() and the thread returns.
WorkerExit ==
  /\ pc = "loop"
  /\ stopReq
  /\ gpu' = [i \in Streams |-> <<>>]
  /\ m_kernel' = [m_kernel EXCEPT !.live = FALSE]
  /\ pc' = "done"
  /\ UNCHANGED <<farmVars, m_new_work, current, old_period_seed, w, dagEpoch,
                 m_buffers_valid, m_search_buf, searchVars, historyVars>>

-----------------------------------------------------------------------------
(***************************************************************************)
(* search(): its prologue, then one iteration of its pipelined loop per   *)
(* step.                                                                   *)
(***************************************************************************)

\* The header or the target differs from the ones the pipeline runs with.
Initialize ==
  \/ m_current_header # current.header
  \/ m_current_target # Upper64(current.boundary)

\* A restart that records the new start nonce but keeps the nonce counter.
EthStratumNoncesNoReset(init, startN) ==
  /\ m_starting_nonce' = startN
  /\ UNCHANGED m_current_nonce

\* The _ethStratum branch: initialize forgets the starting nonce, and a
\* starting nonce that differs from _startN restarts the nonce counter there.
EthStratumNonces(init, startN) ==
  LET sn == IF init THEN 0 ELSE m_starting_nonce
  IN IF sn # startN
     THEN /\ m_starting_nonce' = startN
          /\ m_current_nonce' = startN
     ELSE /\ m_starting_nonce' = sn
          /\ UNCHANGED m_current_nonce

\* workLoop computes the target and startN from current and calls search(),
\* whose prologue re-initialises the pipeline (after cudaDeviceSynchronize)
\* when the header or target changed. After a cuda_init that failed its
\* memory check, the first use of the uninitialised stream and buffer
\* pointers ends the process: a fault, or a CUDA error thrown as
\* cuda_runtime_error and turned into exit(-1).
SearchStart ==
  /\ pc = "start"
  /\ \/ /\ ~m_buffers_valid
        /\ pc' = "exit"
        /\ UNCHANGED <<searchVars, m_search_buf, kickLaunches>>
     \/ /\ m_buffers_valid
        /\ Initialize => \A i \in Streams : gpu[i] = <<>>
        /\ m_current_header' = current.header
        /\ m_current_target' = Upper64(current.boundary)
        /\ m_search_buf' = IF Initialize THEN [i \in Streams |-> EmptyBuffer]
                           ELSE m_search_buf
        /\ m_current_index' = IF Initialize THEN 0 ELSE m_current_index
        /\ IF current.exSizeBits >= 0
           THEN EthStratumNonces(Initialize, StartNonceOf(current))
           ELSE /\ IF Initialize
                   THEN \E n \in StartNonces : m_current_nonce' = n
                   ELSE UNCHANGED m_current_nonce
                /\ UNCHANGED m_starting_nonce
        /\ pc' = "search"
        /\ kickLaunches' = -1
  /\ UNCHANGED <<farmVars, m_new_work, current, old_period_seed, w, dagEpoch,
                 m_kernel, m_buffers_valid, gpu, evaluated>>

\* The nonce a result is attributed to: found slot gid of a buffer drained
\* S launches after it was handed to the kernel.
NonceBaseOneStream(nonce) == (nonce - (NumStreams - 1) * BatchSize) % NonceSpace

NonceBase(nonce) == (nonce - NumStreams * BatchSize) % NonceSpace

\* What the iteration did with each drained result: the nonce the host
\* computed, beside the nonce and header the GPU really searched.
Drained(res, base) ==
  { [nonce |-> (base + res[j].gid) % NonceSpace, header |-> w.header,
     foundNonce |-> (res[j].lnonce + res[j].gid) % NonceSpace,
     foundHdr |-> res[j].lhdr] : j \in 1 .. Len(res) }

\* A loop whose kick and stop tests sit inside "if (found_count)".
IterationEndOnlyWithResults(drain, found) ==
  \/ /\ drain /\ found > 0 /\ (m_new_work \/ stopReq)
     /\ m_new_work' = FALSE
     /\ pc' = "loop"
  \/ /\ ~(drain /\ found > 0 /\ (m_new_work \/ stopReq))
     /\ UNCHANGED m_new_work
     /\ pc' = "search"

\* A loop that only leaves on a kick.
IterationEndNoStop(drain, found) ==
  \/ /\ drain /\ m_new_work
     /\ m_new_work' = FALSE
     /\ pc' = "loop"
  \/ /\ ~(drain /\ m_new_work)
     /\ UNCHANGED m_new_work
     /\ pc' = "search"

\* The end of an iteration that drained a buffer: the CAS on m_new_work
\* breaks out; otherwise shouldStop() clears the flag and breaks out.
IterationEnd(drain, found) ==
  \/ /\ drain /\ m_new_work
     /\ m_new_work' = FALSE
     /\ pc' = "loop"
  \/ /\ drain /\ ~m_new_work /\ stopReq
     /\ m_new_work' = FALSE
     /\ pc' = "loop"
  \/ /\ ~(drain /\ (m_new_work \/ stopReq))
     /\ UNCHANGED m_new_work
     /\ pc' = "search"

\* One iteration: advance index and nonce; once index >= S, wait for the
\* stream, drain its buffer and clear count; launch the kernel on the
\* stream; evaluate (or, with --noeval, pass on) the drained results; test
\* the kick and stop flags.
SearchStep ==
  /\ pc = "search"
  /\ LET k     == NextIndex(m_current_index)
         nonce == (m_current_nonce + BatchSize) % NonceSpace
         s     == k % NumStreams
         drain == k >= NumStreams
         found == IF drain THEN m_search_buf[s].res ELSE <<>>
     IN /\ drain => gpu[s] = <<>>                    \* cudaStreamSynchronize
        /\ m_current_index' = k
        /\ m_current_nonce' = nonce
        /\ m_search_buf' = IF drain THEN [m_search_buf EXCEPT ![s] = EmptyBuffer]
                           ELSE m_search_buf
        /\ gpu' = [gpu EXCEPT ![s] = Append(@,
                     [nonce |-> nonce, hdr |-> m_current_header,
                      target |-> m_current_target, dag |-> dagEpoch,
                      kernel |-> m_kernel, epoch |-> w.epoch,
                      period |-> Period(w)])]
        /\ evaluated' = Drained(found, NonceBase(nonce))
        /\ kickLaunches' = IF kickLaunches >= 0 THEN kickLaunches + 1
                           ELSE kickLaunches
        /\ IterationEnd(drain, Len(found))
  /\ UNCHANGED <<farmVars, current, old_period_seed, w, dagEpoch, m_kernel,
                 m_buffers_valid, m_current_header, m_current_target,
                 m_starting_nonce>>

\* A checked CUDA call fails: CUDA_SAFE_CALL / CU_SAFE_CALL throw
\* cuda_runtime_error, which workLoop's handler reports as "Fatal GPU error"
\* before exit(-1). The calls are search()'s cudaDeviceSynchronize when it
\* re-initializes, an iteration's cudaStreamSynchronize and cuLaunchKernel,
\* and the cudaDeviceReset after the loop. The process ends with its CUDA
\* context, so launches in flight never complete.
GpuError ==
  /\ GpuMayFail
  /\ \/ pc = "start" /\ m_buffers_valid /\ Initialize
     \/ pc = "search"
     \/ pc = "loop" /\ stopReq
  /\ pc' = "exit"
  /\ gpu' = [i \in Streams |-> <<>>]
  /\ UNCHANGED <<farmVars, m_new_work, current, old_period_seed, w, dagEpoch,
                 m_kernel, m_buffers_valid, m_search_buf, searchVars, historyVars>>

-----------------------------------------------------------------------------
Init ==
  /\ farmWork = NoWork
  /\ kickPending = FALSE
  /\ published = 0
  /\ stopReq = FALSE
  /\ m_new_work = FALSE
  /\ pc = "loop"
  /\ current = InitialCurrent
  /\ old_period_seed = NoPeriod
  /\ w = NoWork
  /\ dagEpoch = NoEpoch
  /\ m_kernel = [period |-> NoPeriod, live |-> FALSE]
  /\ m_buffers_valid = FALSE
  /\ m_current_header = NoHeader
  /\ m_current_target = 0
  /\ m_starting_nonce = 0
  /\ m_current_nonce = 0
  /\ m_current_index = 0
  /\ m_search_buf = [i \in Streams |-> EmptyBuffer]
  /\ gpu = [i \in Streams |-> <<>>]
  /\ evaluated = {}
  /\ kickLaunches = -1

Next ==
  \/ \E wp \in Works : Publish(wp)
  \/ KickMiner
  \/ Stop
  \/ \E i \in Streams : KernelComplete(i)
  \/ Dispatch
  \/ SearchStart
  \/ SearchStep
  \/ WorkerExit
  \/ GpuError

\* The worker is an OS thread, the streams are driven by the GPU, and the
\* farm calls kick_miner() right after storing the work: all keep going
\* while they can. The farm is not obliged to publish or to stop.
Fairness ==
  /\ WF_vars(Dispatch) /\ WF_vars(SearchStart) /\ WF_vars(SearchStep)
  /\ WF_vars(WorkerExit) /\ WF_vars(KickMiner)
  /\ \A i \in Streams : WF_vars(KernelComplete(i))

Spec == Init /\ [][Next]_vars /\ Fairness

-----------------------------------------------------------------------------
(***************************************************************************)
(* Properties.                                                             *)
(***************************************************************************)

\* Every kernel launch still queued on a stream runs with the DAG of its
\* work's epoch and with a kernel compiled for its work's period and loaded
\* in the device's current context: workLoop's init() (which resets the
\* device) must come before compileKernel(), and no launch may outlive a
\* reset.
LaunchUsesLiveDagAndKernel ==
  \A i \in Streams : \A j \in 1 .. Len(gpu[i]) :
    LET L == gpu[i][j]
    IN /\ L.dag = L.epoch
       /\ L.kernel = [period |-> L.period, live |-> TRUE]

\* Every result search() drains is submitted (or checked by eval) under the
\* nonce and header the GPU actually searched: nonce_base + gid equals the
\* launch's start nonce + gid, and w.header is the header of the launch,
\* across pipelining, re-entries into search() and work switches.
ResultAttribution ==
  \A r \in evaluated : r.nonce = r.foundNonce /\ r.header = r.foundHdr

\* When search() starts extranonce (ethereum-stratum) work afresh, the nonce
\* counter is inside this worker's slice of the pool-assigned range: the
\* pool prefix followed by the worker index.
StartsInWorkSlice ==
  [][pc = "start" /\ pc' = "search" /\ current.exSizeBits >= 0 /\ Initialize
       => InSlice(m_current_nonce', current)]_vars

\* A kick that comes after a launch of the running search ends it within
\* NumStreams - 1 further launches: the flag is tested at the end of every
\* iteration once m_current_index >= s_numStreams.
KickExitBound == kickLaunches <= NumStreams - 1

\* While search() runs, the header and target it hands the kernel are those
\* of the WorkPackage w against which its results are evaluated and
\* submitted.
SearchMatchesWork ==
  pc = "search" =>
    /\ m_current_header = w.header
    /\ m_current_target = Upper64(w.boundary)

\* Spec sections 4.5 and 7 (out-of-memory): a device whose global memory
\* cannot hold the epoch's DAG is refused; the worker never goes on to
\* search work of an epoch whose DAG it does not hold.
RefusesUnfitEpoch ==
  pc \in {"start", "search"} => dagEpoch = current.epoch

\* Once the farm asks the worker to stop, the worker thread ends: search()
\* leaves its loop at the next drained iteration and workLoop resets the
\* device.
StopTerminates == stopReq ~> pc \in {"done", "exit"}

\* Work the farm publishes is eventually searched by the worker, unless the
\* farm replaces it or the worker ends first: kick_miner() makes search()
\* return and workLoop's change test picks the new work up.
WorkAdopted ==
  \A wp \in Works :
    farmWork = wp ~> \/ current = wp /\ pc = "search"
                     \/ farmWork # wp
                     \/ pc \in {"done", "exit"}

=============================================================================
