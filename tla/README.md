# TLA+ models of the ProgPoW CUDA miner and its stratum client

This directory holds TLA+ models of the two concurrent cores of the miner:

* the **stratum pool client** (`src/libpoolprotocols/stratum/EthStratumClient.cpp`),
  an asio reactor with sockets, three timers and three protocol dialects;
* the **CUDA mining worker** (`src/unnamed/part_001`, which is `CUDAMiner.cpp`),
  a worker thread that re-initialises the GPU on epoch changes, recompiles the
  kernel on ProgPoW period changes and drives a pipeline of `S` GPU streams.

Every module is translated from the source lines that `PROJECT.json` "map" names.
The Farm, the `Miner` base class, `WorkPackage` and the pool supervisor are not
under `src/`; where a model needs them they are written from `spec.md` and marked
`spec_modelled` in the map.

## 1. Inventory

### Components, their state and operations

| Component | Source | State | Operations |
|---|---|---|---|
| Wire codec | EthStratumClient.cpp 320-396 | `m_pending` (outstanding reads, under `x_pending`), `m_responseBuffer` | `readline`, `readResponse` (framing check `{...}`, parse, dispatch, re-arm read; read error ⇒ `disconnect`) |
| Session | EthStratumClient.cpp 35-319, 591-633 | socket (plain or TLS), `m_connected`, `m_linkdown`, io thread + `io_service` (running/stopped), work timer, response timer, hashrate timer | `connect`, `resolve_handler`, `connect_handler` (TLS handshake, subscribe), `disconnect`, `reset_work_timeout`, `work_timeout_handler`, `response_timeout_handler`, `submitHashrate`, `hashrate_event_handler`, `async_write_with_response`, `handleResponse` |
| Protocol engine | EthStratumClient.cpp 398-589, 635-670 | `m_authorized`, `m_response_pending`, `m_stale`, `m_current` (last work), `m_nextWorkDifficulty`, `m_extraNonce`, `m_extraNonceHexSize`, `m_worker` | `processReponse` (ids 1..4, `mining.notify`, `set_difficulty`, `set_extranonce`, `client.get_version`), `processExtranonce`, `submitSolution` |
| Difficulty to target | EthStratumClient.cpp 13-32 | none (pure) | `diffToTarget` |
| Work model | `WorkPackage` (not in src) | header, seed/epoch, boundary, height, job, startNonce, exSizeBits | value type |
| Device context | part_001 60-97, 329-463 | `m_dag`, `m_dag_elms`, `m_light`, `m_search_buf`, `m_streams`, globals `s_dagLoadIndex`, `s_dagInHostMemory` | `init` (SEQUENTIAL wait, SINGLE host-DAG free), `cuda_init` (device reset, allocations, DAG generate / wait-and-copy) |
| Kernel builder | part_001 468-556 | `m_module`, `m_kernel` | `compileKernel` (NVRTC → PTX → module load; errors throw) |
| Search loop | part_001 99-163, 558-674; CUDAMiner_cuda.h 86-99 | `m_current_header`, `m_current_target`, `m_starting_nonce`, `m_current_nonce`, `m_current_index`, `m_new_work`, per-stream `search_results` | `workLoop` (work change detection, init, compile, start nonce), `search` (initialise, pipelined drain/launch/evaluate/submit, kick check), `kick_miner` |
| GPU configuration | part_001 165-320 | `s_devices`, `s_numInstances`, grid/block/stream counts | `setNumInstances`, `setDevices`, `configureGPU`, `cuda_configureGPU` (memory check), `getNumDevices`, `listDevices` |
| Farm supervisor | not in src (spec §4.8) | published work per miner, hash counters | `setWork` (then `kick_miner`), `submitProof`, `failedSolution`, `stopWorking` |
| API server | part_000 1-22 | declarations only | none in src |
| Build | part_000 24-77 (CMake) | none | none |

### How the components interact

* The pool client runs on one io thread; every socket and timer callback runs
  there in sequence. `submitSolution` and `submitHashrate` are called from the
  farm's threads and touch the same `m_requestBuffer`, socket and timers.
* The client hands each new `WorkPackage` to the farm (`m_onWorkReceived`); the
  farm stores it per miner and calls `kick_miner`, which sets `m_new_work`.
* Each CUDA worker thread polls `work()` at the top of `workLoop`, and reads
  `m_new_work` at the end of each pipelined search iteration.
* The GPU runs the kernel launches of each stream asynchronously; the worker
  waits for them with `cudaStreamSynchronize` / `cudaDeviceSynchronize`.
* Workers share the DAG-load globals (`s_dagLoadIndex`, `s_dagInHostMemory`) in
  the SEQUENTIAL and SINGLE load modes.
* Solutions go from the worker to the farm (`submitProof`), then to
  `submitSolution`. The pool's id=4 answer is reported through
  `m_onSolutionAccepted/Rejected(m_stale)`.

### What is hard

* **Pipelining**: a stream's results are drained `S` iterations after its launch.
  The nonce of a result is rebuilt as `m_current_nonce - S*batch + gid`. This holds
  only if the index and nonce counters stay in step across re-entries into
  `search`, and if the results of launches made for old work are thrown away.
* **Work switches**: `kick_miner` can happen at any time, but it is read only at
  iteration ends, and only once `m_current_index >= S`. Work changes are detected
  on the triple (header, epoch, period) only.
* **Device resets**: `cuda_init` resets the device, and the reset also unloads the
  compiled kernel. The order of init and compile in `workLoop` matters.
* **Timers against answers**: the response and work timers are cancelled and
  re-armed from handlers, and from a foreign thread (`submitSolution`). A timer
  that has already expired can still run its handler after `cancel`.
* **Reconnection**: `disconnect` stops the `io_service`; `connect` must bring the
  reactor back. The read counter and the socket pointer survive across
  connections.
* **Several workers**: the SINGLE and SEQUENTIAL DAG load modes coordinate workers
  through plain globals that are never reset between epochs.

### Correctness properties per component

* Search loop: a drained result is attributed to the nonce and header that the
  GPU searched. Every launch uses the DAG of the work's epoch and a kernel of the
  work's period, loaded in the live context. A failed-solution report means the
  GPU really was wrong. A kick ends the search within a bounded number of
  launches. Published work is eventually mined, and a stop eventually ends the
  worker.
* Device context / DAG load: every worker ends `init` with the DAG of its epoch.
  No worker waits forever for the host DAG.
* Session: every `connect` ends in a connection or an `onDisconnected` callback.
  At most one read is outstanding. No handler uses a released socket. A
  connected session keeps a read outstanding, even past lines it cannot
  parse, and a connection whose link has died is eventually torn down.
* Protocol engine: every submission ends in exactly one of accepted, rejected or
  a response-timeout disconnect. The stale flag reported belongs to the answered
  submission. A response timeout disconnects only if an answer is really missing.
* diffToTarget: `target * difficulty` is close to 0xFFFF·2^208, the difficulty-1 target, and the target is monotone
  in the difficulty.

## 2. Plan

Modules, in the order they are built (most important behaviour first):

1. `CUDAMiner.tla` (done): one worker thread (`workLoop`, `search`,
   `kick_miner`, the device init and compile steps in the PARALLEL load mode),
   the `S` GPU streams as asynchronous actors, and the farm as environment.
2. `EthStratumClient.tla` (done): the session and protocol engine with the io
   reactor, the three timers, the pool as a nondeterministic peer, the
   supervisor reconnecting after `onDisconnected`, and the farm's
   `submitSolution` / `submitHashrate` calls.
3. `DagLoad.tla` (done): N workers running `init`/`cuda_init` in the
   PARALLEL, SEQUENTIAL and SINGLE load modes over several epochs, shown to
   implement the abstract `DagService.tla` through `INSTANCE ... WITH`, and
   checked for workers that wait forever and for host-buffer misuse.
4. `PoolSubmission.tla` (abstract): every submitted share gets exactly one
   outcome. `EthStratumClient` is checked against it through `INSTANCE ... WITH`.
5. `NonceSearch.tla` (abstract): a worker enumerates consecutive batches of its
   work's nonce range. `CUDAMiner` is shown to implement it, with the stream
   pipeline mapped away.
6. `MiningSystem.tla`: composes the client, the farm and two workers, so that a
   pool notify can be followed to a submitted share.
7. `diffToTarget` is left unmodelled. It is double and 64-bit arithmetic, which TLC's 32-bit integers cannot check at the code's width (section 3, "Not modelled").

## 3. Modules, runs and results

### `CUDAMiner.tla`, `MC_CUDAMiner.tla`: one CUDA worker

**State.**
- The farm side is `farmWork` (`Miner::m_work`), `kickPending`, `published` and `stopReq`.
- The worker thread is `pc`, which is the point in `workLoop`/`search`, plus `current`, `old_period_seed`, `w` and the atomic `m_new_work`.
- The device is `dagEpoch`, `m_kernel` (the period it was compiled for, and whether it is loaded in the live context), `m_buffers_valid`, the pinned `m_search_buf` per stream, and `gpu`: one FIFO of pending kernel launches per stream.
- The search counters keep their names from the code.
- `m_current_index` is kept modulo `S` above `S`, so the state space stays finite.
- Nonces are `NonceBits` wide, and all nonce arithmetic is `% 2^NonceBits`, as `uint64_t` arithmetic is `% 2^64`.

**Actions.**
- `Publish` and `KickMiner` are the farm's `setWork` followed by `kick_miner`. `Stop` is `stopWorking`.
- `Dispatch` is one pass of `workLoop`'s top. It covers work-change detection, `init`/`cuda_init` (which resets the device and so unloads the kernel), `compileKernel`, and the start nonce.
- `SearchStart` is `search`'s set-up.
- `SearchStep` is one pipelined iteration: drain stream `current_index % S`, launch, evaluate/submit, and check the kick.
- `KernelComplete(i)` is the GPU finishing stream `i`'s oldest launch.
- `WorkerExit` is the thread's end.
- A failed `init` and a failed NVRTC compile or module load are disjuncts, enabled by `InitMayFail` and `CompileMayFail`.
- `GpuError`, enabled by `GpuMayFail`, is a checked CUDA call that fails: `cudaDeviceSynchronize` when `search()` re-initializes, an iteration's `cudaStreamSynchronize` or `cuLaunchKernel`, or the `cudaDeviceReset` after the loop. `CUDA_SAFE_CALL`/`CU_SAFE_CALL` (CUDAMiner_cuda.h 63-91) throw `cuda_runtime_error`, and workLoop's handler calls `exit(-1)`. The process ends with its CUDA context, so launches in flight are dropped.

**Fairness.** The worker thread and the GPU streams are weakly fair: they are an OS thread and hardware queues. The farm's `kick_miner` is also weakly fair, because `setWork` calls it right after storing the work. Publishing and stopping are not fair.

### `EthStratumClient.tla`, `MC_EthStratumClient.tla`: the stratum client

**The reactor.**
- `q` is the FIFO of completion handlers the io thread will run.
- `ioThread` is `none`, `running` or `finished`. It is `finished` when `run()` has returned but the `std::thread` is still joinable.
- `ioStopped` is the `io_service`'s stopped flag.
- Pending operations (`resolving`, `connecting`, `reading`, `writes`) complete, and queue their handlers, only while the reactor runs (`Reactor`).
- `close()` and `disconnect()` queue aborted read and connect handlers.
- A timer that has already expired keeps its queued success handler after `cancel()`. This is asio's documented behaviour, and it is the root of two findings.
- `IoThreadExits` is `run()` returning: the service was stopped, or it ran out of work.

**The session and protocol state.** These are the client's members with their own names: `m_pending`, `m_connected`, `m_linkdown`, `m_authorized`, `m_response_pending`, `m_stale`, `m_requestBuffer`, `m_nextWorkDifficulty` and `m_extraNonce`.
- `m_current.header` is `m_currentHeader`.
- `lastWork` is the last `WorkPackage` handed to `m_onWorkReceived`.
- `sock` says whether `m_socket`/`m_securesocket` is null.
- `conf` is the client's configuration, fixed for its lifetime and chosen in `Init` from the constant `Configs`. It is a record: the dialects `m_connection.Version()` may name, TLS or not (`Secure`), `m_submit_hashrate` (`SubmitHashrate`), and what the environment may do (`NetMayFail`, `PoolMayGarble`, `AuthMayFail`, `PoolAsksVersion`, `ReconnectMode`). `MC_EthStratumClient.tla` defines the records. A run that names two of them checks each behaviour under one, so their state counts add rather than multiply.
- `version` is `m_connection.Version()`. It is chosen in `Init` from `conf.versions` and never changes.

**Actions.** There is one per handler: `RunResolve`, `RunConnect` (including the TLS handshake and the subscribe/login), `RunWrite`, `ReadFails`, `OnGarbled` (a line that fails the `{...}` framing or the JSON parse: discarded, and reading resumes), and, for each branch of `processReponse`, `OnSubscribed`, `OnIgnored`, `OnAuthorized`, `OnShareAnswer`, `OnNotify`, `OnSetDifficulty`, `OnSetExtranonce` and `OnGetVersion`. The timer handlers are `RunWorkTimer`, `RunRespTimer` and `RunHashTimer`.
- Each read handler ends as `readResponse` does. It decrements `m_pending`, re-arms `readline` while connected, and dereferences the socket, which crashes when `disconnect()` has nulled it.
- `Connect` and `Disconnect` are the whole of `connect()` and `disconnect()`.
- The farm's calls are `SubmitSolution`, `SubmitArm` and `SubmitHashrateCall`. The farm runs on its own thread, so they may interleave with any handler.
- `submitSolution` takes no lock and runs in two steps. `SubmitSolution` covers 635-665: cancel the response timer, buffer the share, set `m_stale` and send it. `SubmitArm` covers 667-669: set `m_response_pending` and arm the 2 s timer. `farm` records that the thread is between the two steps.

**The environment** is spec-modelled:
- the supervisor (`SupStart`, `ReconnectInCallback`, `CallbackReturns`, `SupReconnect`);
- the pool (`PoolAnswers`, which answers requests in order, may stay silent on a share and, with `PoolMayGarble`, may send any answer as a line that is not one JSON object, and `PoolPushes`, which sends notify, set_difficulty, set_extranonce and client.get_version);
- the network (`LinkDrops`).

**History variables.**
- `attempt` runs from `connect()` to `m_connected` or to `onDisconnected`.
- `nSubs` and `subStale` record the shares and each share's own stale flag.
- `outcome` collects every report made for a share: accepted, rejected, timeout, or "lost" with its connection.
- `crashed` records a null-socket dereference.

**Fairness.** The following are weakly fair:
- the io thread's handlers and `run()`'s return;
- the completion of pending operations;
- the expiry of the response and hashrate timers, and of the work timer once the link is down;
- the supervisor;
- the pool's answers;
- a farm thread inside `submitSolution` finishing it (`SubmitArm`).

The code justifies this: asio completes operations while `run()` runs, and the timers have fixed expiries. While the link is up the work timer is not fair, since new work keeps re-arming it; once the link is down no work can arrive, so an armed work timer expires. Neither are pool pushes, link failures or the farm's calls.

### `DagLoad.tla`, `DagService.tla`, `MC_DagLoad.tla`: the DAG load of several workers

**What it covers.** `DagLoad` models every worker's `init(epoch)` and `cuda_init` (part_001 60-97 and 329-463), together with the process-wide statics they share:
- `s_dagLoadIndex` (`loadIndex`);
- `s_dagInHostMemory` (`hostDag`, which is NULL or the epoch the buffer was generated for);
- `s_devices` (`SDevices`), `s_dagCreateDevice` and `s_numInstances` (`Instances`).

`mode` is `s_dagLoadMode`. It is chosen in `Init` from `Modes` and never changes, as `configureGPU` sets it once before mining.

**Per-worker state.**
- `pc` is where the thread is.
- `cur` is `current.epoch`, and `tgt` is the epoch `init` was called with.
- `dag` is the epoch whose bytes fill its `m_dag`: `Garbage` until written, or after a copy from a freed buffer.
- `live` says the allocation has not been freed. `cudaDeviceReset` (374) frees every allocation on the device, so a reset clears `live` for every worker on the same device (`DeviceNum` is the code's clamp, 66 and 345).

**Actions.** There is one per step of the code, at the grain where threads can interleave:
- `StartInit` (workLoop sees a new epoch);
- `SeqWait` (the SEQUENTIAL poll, 63-65);
- `CudaReset` (reset and allocation);
- `CudaFill`: generate, or generate and publish the host copy, or wait, or read the host pointer (414-442);
- `WaitHost` (the 100 ms poll, 431-433);
- `CopyDag` (the host-to-device copy);
- `IncRead`/`IncWrite`: `s_dagLoadIndex++`, a plain unsigned shared by all threads, so two increments can lose one;
- `FreeCheck` (80), `DeleteHost` (83) and `ClearHost` (84).

The farm's `NewEpoch` is spec-modelled.

**Simplifications.**
- Every `init` is for a new epoch, and the ethash dataset grows with the epoch, so `cuda_init` always takes its reset path.
- The out-of-memory return is modelled in `CUDAMiner.tla`.
- `fault` records a double free or a copy from a freed buffer.

**Refinement.** `DagService` is the abstract promise. A worker whose epoch is stale begins a load of the farm's epoch. It ends the load holding that epoch's DAG, and nothing else changes a worker's DAG. `DagLoad` maps onto it:
- `loading` is "`pc` is not `mining`";
- `want` is `tgt`;
- `cur` is, while mining, `Content(w)`, the epoch of the live bytes, and otherwise `cur`.

`ImplementsDagService` is `DagService!Spec` stated as a property. A worker mining with a DAG that another worker's reset freed, or with a copy of another epoch's host DAG, breaks it. No run checks it.
- In the passing configuration (a device per worker, SINGLE mode over one epoch) it holds by construction.
- The configurations that could break it are ones where the code does break it: a shared device, or SINGLE mode over two epochs. The `dag_single_epochs` trace shows a worker loading epoch 1 that copies the epoch-2 host DAG.
- Every run slot is taken by a finding, so these have no run of their own.

**Fairness.** Every worker thread is weakly fair. The 100 ms polls retry forever, so a condition that stays true is eventually seen. Weak fairness is also why a host DAG that is published and freed between two polls may never be seen, as in the code. Publishing a new epoch is not fair.

### Runs

| run | result | what it shows |
|---|---|---|
| `miner_stratum` | pass, 598k states | Two streams, stratum and ethereum-stratum work over three epochs, the third of which does not fit the device, with `init`, the NVRTC compile and the CUDA calls of `search()` allowed to fail. Launches use the live DAG and kernel of the work's epoch and period. Drained results are attributed to the nonce and header searched. A kick ends the search within `S-1` launches. Fresh extranonce work starts in the worker's slice. Published work is searched. A stop ends the thread. |
| `miner_dag_oom` | violation of `RefusesUnfitEpoch` | `init()` ignores `cuda_init()`'s false when the DAG does not fit (part_001:367), and the worker searches that epoch without its DAG (in the trace the first work already does not fit, so there is no DAG at all). |
| `miner_ethstratum_renotify` | violation of `SearchMatchesWork` | The ethereum-stratum client re-emits the same job with a new boundary after `mining.set_difficulty`. `workLoop` does not adopt it, so the kernel keeps the old target while results are judged against the new boundary. |
| `miner_startn_zero` | violation of `StartsInWorkSlice` | Worker 0 with an all-zero extranonce prefix gets `startN = 0`, which `search()` takes for "not set": the worker mines outside its slice. |
| `client_callback` | pass, 407k states | Stratum and ethproxy, two connections, one header, failing resolve, connect and link, answers garbled into lines that are not JSON, a refused authorize, and the supervisor reconnecting inside `onDisconnected`. One read at a time with `m_pending` in step (`ReadAccounting`). Every `connect()` settles (`ConnectSettles`). A connection whose link has died is torn down, by the work timer when no read is outstanding (`DeadLinkNoticed`). |
| `client_thread` | pass, 8.4M states (with symmetry) | Two configurations. The first is all three dialects over TLS, with faults and `client.get_version`, and the supervisor reconnecting from its own thread. The second is hashrate reports through the debounce timer, with pool answers garbled into lines that are not JSON. `set_difficulty 0` keeps `m_nextWorkDifficulty` positive (`TypeOK`), and `m_pending` stays in step (`ReadAccounting`). While connected over a live link, a read is always outstanding or will be started by a pending write's handler (`Listening`). This holds across link failures, TLS handshakes, garbled lines and reconnects. |
| `client_share_twice` | violation of `ShareOutcomeUnique` | One share reported twice. |
| `client_stale_window` | violation of `StaleFlagOfShare` | A `mining.notify` handled between `submitSolution`'s send (665) and `m_response_pending = true` (667) leaves `m_stale` unset, so the share is reported fresh. |
| `client_tls_submit` | violation of `NoNullSocket` | Over TLS, `submitSolution` during a disconnect dereferences the null `m_securesocket`. |
| `dag_modes` | pass, 591k states | Three workers on three devices. PARALLEL and SEQUENTIAL run over three epochs, and SINGLE over its first epoch, with lost increments of `s_dagLoadIndex`. Every worker eventually mines the current epoch (`EventuallyAllLoaded`), through the SEQUENTIAL poll with lost increments and SINGLE mode's wait for the host DAG. |
| `dag_single_epochs` | violation of `EventuallyAllLoaded` | SINGLE mode, two workers, two epochs: from the second epoch the worker polling for the host DAG waits forever. |
| `dag_double_free` | violation of `HostBufferSafe` | SINGLE mode, two workers, first epoch: both delete the host DAG. |

Spec §8 property 5 says a kick ends the search within one more launch. The code keeps the bound `S-1` instead, which `KickExitBound` checks in `miner_stratum`. The kick is tested only once `m_current_index >= S`, at part_001:658. With the run's `S = 2`, the bounds `S-1` and one launch coincide, so the run cannot tell the code's bound from the spec's. A run with `S = 3`, where the two differ, does not fit the run budget. The disagreement is argued from the code, not shown by a run.

### Findings of the client

1. **Double report** (`client_share_twice`).
   - The response timer expires just as the pool's answer arrives, and both handlers are queued.
   - `response_timeout_handler` disconnects and reports the share as timed out through `onDisconnected`.
   - The supervisor's `connect()` from that callback `reset()`s the service, so the answer's queued `readResponse` still runs.
   - It reports the share accepted or rejected as well, against spec §8.1's "never both".
   - The shortest trace is 25 steps of the supervisor, the io thread, the farm and the pool.
2. **A share with no timeout** (argued from the code; no run). `ShareAnswered` states spec 8.1's "never neither", but no run checks it. With one share per session it holds only because the case below cannot arise, and every run slot is taken by a finding.
   - There is one response timer for all shares.
   - The answer to the first of two outstanding shares cancels it and clears `m_response_pending` (460-462).
   - If the pool drops the second share, nothing ever resolves it.
3. **Stale flag lost in submitSolution's window** (`client_stale_window`).
   - `submitSolution` runs on a farm thread with no lock. It sends the share (665) before it sets `m_response_pending` and arms the timer (667-669).
   - A `mining.notify` that the io thread handles in between sees `m_response_pending` false, so it does not set `m_stale` (498-499).
   - The answer then reports the share with `stale = false`, although new work arrived while it waited. This takes one share, on a healthy link, in 28 steps.
   - In the same window the answer itself can be handled first. The late 667-669 then mark a share pending that has already been answered, and arm a timer whose expiry disconnects a healthy session.
4. **Null socket** (`client_tls_submit`).
   - `disconnect()` sets `m_securesocket` to `nullptr` (179).
   - The farm thread's `submitSolution` then writes to `*m_securesocket` (224) during or after the disconnect.

Three more disagreements appeared while modelling. They are described here rather than given runs of their own:
- With two outstanding shares, `m_stale` belongs to the last one (663), so the first share's answer carries the wrong stale flag.
- The late response-timer handler of finding 1 also tears down a fresh session that has nothing outstanding.
- When the supervisor reconnects from its own thread after `run()` has returned, `connect()` only `reset()`s the service, because the thread is still joinable (143-146). No thread runs the resolve, so `ConnectSettles` fails.

### Findings of the DAG load

1. **SINGLE mode hangs from the second epoch** (`dag_single_epochs`).
   - `s_dagLoadIndex` counts loads since start and is never reset. From the second epoch on it is already `>= s_numInstances`.
   - The create device's worker generates the DAG, publishes it (428), increments, and deletes it at once (83-84).
   - A worker that reaches `cuda_init` afterwards finds `hostDAG` NULL and polls at 431 forever.
   - Spec §4.5 says the buffer is freed when every worker has finished copying. Spec §7 scenario 5 says the other device copies it and proceeds.
   - In the same 22-step trace, a worker still loading epoch 1 copies the epoch-2 host DAG.
2. **Double free** (`dag_double_free`).
   - The free at 80-84 checks and then acts on shared statics, with no lock.
   - After the last two increments, both workers see `s_dagLoadIndex >= s_numInstances` and a non-null pointer.
   - Both call `delete[]` before either sets the pointer to NULL.
   - It takes 16 steps of two workers in the first epoch.
3. **Two workers on one device** (no run).
   - If `s_devices` names one device twice, each worker's `cudaDeviceReset` frees the other's DAG while it mines.
   - `ImplementsDagService` states what breaks, but no run checks it.
   - A `s_dagCreateDevice` that no worker owns makes every SINGLE-mode worker wait forever.

### Bounds and why they are enough

| model | bounds | why |
|---|---|---|
| Miner | `S = 2`; batches of 1-2 nonces; 1 result slot; 4-bit nonces; 2 published works out of 3 (two epochs, two headers). | These make every pipeline wrap-around, kick-before/after-launch, epoch change and period change happen. |
| Client | 2 connections (1 in `client_stale_window`); 1 share; garbled answers in the callback run and the hashrate configuration; 1 message in flight on each channel (`ChanBound`); 1 hashrate report (`MaxReports`); 2 headers (1 in the liveness run); 1 extranonce; difficulties 0 and 2 against a floor of 1 (`DiffOne = 2` units of 0.0001), so both sides of the floor occur. | A share can meet every handler order across one reconnect. Every dialect branch and every fault path fires. |
| DAG load | 3 workers on 3 devices, 3 epochs (PARALLEL, SEQUENTIAL), 1 epoch (SINGLE); 2 workers and 2 epochs for the violations. | Three workers let worker 2 wait in SEQUENTIAL mode while workers 0 and 1 race their increments, and three epochs let a worker skip an epoch and start loading the next while another is still on the previous one. SINGLE mode beyond the first epoch is the `dag_single_epochs` hang. |

`client_thread` checks safety only. A liveness check over its states does not fit the time budget, and the same is true for EthereumStratum.
- It uses symmetry over the two header model values. The client compares headers only for equality, so renaming them maps behaviours onto behaviours. Symmetry is not used with liveness.
- The liveness run uses one header. Every connection after the first then receives no new work, but `lastWork` stays, so shares are still submitted. The work timer is armed by `connect_handler` (273) in any case.

### Not modelled

- **The extranonce length.** Extranonces are model values, so `m_extraNonceHexSize`, the zero padding of `processExtranonce` and the `substr` of the ethereum-stratum submit are not modelled. PROJECT.json lists the two hazards they carry: 16 hex digits, which spec section 3 allows, make the workLoop shift count negative; and a `set_extranonce` of a new length changes the suffix of solutions to the previous work. Likewise, the coinmine.pl fix's `substr(2)` on a short target is not modelled, because target strings have no length here.
- **`diffToTarget`**. It computes in IEEE-754 doubles and 64-bit words to build a 256-bit target. TLC's integers are 32-bit, so it cannot be checked at its own width. A version with a scaled word width and emulated double rounding would no longer be this code.
  - The branch for `m == 0 && k == 6` is unreachable for finite difficulties.
  - `set_difficulty`'s floor of 0.0001 keeps `m` below 2^46, far from the undefined out-of-range conversion to `uint64_t`.
- **Several workers searching together with the client** (planned as `MiningSystem.tla`). `DagLoad.tla` covers several workers only in their DAG load.
- **The client's destructor** (`m_io_service.stop(); m_serviceThread.join()`). Who destroys the client, and when, is decided outside src/, and the spec says nothing about it. In every shutdown the model's supervisor reaches, the service is already stopped, so the join would return at once.
- **Threading inside the handlers' own string buffers.** `submitSolution` is split at its flag-and-timer step, but buffering and sending the share is one step. The unsynchronised use of `m_requestBuffer` from the farm thread is a data race below the model's grain.
- **Several farm threads in `submitSolution` at once.** One thread submits at a time (`farm`), and runs submit one share.
- **GPU configuration, device listing, the API server declarations and the CMake build.** They have no concurrent state.
