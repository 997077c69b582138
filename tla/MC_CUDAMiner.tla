---------------------------- MODULE MC_CUDAMiner ----------------------------
(***************************************************************************)
(* Instances of the CUDA worker for TLC. Nonces are 4 bits wide and the    *)
(* targets are boundaries scaled down by 4 (for >> 192).                  *)
(* Epochs are 4 blocks and periods 2 blocks long, so every epoch change is *)
(* also a period change, as with ETHASH_EPOCH_LENGTH and PROGPOW_PERIOD.  *)
(***************************************************************************)
EXTENDS CUDAMiner

CONSTANTS h1, h2, h3, h4   \* block headers

\* Stratum / ethproxy work (exSizeBits = -1, random start nonce) and
\* ethereum-stratum work (a 1-bit extranonce prefix in the top bits).
WorkA == [header |-> h1, epoch |-> 0, height |-> 0, boundary |-> 8,
          startNonce |-> 0, exSizeBits |-> -1]
\* same epoch and period as WorkA: only the header changes
WorkB == [header |-> h2, epoch |-> 0, height |-> 1, boundary |-> 8,
          startNonce |-> 8, exSizeBits |-> 1]
\* next epoch (and period)
WorkC == [header |-> h3, epoch |-> 1, height |-> 4, boundary |-> 4,
          startNonce |-> 8, exSizeBits |-> 1]
\* an epoch whose DAG does not fit on the device
WorkD == [header |-> h4, epoch |-> 2, height |-> 8, boundary |-> 8,
          startNonce |-> 0, exSizeBits |-> -1]

MCWorks == {WorkA, WorkB, WorkC}

MCWorksFaults == {WorkA, WorkD}

MCWorksAll == {WorkA, WorkB, WorkC, WorkD}

MCNoWork == [header |-> NoHeader, epoch |-> NoEpoch, height |-> 0,
             boundary |-> 0, startNonce |-> 0, exSizeBits |-> -1]

\* The same job re-notified after mining.set_difficulty: the ethereum-stratum
\* client emits it although the header is unchanged.
WorkBHarder == [WorkB EXCEPT !.boundary = 4]

MCWorksRenotify == {WorkA, WorkB, WorkBHarder}

\* Extranonce work whose prefix is 0, mined by worker 0: startN is 0.
WorkZero == [WorkB EXCEPT !.startNonce = 0]

MCWorksZeroPrefix == {WorkA, WorkZero}

=============================================================================
