----------------------------- MODULE DagService -----------------------------
(***************************************************************************)
(* What the device-context component promises its workers (spec 4.5 and   *)
(* the DAG invariant of spec 3): a worker whose epoch is stale takes its   *)
(* DAG down, loads the DAG of the epoch the farm had when it began, and    *)
(* only then mines again, and while it mines, the DAG on its device is the *)
(* DAG of the epoch it mines.                                              *)
(*                                                                         *)
(* cur[w] is the epoch of the DAG worker w holds on its device; it changes *)
(* only by a completed load.  No other worker's step may change it.        *)
(***************************************************************************)
EXTENDS Naturals

CONSTANTS Workers, MaxEpoch

VARIABLES epoch,    \* the farm's current epoch
          cur,      \* the epoch whose DAG worker w holds
          loading,  \* worker w is inside init()
          want      \* the epoch worker w is loading

vars == <<epoch, cur, loading, want>>

Init ==
  /\ epoch = 1
  /\ cur = [w \in Workers |-> 0]
  /\ loading = [w \in Workers |-> FALSE]
  /\ want = [w \in Workers |-> 0]

NewEpoch ==
  /\ epoch < MaxEpoch
  /\ epoch' = epoch + 1
  /\ UNCHANGED <<cur, loading, want>>

BeginLoad(w) ==
  /\ ~loading[w]
  /\ cur[w] # epoch
  /\ loading' = [loading EXCEPT ![w] = TRUE]
  /\ want' = [want EXCEPT ![w] = epoch]
  /\ UNCHANGED <<epoch, cur>>

EndLoad(w) ==
  /\ loading[w]
  /\ loading' = [loading EXCEPT ![w] = FALSE]
  /\ cur' = [cur EXCEPT ![w] = want[w]]
  /\ UNCHANGED <<epoch, want>>

Next ==
  \/ NewEpoch
  \/ \E w \in Workers : BeginLoad(w) \/ EndLoad(w)

Spec == Init /\ [][Next]_vars

=============================================================================
