----------------------------- MODULE MC_DagLoad -----------------------------
EXTENDS DagLoad

\* Every worker on its default device (s_devices[i] = -1), so worker i
\* uses device i.
MCSDevices == [w \in Workers |-> -1]

\* PARALLEL and SEQUENTIAL over three epochs, SINGLE over its first epoch.
MCMaxEpochOf == [parallel |-> 3, sequential |-> 3, single |-> 1]

\* SINGLE alone.
MCSingle1 == [single |-> 1]
MCSingle2 == [single |-> 2]
=============================================================================
