------------------------- MODULE MC_EthStratumClient -------------------------
(* Model values for the stratum client's configurations.                   *)
EXTENDS EthStratumClient, TLC

CONSTANTS h1, h2, x1, x2

MCHeaders == {h1, h2}
\* EthereumStratum takes every notify as new work, so one header is enough
\* for new work and stale shares.
MCHeaders1 == {h1}
MCExtraNonces == {x1}

\* The client only compares header hashes for equality (a new header is
\* new work), so renaming them maps behaviours to behaviours. For safety
\* runs only.
HeaderSymmetry == Permutations(MCHeaders)

\* Configurations. Each behaviour fixes one in Init, so a run that names
\* several checks each of them in turn.
Conf(vs, sec, net, garble, auth, mode, hr, ask) ==
  [versions |-> vs, secure |-> sec, netMayFail |-> net, garble |-> garble,
   authMayFail |-> auth, reconnect |-> mode, hashrate |-> hr, asksVersion |-> ask]

AllVersions == {"stratum", "ethproxy", "ethereumstratum"}

\* Plain TCP, reconnect from onDisconnected, every network and pool fault.
ConfCallback == Conf({"stratum", "ethproxy"}, FALSE, TRUE, TRUE, TRUE, "callback", FALSE, FALSE)
\* TLS, reconnect from the supervisor's thread, client.get_version.
ConfThread   == Conf(AllVersions, TRUE, TRUE, FALSE, TRUE, "thread", FALSE, TRUE)
\* eth_submitHashrate reports over a reliable link.
ConfHashrate == Conf({"stratum"}, FALSE, FALSE, TRUE, FALSE, "callback", TRUE, FALSE)
\* A reliable pool and link, in plain TCP or TLS.
ConfQuiet(sec) == Conf({"stratum"}, sec, FALSE, FALSE, FALSE, "callback", FALSE, FALSE)

MCConfigsCallback == {ConfCallback}
MCConfigsThread   == {ConfThread, ConfHashrate}
MCConfigsQuiet    == {ConfQuiet(FALSE)}
MCConfigsTls      == {ConfQuiet(TRUE)}
=============================================================================
