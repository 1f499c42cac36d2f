----------------------------- MODULE MCTestPlan -----------------------------
(* Instances of TestPlan. *)
EXTENDS TestPlan

NIC(exposed, tracked, base) ==
  [exposed |-> exposed, tracked |-> tracked, base |-> base, folds |-> FALSE,
   usb |-> FALSE, virtual |-> FALSE]
\* A driver that counts by cause, one that has an aggregate only, one whose
\* aggregate takes full rings in, one that leaves the tallies to rtnetlink, one
\* that counts nothing, and a USB adapter.
Intel == NIC({"rx_crc", "rx_length", "rx_errors_total", "rx_missed", "tx_carrier"}, {}, 5)
Realtek == NIC({"rx_errors_total", "rx_missed"}, {}, 5)
Folding == [Realtek EXCEPT !.folds = TRUE]
IPOnly == NIC({}, {"rx_crc", "rx_missed", "rx_length"}, 0)
Silent == NIC({}, {}, 0)
USB == [Realtek EXCEPT !.usb = TRUE]
Virtual == [Silent EXCEPT !.virtual = TRUE]

Conf(mode, nic1, nic2, speed, cable, bidir, rate, may) ==
  [mode |-> mode, nic |-> [PC1 |-> nic1, PC2 |-> nic2], speed |-> speed,
   cable |-> cable, bidir |-> bidir, udpRate |-> rate, may |-> may]

\* What may go wrong together.
Frames == {"rx_crc", "rx_length", "ring", "reset"}
Refusals == {"unavailable", "unreachable", "failed", "partial", "stopFailed"}
Traffic == {"slow", "burst", "torn", "hot"}
Loss == {"trickle", "lossy", "unsteady", "fragmented", "jittery", "hot", "short", "unknown"}

MCConfs ==
  { Conf("quick", Intel, Realtek, 1000, TRUE, TRUE, 0, {"carrier", "open", "rx_crc", "failed"}),
    Conf("quick", Realtek, Intel, 1000, TRUE, TRUE, 0, {"impedance", "open", "ring", "unavailable", "reset", "failed"}),
    Conf("quick", Intel, Realtek, 1000, FALSE, TRUE, 0,
         Frames \cup {"carrier", "speed", "half", "unavailable"}),
    Conf("quick", IPOnly, Folding, 1000, FALSE, FALSE, 980, Loss \cup {"rx_crc", "ring"}),
    Conf("quick", USB, Silent, 100, FALSE, FALSE, 0, Traffic \cup Refusals),
    Conf("quick", Silent, Virtual, 1000, FALSE, TRUE, 0, {"unknown", "slow", "hot", "reset", "failed"}),
    Conf("standard", Realtek, Intel, 1000, FALSE, TRUE, 0, Traffic \cup Refusals \cup {"reset"}),
    Conf("standard", Folding, Intel, 1000, FALSE, FALSE, 0, Frames \cup {"failed", "partial", "lossy", "hot"}),
    Conf("soak", Intel, Realtek, 1000, FALSE, FALSE, 0, {"rx_crc", "ring", "reset", "slow", "failed", "unavailable"}) }
MCCarrierConfs == { Conf("quick", Intel, Intel, 1000, TRUE, TRUE, 0, {"carrier"}) }

=============================================================================
