----------------------------- MODULE LinkMonitor -----------------------------
(***************************************************************************)
(* The sysfs link monitor of one interface (internal/network/monitor.go):  *)
(* what a poll reads, which events two readings reveal, and the window in  *)
(* which the tool's own cable diagnostics disturb the link.  A monitor is a *)
(* record: its last reading, its history of events, whether the window is  *)
(* open, and the carrier changes seen inside it.                           *)
(*                                                                         *)
(* Duplex changes go the way of speed changes and operstate changes follow *)
(* the carrier; no rule reads them.  The event channel has no reader in    *)
(* the program: events are dropped from it, never from the history.        *)
(***************************************************************************)
EXTENDS Integers, Sequences

\* sysfs reports the speed of a link that is down as unknown.
ReadLinkSnapshot(link) ==
  [carrier |-> link.up, speed |-> IF link.up THEN link.speed ELSE -1, changes |-> link.changes]

\* The types of the events that two readings in a row reveal.  Two or more
\* carrier changes between them are a flap too short for the polls to see.
detectEvents(before, after) ==
  LET speedChanged == before.speed >= 0 /\ after.speed >= 0 /\ before.speed # after.speed
      flap == after.changes >= before.changes + 2
      renegNoDrop == before.carrier /\ after.carrier /\ speedChanged
      If(cond, type) == IF cond THEN <<type>> ELSE << >>
  IN If(before.carrier /\ ~after.carrier, "carrier_lost")
     \o If(~before.carrier /\ after.carrier, "carrier_restored")
     \o If(speedChanged, "speed_changed")
     \o If(flap \/ renegNoDrop, "renegotiation")

\* The first poll, made when the monitor is created, has nothing to compare.
NewMonitor(link) ==
  [last |-> ReadLinkSnapshot(link), history |-> << >>, window |-> FALSE, windowEvents |-> 0]

\* Mutant: events are never marked.
PollUntagged(m, link) ==
  LET snap == ReadLinkSnapshot(link)
      types == detectEvents(m.last, snap)
  IN [m EXCEPT !.last = snap,
               !.history = @ \o [i \in DOMAIN types |-> [type |-> types[i], selfInflicted |-> FALSE]],
               !.windowEvents = IF m.window THEN @ + (snap.changes - m.last.changes) ELSE @]

\* Inside the window every event is the tool's own doing.
pollLocked(m, link) ==
  LET snap == ReadLinkSnapshot(link)
      types == detectEvents(m.last, snap)
      events == [i \in DOMAIN types |-> [type |-> types[i], selfInflicted |-> m.window]]
  IN [m EXCEPT !.last = snap,
               !.history = @ \o events,
               !.windowEvents = IF m.window THEN @ + (snap.changes - m.last.changes) ELSE @]

\* What sysfs shows differs from the last reading: a poll would do something.
PollSees(m, link) == ReadLinkSnapshot(link) # m.last

\* Mutant: the window closes on what the last tick saw.
WindowUnpolled(m, active, link) ==
  IF active = m.window THEN m
  ELSE [m EXCEPT !.window = active, !.windowEvents = IF active THEN 0 ELSE @]

\* A poll at each boundary gives earlier changes to the side they happened on.
SetCableTestWindow(m, active, link) ==
  IF active = m.window THEN m
  ELSE LET polled == pollLocked(m, link)
       IN [polled EXCEPT !.window = active, !.windowEvents = IF active THEN 0 ELSE @]

=============================================================================
