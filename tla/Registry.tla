------------------------------- MODULE Registry -------------------------------
(***************************************************************************)
(* The pidfile registry (internal/runner/registry.go) as the runs of one   *)
(* machine use it: the stale-process scan of every run's preflight         *)
(* (testsuite/preflight.go), NewRegistry, the one-off iperf3 server of a    *)
(* run (testsuite/iperf.go, the server ops of ops.go) with Register, Stop   *)
(* and forget, the teardown of app/run.go, and a crash at any point.       *)
(*                                                                         *)
(* Process numbers are reused by later processes.  A run's state directory *)
(* is named run-<second>-<pid>; the model leaves the second out (runs of   *)
(* one second), so a run that gets a dead run's pid also gets its          *)
(* directory.  One assumption on the kernel: between the fork of a server  *)
(* and the /proc snapshot of it its number is not handed out again.        *)
(***************************************************************************)
EXTENDS Naturals, FiniteSets

CONSTANTS
  Runs,       \* cablecheck runs on this machine
  Pids,       \* process numbers
  MaxStarts   \* bound: processes started altogether

ASSUME RegistryAssumption ==
  /\ MaxStarts \in Nat /\ 0 \notin Pids
  /\ {"user", "none"} \cap Runs = {}

VARIABLES
  procs,      \* the process table
  starts,     \* processes started so far: the start ticks of the next one
  dirs,       \* the state tree: one directory per run tag, here its pid
  run,        \* per run: where it is, its identity, registry and handle
  scan,       \* per run: the ScanStale in progress
  registered, \* history: identities whose pidfile was written
  endedOnes   \* history: runs that came to their own end

vars == <<procs, starts, dirs, run, scan, registered, endedOnes>>

NoInfo == [pid |-> 0, start |-> 0, name |-> "none"]
Info == [pid : Pids, start : 1 .. MaxStarts, name : {"cablecheck", "iperf3"}] \cup {NoInfo}
Free == [start |-> 0, name |-> "none", owner |-> "none", state |-> "free"]
NoDir == [made |-> FALSE, marker |-> NoInfo, files |-> {}, temps |-> {}]
NoScan == [todo |-> {}, dir |-> 0, listed |-> {}, found |-> {}]
Off == [pc |-> "off", me |-> NoInfo, goal |-> "registry", reg |-> FALSE,
        procs |-> {}, handle |-> NoInfo]

Entry == [kind : {"temp"}, of : Runs] \cup [kind : {"pidfile"}, of : Pids]
           \cup [kind : {"marker", "open"}, of : {0}]

\* A directory that was entered and not read yet.
Unlisted == [kind : {"open"}, of : {0}]

TypeOK ==
  /\ procs \in [Pids -> [start : 0 .. MaxStarts, name : {"none", "cablecheck", "iperf3"},
                         owner : Runs \cup {"user", "none"}, state : {"free", "live", "zombie"}]]
  /\ starts \in 0 .. MaxStarts
  /\ dirs \in [Pids -> [made : BOOLEAN, marker : Info, files : SUBSET Info, temps : SUBSET Runs]]
  /\ \A r \in Runs :
       /\ run[r].pc \in {"off", "scan", "dir", "mtemp", "mrename", "ptemp", "prename", "open",
                         "ready", "stop", "teardown", "killall", "ended", "crashed"}
       /\ run[r].me \in Info /\ run[r].handle \in Info /\ run[r].procs \subseteq Info
       /\ scan[r].listed \subseteq Entry /\ scan[r].todo \subseteq Pids
  \* a directory that is not there holds nothing
  /\ \A d \in Pids : ~dirs[d].made => dirs[d] = NoDir

Init ==
  /\ procs = [p \in Pids |-> Free] /\ starts = 0
  /\ dirs = [d \in Pids |-> NoDir]
  /\ run = [r \in Runs |-> Off] /\ scan = [r \in Runs |-> NoScan]
  /\ registered = {} /\ endedOnes = {}

-----------------------------------------------------------------------------
(* Processes.                                                              *)

Alive(r) == run[r].pc \notin {"off", "ended", "crashed"}
Dir(r) == run[r].me.pid

\* /proc starttime, group and argv[0] must match; a zombie has no cmdline.
VerifyByNameOnly(i) ==
  i # NoInfo /\ procs[i.pid].state = "live" /\ procs[i.pid].name = i.name

VerifyOwnership(i) ==
  /\ i # NoInfo /\ procs[i.pid].state = "live"
  /\ procs[i.pid].start = i.start /\ procs[i.pid].name = i.name

sessionAlive(d) == VerifyOwnership(dirs[d].marker)

\* A new process p of the given name and owner; its identity.
Spawn(p, name, owner) ==
  /\ procs[p] = Free /\ starts < MaxStarts
  /\ starts' = starts + 1
  /\ procs' = [procs EXCEPT ![p] = [start |-> starts + 1, name |-> name,
                                    owner |-> owner, state |-> "live"]]
Identity(p, name) == [pid |-> p, start |-> starts + 1, name |-> name]

\* A user's own process (an iperf3 started by hand, the hardest case).
UserStart(p) ==
  /\ Spawn(p, "iperf3", "user")
  /\ UNCHANGED <<dirs, run, scan, registered, endedOnes>>

\* A server finishes its one test, or a user's process ends.
Exit(p) ==
  /\ procs[p].state = "live" /\ procs[p].name = "iperf3"
  /\ procs' = [procs EXCEPT ![p].state = "zombie"]
  /\ UNCHANGED <<starts, dirs, run, scan, registered, endedOnes>>

\* It is reaped, by the runner's reaper or by init once the run is gone.
Reap(p) ==
  /\ procs[p].state = "zombie"
  /\ procs' = [procs EXCEPT ![p] = Free]
  /\ UNCHANGED <<starts, dirs, run, scan, registered, endedOnes>>

-----------------------------------------------------------------------------
(* Preflight: ScanStale.                                                   *)

Launch(r, p) ==
  /\ run[r].pc = "off" /\ Spawn(p, "cablecheck", r)
  /\ run' = [run EXCEPT ![r].pc = "scan", ![r].me = Identity(p, "cablecheck")]
  /\ scan' = [scan EXCEPT ![r].todo = {d \in Pids : dirs[d].made}]
  /\ UNCHANGED <<dirs, registered, endedOnes>>

\* The next directory: skipped when a live session owns it or it is gone.
ScanEnter(r, d) ==
  /\ run[r].pc = "scan" /\ scan[r].dir = 0 /\ d \in scan[r].todo
  /\ scan' = [scan EXCEPT ![r].todo = @ \ {d},
                ![r].dir = IF dirs[d].made /\ ~sessionAlive(d) THEN d ELSE 0,
                ![r].listed = IF dirs[d].made /\ ~sessionAlive(d) THEN Unlisted ELSE {}]
  /\ UNCHANGED <<procs, starts, dirs, run, registered, endedOnes>>

\* os.ReadDir of the directory.
ScanList(r) ==
  /\ scan[r].dir # 0 /\ scan[r].listed = Unlisted /\ run[r].pc = "scan"
  /\ LET d == dirs[scan[r].dir] IN
     scan' = [scan EXCEPT ![r].listed =
       [kind : {"temp"}, of : d.temps]
         \cup {[kind |-> "pidfile", of |-> f.pid] : f \in d.files}
         \cup (IF d.marker = NoInfo THEN {} ELSE [kind : {"marker"}, of : {0}])]
  /\ UNCHANGED <<procs, starts, dirs, run, registered, endedOnes>>

\* One listed file, in name order (".write-*", "<pid>.json", "session.json"):
\* whatever is there under that name by now.
Rank(e) == IF e.kind = "temp" THEN 1 ELSE IF e.kind = "pidfile" THEN 2 ELSE 3

\* The pidfiles removed silently: dead, reused or unverifiable processes.
CleanedReported(files) == files

Cleaned(files) == {f \in files : ~VerifyOwnership(f)}

ScanFile(r, e) ==
  /\ run[r].pc = "scan" /\ scan[r].dir # 0 /\ scan[r].listed # Unlisted
  /\ e \in scan[r].listed /\ \A x \in scan[r].listed : Rank(e) <= Rank(x)
  /\ LET d == scan[r].dir
         at == {f \in dirs[d].files : e.kind = "pidfile" /\ f.pid = e.of}
         stale == {f \in at : VerifyOwnership(f)}
     IN /\ dirs' = [dirs EXCEPT
             ![d].temps = IF e.kind = "temp" THEN @ \ {e.of} ELSE @,
             ![d].marker = IF e.kind = "marker" THEN NoInfo ELSE @,
             ![d].files = @ \ Cleaned(at)]
        /\ scan' = [scan EXCEPT ![r].listed = @ \ {e},
             ![r].found = @ \cup {[of |-> f, owner |-> procs[f.pid].owner] : f \in stale}]
  /\ UNCHANGED <<procs, starts, run, registered, endedOnes>>

\* os.Remove(dir) prunes it only if it is empty now.
ScanLeave(r) ==
  /\ run[r].pc = "scan" /\ scan[r].dir # 0 /\ scan[r].listed = {}
  /\ LET d == scan[r].dir IN
     dirs' = [dirs EXCEPT ![d] =
       IF @.marker = NoInfo /\ @.files = {} /\ @.temps = {} THEN NoDir ELSE @]
  /\ scan' = [scan EXCEPT ![r].dir = 0]
  /\ UNCHANGED <<procs, starts, run, registered, endedOnes>>

\* A survivor fails the preflight (exit code 4); otherwise NewRegistry follows.
ScanDone(r) ==
  /\ run[r].pc = "scan" /\ scan[r].dir = 0 /\ scan[r].todo = {}
  /\ IF scan[r].found # {}
     THEN /\ run' = [run EXCEPT ![r].pc = "ended"]
          /\ procs' = [procs EXCEPT ![run[r].me.pid] = Free]
          /\ endedOnes' = endedOnes \cup {r}
     ELSE run' = [run EXCEPT ![r].pc = "dir"] /\ UNCHANGED <<procs, endedOnes>>
  /\ UNCHANGED <<starts, dirs, scan, registered>>

-----------------------------------------------------------------------------
(* NewRegistry and Register.                                               *)

\* What a failure means: no registry for this run, or an unregistered server.
GiveUp(r) == IF run[r].goal = "registry" THEN "open" ELSE "ready"

\* ensureStateDir keeps the marker only when it names this very session.
MarkerIsOurs(r) == dirs[Dir(r)].marker = run[r].me

EnsureDir(r) ==
  /\ run[r].pc = "dir"
  /\ \/ /\ dirs' = [dirs EXCEPT ![Dir(r)].made = TRUE]
        /\ run' = [run EXCEPT ![r].pc =
             IF ~MarkerIsOurs(r) THEN "mtemp"
             ELSE IF run[r].goal = "registry" THEN "open" ELSE "ptemp",
             ![r].reg = @ \/ (MarkerIsOurs(r) /\ run[r].goal = "registry")]
     \/ \* MkdirAll or checkStateDir refuses the path
        run' = [run EXCEPT ![r].pc = GiveUp(r)] /\ UNCHANGED dirs
  /\ UNCHANGED <<procs, starts, scan, registered, endedOnes>>

\* writeFileAtomic: a temp file in the directory, then a rename over the name.
WriteTemp(r) ==
  /\ run[r].pc \in {"mtemp", "ptemp"}
  /\ IF dirs[Dir(r)].made
     THEN /\ dirs' = [dirs EXCEPT ![Dir(r)].temps = @ \cup {r}]
          /\ run' = [run EXCEPT ![r].pc = IF @ = "mtemp" THEN "mrename" ELSE "prename"]
     ELSE run' = [run EXCEPT ![r].pc = GiveUp(r)] /\ UNCHANGED dirs
  /\ UNCHANGED <<procs, starts, scan, registered, endedOnes>>

RenameMarker(r) ==
  /\ run[r].pc = "mrename"
  /\ IF r \in dirs[Dir(r)].temps
     THEN /\ dirs' = [dirs EXCEPT ![Dir(r)].temps = @ \ {r}, ![Dir(r)].marker = run[r].me]
          /\ run' = [run EXCEPT ![r].pc = IF run[r].goal = "registry" THEN "open" ELSE "ptemp",
                                ![r].reg = TRUE]
     ELSE run' = [run EXCEPT ![r].pc = GiveUp(r)] /\ UNCHANGED dirs
  /\ UNCHANGED <<procs, starts, scan, registered, endedOnes>>

\* The pidfile first, the in-memory entry after it.
RenamePidfile(r) ==
  /\ run[r].pc = "prename"
  /\ IF r \in dirs[Dir(r)].temps
     THEN /\ dirs' = [dirs EXCEPT ![Dir(r)].temps = @ \ {r},
               ![Dir(r)].files = {f \in @ : f.pid # run[r].handle.pid} \cup {run[r].handle}]
          /\ run' = [run EXCEPT ![r].pc = "ready", ![r].procs = @ \cup {run[r].handle}]
          /\ registered' = registered \cup {run[r].handle}
     ELSE run' = [run EXCEPT ![r].pc = "ready"] /\ UNCHANGED <<dirs, registered>>
  /\ UNCHANGED <<procs, starts, scan, endedOnes>>

-----------------------------------------------------------------------------
(* The one-off server: StartServer, Ready, Stop.                           *)

\* Ops.handleServerStart rejects a second server on the port.
StartServer(r, p) ==
  /\ run[r].pc = "open" /\ run[r].handle = NoInfo
  /\ Spawn(p, "iperf3", r)
  /\ run' = [run EXCEPT ![r].handle = Identity(p, "iperf3"), ![r].goal = "server",
                        ![r].pc = IF run[r].reg THEN "dir" ELSE "ready"]
  /\ UNCHANGED <<dirs, scan, registered, endedOnes>>

\* NewProcessInfo fails when the server is gone already: it stays unregistered.
IdentifyFails(r) ==
  /\ run[r].pc = "dir" /\ run[r].goal = "server"
  /\ procs[run[r].handle.pid].state # "live"
  /\ run' = [run EXCEPT ![r].pc = "ready"]
  /\ UNCHANGED <<procs, starts, dirs, scan, registered, endedOnes>>

\* Ready: the banner, or alive after the fallback; an exit is a failed start.
Ready(r) ==
  /\ run[r].pc = "ready"
  /\ run' = [run EXCEPT ![r].pc = IF VerifyOwnership(run[r].handle) THEN "open" ELSE "stop"]
  /\ UNCHANGED <<procs, starts, dirs, scan, registered, endedOnes>>

\* ServerHandle.Stop: SIGTERM, then SIGKILL, to the group of a live server,
\* which dies of it some time later (Exit).
StopSignal(r) ==
  /\ run[r].pc \in {"open", "teardown"} /\ run[r].handle # NoInfo
  /\ run' = [run EXCEPT ![r].pc = IF @ = "open" THEN "stop" ELSE "killall"]
  /\ UNCHANGED <<procs, starts, dirs, scan, registered, endedOnes>>

\* forget removes the entry and the pidfile by process number.
Forgotten(d, i) == [d EXCEPT !.files = {f \in @ : f.pid # i.pid}]

StoppedUnwaited(r) ==
  /\ run[r].pc \in {"stop", "killall"} /\ run[r].handle # NoInfo
  /\ run' = [run EXCEPT ![r].pc = IF @ = "stop" THEN "open" ELSE @,
               ![r].handle = NoInfo, ![r].procs = {i \in @ : i.pid # run[r].handle.pid}]
  /\ dirs' = [dirs EXCEPT ![Dir(r)] =
       IF run[r].handle \in run[r].procs THEN Forgotten(@, run[r].handle) ELSE @]
  /\ UNCHANGED <<procs, starts, scan, registered, endedOnes>>

\* Once the process is reaped the deferred unregister runs.
Stopped(r) ==
  /\ run[r].pc \in {"stop", "killall"} /\ run[r].handle # NoInfo
  /\ procs[run[r].handle.pid].start # run[r].handle.start
  /\ run' = [run EXCEPT ![r].pc = IF @ = "stop" THEN "open" ELSE @,
               ![r].handle = NoInfo, ![r].procs = {i \in @ : i.pid # run[r].handle.pid}]
  /\ dirs' = [dirs EXCEPT ![Dir(r)] =
       IF run[r].handle \in run[r].procs THEN Forgotten(@, run[r].handle) ELSE @]
  /\ UNCHANGED <<procs, starts, scan, registered, endedOnes>>

-----------------------------------------------------------------------------
(* Teardown and crash.                                                     *)

\* peer.Run has returned (no op in flight); StopAllServers stops the handle.
Teardown(r) ==
  /\ run[r].pc = "open"
  /\ run' = [run EXCEPT ![r].pc = IF run[r].handle = NoInfo THEN "killall" ELSE "teardown"]
  /\ UNCHANGED <<procs, starts, dirs, scan, registered, endedOnes>>

\* KillAll: whatever is still registered and verifies is killed and forgotten;
\* then RemoveAll(StateDir) and the process ends.
KillAll(r) ==
  /\ run[r].pc = "killall" /\ run[r].handle = NoInfo
  /\ procs' = [p \in Pids |->
       IF p = run[r].me.pid THEN Free
       ELSE IF \E i \in run[r].procs : i.pid = p /\ VerifyOwnership(i)
            THEN [procs[p] EXCEPT !.state = "zombie"] ELSE procs[p]]
  /\ dirs' = IF run[r].reg THEN [dirs EXCEPT ![Dir(r)] = NoDir] ELSE dirs
  /\ run' = [run EXCEPT ![r] = [Off EXCEPT !.pc = "ended", !.me = run[r].me]]
  /\ endedOnes' = endedOnes \cup {r}
  /\ UNCHANGED <<starts, scan, registered>>

\* kill -9, a panic or the OOM killer: only the cablecheck process goes.
Crash(r) ==
  /\ Alive(r)
  /\ run' = [run EXCEPT ![r] = [Off EXCEPT !.pc = "crashed", !.me = run[r].me]]
  /\ scan' = [scan EXCEPT ![r] = NoScan]
  /\ procs' = [procs EXCEPT ![run[r].me.pid] = Free]
  /\ UNCHANGED <<starts, dirs, registered, endedOnes>>

-----------------------------------------------------------------------------
Step(r) ==
  \/ \E p \in Pids : Launch(r, p) \/ StartServer(r, p) \/ ScanEnter(r, p)
  \/ ScanList(r) \/ (\E e \in scan[r].listed : ScanFile(r, e)) \/ ScanLeave(r) \/ ScanDone(r)
  \/ EnsureDir(r) \/ WriteTemp(r) \/ RenameMarker(r) \/ RenamePidfile(r)
  \/ IdentifyFails(r) \/ Ready(r) \/ StopSignal(r) \/ Stopped(r)
  \/ Teardown(r) \/ KillAll(r) \/ Crash(r)

Next ==
  \/ \E r \in Runs : Step(r)
  \/ \E p \in Pids : UserStart(p) \/ Exit(p) \/ Reap(p)

Spec == Init /\ [][Next]_vars

-----------------------------------------------------------------------------
(* Properties.                                                             *)

\* What a scan reports (and tells the operator to kill) is always a server some
\* run started, never a process that merely got its number (VerifyOwnership's
\* start time).
OnlyOwnReported == \A r \in Runs : \A f \in scan[r].found : f.owner \in Runs

\* A registered server that outlives its crashed run is on record in a directory
\* no live session shields, so that the next scan to finish reports it.
SurvivorsRecorded ==
  \A r \in Runs : run[r].pc = "crashed" =>
    \A i \in registered :
      (VerifyOwnership(i) /\ procs[i.pid].owner = r) =>
        (i \in dirs[run[r].me.pid].files /\ ~sessionAlive(run[r].me.pid))

\* A run that came to its own end left no server behind, registered or not.
EndsClean ==
  \A r \in endedOnes : \A p \in Pids : procs[p].owner = r => procs[p].state # "live"
=============================================================================
