--------------------------- MODULE RegistryProofs ---------------------------
(***************************************************************************)
(* Proofs about the pidfile registry for every set of runs and process     *)
(* numbers: what a scan reports is a server some run started, a server     *)
(* that outlives its crashed run stays on record for the next scan, and a  *)
(* run that comes to its own end leaves no server behind.                  *)
(*                                                                         *)
(* Process numbers are reused, so the invariant says who owns a process    *)
(* number now (Owners), that every identity on record is of a server and   *)
(* of nobody else's process (Record), and, for the case of a run that got  *)
(* the number and with it the directory of a crashed one, that its scan is *)
(* still to come to every survivor of that run (Guarded).                  *)
(***************************************************************************)
EXTENDS Registry, TLAPS

ProcState == [start : 0 .. MaxStarts, name : {"none", "cablecheck", "iperf3"},
              owner : Runs \cup {"user", "none"}, state : {"free", "live", "zombie"}]
DirState == [made : BOOLEAN, marker : Info, files : SUBSET Info, temps : SUBSET Runs]
Stage == {"off", "scan", "dir", "mtemp", "mrename", "ptemp", "prename", "open",
          "ready", "stop", "teardown", "killall", "ended", "crashed"}
RunState == [pc : Stage, me : Info, goal : {"registry", "server"}, reg : BOOLEAN,
             procs : SUBSET Info, handle : Info]
Finding == [of : Info, owner : Runs \cup {"user", "none"}]
ScanState == [todo : SUBSET Pids, dir : Pids \cup {0}, listed : SUBSET Entry,
              found : SUBSET Finding]

TypeInv ==
  /\ procs \in [Pids -> ProcState] /\ starts \in 0 .. MaxStarts
  /\ dirs \in [Pids -> DirState]
  /\ run \in [Runs -> RunState] /\ scan \in [Runs -> ScanState]
  /\ \A d \in Pids : ~dirs[d].made => dirs[d] = NoDir
  /\ registered \subseteq Info /\ endedOnes \subseteq Runs

-----------------------------------------------------------------------------
(* Who owns which process                                                  *)

\* A process number that is not free belongs to somebody, since its start.
Table ==
  \A p \in Pids :
    /\ procs[p].start <= starts
    /\ procs[p].state = "free" => procs[p] = Free
    /\ procs[p].state # "free" => procs[p].start # 0 /\ procs[p].owner # "none"

\* A run that is alive is a process of its own.
Present(r) ==
  /\ run[r].me # NoInfo /\ run[r].me.name = "cablecheck"
  /\ procs[run[r].me.pid] = [start |-> run[r].me.start, name |-> "cablecheck",
                             owner |-> r, state |-> "live"]

\* The identity i is of the process that has its number now.
Is(i) == i # NoInfo /\ procs[i.pid].start = i.start

\* The server a run has a handle on, for as long as it is there.
OwnHandle(r) ==
  run[r].handle # NoInfo =>
    /\ run[r].handle.name = "iperf3" /\ run[r].handle.start <= starts
    /\ Is(run[r].handle) => procs[run[r].handle.pid].owner = r
                            /\ procs[run[r].handle.pid].name = "iperf3"

\* A run owns its own process while it is alive and at most one server, the
\* one of its handle; a run that crashed owns only servers, and the others own
\* nothing.
Owned(r) ==
  /\ Alive(r) => Present(r) /\ OwnHandle(r)
  /\ run[r].pc # "off" => run[r].me # NoInfo
  /\ run[r].procs \subseteq {run[r].handle} \ {NoInfo}
  /\ run[r].pc = "scan" \/ ~Alive(r) => run[r].handle = NoInfo
  /\ run[r].goal = "server" /\ run[r].pc \notin {"open", "teardown", "killall"}
       => run[r].handle # NoInfo
  /\ run[r].pc \in {"ptemp", "prename", "ready"} => run[r].goal = "server"
  /\ r \in endedOnes => run[r].pc = "ended"
  /\ \A p \in Pids : procs[p].owner = r =>
       /\ run[r].pc \notin {"off", "ended"}
       /\ Alive(r) /\ p # run[r].me.pid => Is(run[r].handle) /\ run[r].handle.pid = p
       /\ procs[p].name = "cablecheck" => Alive(r) /\ p = run[r].me.pid

\* A run's processes are named as such; the others are the user's.
Named == \A p \in Pids : procs[p].name = "cablecheck" => procs[p].owner \in Runs

Owners == Table /\ Named /\ \A r \in Runs : Owned(r)

-----------------------------------------------------------------------------
(* What is on record                                                       *)

\* The identity of a server that some run started.
Server(i) ==
  /\ i # NoInfo /\ i.name = "iperf3" /\ i.start <= starts
  /\ Is(i) => procs[i.pid].owner \in Runs

\* A marker is of a run that got past its scan under the number of the
\* directory.
Markers ==
  \A d \in Pids : dirs[d].marker # NoInfo =>
    /\ dirs[d].marker.pid = d /\ dirs[d].marker.start <= starts
    /\ dirs[d].marker.name = "cablecheck"
    /\ \A r \in Runs : Alive(r) /\ run[r].me = dirs[d].marker => run[r].pc # "scan"

\* Nothing but servers is on record.
Record ==
  /\ \A i \in registered : Server(i)
  /\ \A d \in Pids : \A i \in dirs[d].files : Server(i)
  /\ \A r \in Runs : \A f \in scan[r].found : f.owner \in Runs
  /\ Markers

\* A registered server of r that is alive.
Survives(i, r) == i \in registered /\ VerifyOwnership(i) /\ procs[i.pid].owner = r

\* It is on record in the directory of its run.
Recorded == \A r \in Runs, i \in registered : Survives(i, r) => i \in dirs[run[r].me.pid].files

\* The scan of run q has found something, or will come to the file of i.
Tracks(q, i) ==
  LET d == run[q].me.pid IN
  \/ scan[q].found # {}
  \/ d \in scan[q].todo
  \/ scan[q].dir = d /\ (scan[q].listed = Unlisted
                         \/ [kind |-> "pidfile", of |-> i.pid] \in scan[q].listed)

\* A later run under the number of a crashed one does not get past its scan
\* while a server of the crashed one is alive.
Guarded ==
  \A r \in Runs, q \in Runs, i \in registered :
    /\ run[r].pc = "crashed" /\ Survives(i, r)
    /\ Alive(q) /\ run[q].me.pid = run[r].me.pid
    => run[q].pc = "scan" /\ Tracks(q, i)

RegistryInv == Owners /\ Record /\ Recorded /\ Guarded

-----------------------------------------------------------------------------
(* Types                                                                   *)

\* An identity is of a process number, or of nobody.
LEMMA InfoFacts ==
  ASSUME NEW i \in Info
  PROVE  /\ i # NoInfo <=> i.pid \in Pids
         /\ i # NoInfo => i.start \in 1 .. MaxStarts /\ i.start # 0
                          /\ i.name \in {"cablecheck", "iperf3"}
         /\ i # NoInfo => i = [pid |-> i.pid, start |-> i.start, name |-> i.name]
<1>1. NoInfo.pid = 0 /\ 0 \notin Pids BY RegistryAssumption DEF NoInfo
<1>2. CASE i = NoInfo BY <1>1, <1>2
<1>3. CASE i \in [pid : Pids, start : 1 .. MaxStarts, name : {"cablecheck", "iperf3"}]
  BY <1>1, <1>3, RegistryAssumption
<1>4. QED BY <1>2, <1>3 DEF Info

\* The types in the form the steps use them.
LEMMA Types ==
  ASSUME TypeInv
  PROVE  /\ procs \in [Pids -> ProcState] /\ starts \in Nat /\ starts \in 0 .. MaxStarts
         /\ dirs \in [Pids -> DirState]
         /\ run \in [Runs -> RunState] /\ scan \in [Runs -> ScanState]
         /\ 0 \notin Pids /\ NoInfo \in Info /\ Off \in RunState /\ Free \in ProcState
         /\ NoDir \in DirState /\ NoScan \in ScanState
<1>1. NoInfo \in Info BY DEF Info
<1>2. Off \in RunState BY <1>1 DEF Off, RunState, Stage
<1>3. 0 \in 0 .. MaxStarts /\ starts \in Nat BY RegistryAssumption DEF TypeInv
<1>4. Free \in ProcState BY <1>3 DEF Free, ProcState
<1>5. NoDir \in DirState BY <1>1 DEF NoDir, DirState
<1>6. NoScan \in ScanState BY DEF NoScan, ScanState
<1>7. QED BY <1>1, <1>2, <1>3, <1>4, <1>5, <1>6, RegistryAssumption DEF TypeInv

\* The fields of one run.
LEMMA RunTypes ==
  ASSUME TypeInv, NEW r \in Runs
  PROVE  /\ run[r] \in RunState /\ scan[r] \in ScanState
         /\ run[r].pc \in Stage /\ run[r].me \in Info /\ run[r].handle \in Info
         /\ run[r].goal \in {"registry", "server"} /\ run[r].reg \in BOOLEAN
         /\ run[r].procs \subseteq Info
         /\ scan[r].todo \subseteq Pids /\ scan[r].dir \in Pids \cup {0}
         /\ scan[r].listed \subseteq Entry /\ scan[r].found \subseteq Finding
BY Types DEF RunState, ScanState

\* The fields of one process and of one directory.
LEMMA TableTypes ==
  ASSUME TypeInv, NEW p \in Pids
  PROVE  /\ procs[p] \in ProcState /\ dirs[p] \in DirState
         /\ procs[p].start \in Nat /\ procs[p].start \in 0 .. MaxStarts
         /\ procs[p].owner \in Runs \cup {"user", "none"}
         /\ procs[p].state \in {"free", "live", "zombie"}
         /\ dirs[p].marker \in Info /\ dirs[p].files \subseteq Info
         /\ dirs[p].temps \subseteq Runs /\ dirs[p].made \in BOOLEAN
<1>1. procs[p] \in ProcState /\ dirs[p] \in DirState BY Types
<1>2. 0 .. MaxStarts \subseteq Nat BY RegistryAssumption
<1>3. QED BY <1>1, <1>2 DEF ProcState, DirState

\* A step that only moves one run.
Moves(r) ==
  /\ run' \in [Runs -> RunState]
  /\ \A q \in Runs : q # r => run'[q] = run[q]

\* A run goes to another place in its program.
LEMMA Moved ==
  ASSUME TypeInv, NEW r \in Runs, NEW s \in Stage, run' = [run EXCEPT ![r].pc = s]
  PROVE  /\ Moves(r) /\ run'[r].pc = s /\ run'[r].me = run[r].me
         /\ run'[r].goal = run[r].goal /\ run'[r].reg = run[r].reg
         /\ run'[r].procs = run[r].procs /\ run'[r].handle = run[r].handle
BY Types DEF RunState, Moves

\* A step that leaves most of the state alone keeps the types.
LEMMA Typed ==
  ASSUME TypeInv, procs' \in [Pids -> ProcState], starts' \in 0 .. MaxStarts,
         dirs' \in [Pids -> DirState], \A d \in Pids : ~dirs'[d].made => dirs'[d] = NoDir,
         run' \in [Runs -> RunState], scan' \in [Runs -> ScanState],
         registered' \subseteq Info, endedOnes' \subseteq Runs
  PROVE  TypeInv'
BY DEF TypeInv

\* A directory that is not there and holds nothing.
LEMMA Nothing ==
  ASSUME NEW x \in DirState, ~x.made, x.marker = NoInfo, x.files = {}, x.temps = {}
  PROVE  x = NoDir
<1>1. x = [made |-> x.made, marker |-> x.marker, files |-> x.files, temps |-> x.temps]
  BY DEF DirState
<1>2. x.made = FALSE BY DEF DirState
<1>3. QED BY <1>1, <1>2 DEF NoDir

\* A directory that is changed in one place keeps its type.
LEMMA DirTyped ==
  ASSUME TypeInv, NEW d \in Pids, NEW x \in DirState, ~x.made => x = NoDir,
         dirs' = [dirs EXCEPT ![d] = x]
  PROVE  /\ dirs' \in [Pids -> DirState] /\ dirs'[d] = x
         /\ \A e \in Pids : e # d => dirs'[e] = dirs[e]
         /\ \A e \in Pids : ~dirs'[e].made => dirs'[e] = NoDir
BY Types DEF TypeInv

\* A run goes on and may have its registry.
LEMMA MovedReg ==
  ASSUME TypeInv, NEW r \in Runs, NEW s \in Stage, NEW b \in BOOLEAN,
         run' = [run EXCEPT ![r].pc = s, ![r].reg = b]
  PROVE  /\ Moves(r) /\ run'[r].pc = s /\ run'[r].me = run[r].me
         /\ run'[r].goal = run[r].goal
         /\ run'[r].procs = run[r].procs /\ run'[r].handle = run[r].handle
BY Types DEF RunState, Moves

\* The directory of a run that is alive.
LEMMA OwnDir ==
  ASSUME TypeInv, Owners, NEW r \in Runs, Alive(r)
  PROVE  /\ Dir(r) \in Pids /\ run[r].me.pid \in Pids /\ run[r].me # NoInfo
         /\ procs[run[r].me.pid].owner = r /\ procs[run[r].me.pid].state = "live"
         /\ procs[run[r].me.pid].start = run[r].me.start
         /\ procs[run[r].me.pid].name = "cablecheck"
<1>1. Present(r) BY DEF Owners, Owned
<1>2. QED BY <1>1, RunTypes, InfoFacts DEF Present, Dir

\* A run that owns a process has, or had, a process number of its own.
LEMMA DirOwner ==
  ASSUME TypeInv, Owners, NEW q \in Runs, NEW p \in Pids, procs[p].owner = q
  PROVE  run[q].me.pid \in Pids
<1>1. run[q].me # NoInfo BY DEF Owners, Owned
<1>2. QED BY <1>1, RunTypes, InfoFacts

-----------------------------------------------------------------------------
(* Steps of one run that change no process                                 *)

\* Run r goes from one place past its scan to another.
Quiet(r) ==
  /\ Moves(r) /\ run'[r].me = run[r].me /\ run'[r].goal = run[r].goal
  /\ run'[r].procs \subseteq {run[r].handle} \ {NoInfo} /\ run'[r].handle = run[r].handle
  /\ Alive(r) /\ run[r].pc # "scan"
  /\ run'[r].pc \notin {"off", "scan", "ended", "crashed"}
  /\ run[r].goal = "server" /\ run'[r].pc \notin {"open", "teardown", "killall"}
       => run[r].handle # NoInfo
  /\ run'[r].pc \in {"ptemp", "prename", "ready"} => run[r].goal = "server"
  /\ UNCHANGED <<procs, starts, scan, endedOnes>>

\* The processes keep their owners.
LEMMA QuietOwners ==
  ASSUME TypeInv, Owners, NEW r \in Runs, Quiet(r)
  PROVE  Owners'
<1>1. Table' /\ Named' BY DEF Owners, Quiet, Table, Named
<1>2. ASSUME NEW q \in Runs, q # r PROVE Owned(q)'
  <2>1. run'[q] = run[q] BY <1>2 DEF Quiet, Moves
  <2>2. Owned(q) BY DEF Owners
  <2>3. QED BY <2>1, <2>2 DEF Quiet, Owned, Alive, Present, OwnHandle, Is
<1>3. Owned(r)'
  <2>1. Owned(r) /\ Alive(r) /\ Alive(r)' BY DEF Owners, Quiet, Alive
  <2>2. Present(r)' BY <2>1 DEF Owned, Present, Quiet
  <2>3. OwnHandle(r)' BY <2>1 DEF Owned, OwnHandle, Is, Quiet
  <2>4. \A p \in Pids : procs'[p].owner = r =>
          /\ run'[r].pc \notin {"off", "ended"}
          /\ p # run'[r].me.pid => Is(run[r].handle)' /\ run'[r].handle.pid = p
          /\ procs'[p].name = "cablecheck" => p = run'[r].me.pid
    BY <2>1 DEF Owned, Is, Quiet
  <2>5. r \notin endedOnes BY <2>1 DEF Owned, Alive
  <2>6. run'[r].me # NoInfo /\ endedOnes' = endedOnes BY <2>2 DEF Present, Quiet
  <2>7. run'[r].procs \subseteq {run'[r].handle} \ {NoInfo} BY <2>1 DEF Owned, Quiet
  <2>8. /\ run'[r].goal = "server" /\ run'[r].pc \notin {"open", "teardown", "killall"}
             => run'[r].handle # NoInfo
        /\ run'[r].pc \in {"ptemp", "prename", "ready"} => run'[r].goal = "server"
        /\ run'[r].pc # "scan"
    BY DEF Quiet
  <2>9. QED BY <2>1, <2>2, <2>3, <2>4, <2>5, <2>6, <2>7, <2>8 DEF Owned
<1>4. QED BY <1>1, <1>2, <1>3 DEF Owners

\* A run past its scan has no survivor of another run in its directory.
LEMMA NotShared ==
  ASSUME TypeInv, Owners, Guarded, NEW r \in Runs, Alive(r), run[r].pc # "scan",
         NEW q \in Runs, NEW i \in registered, Survives(i, q),
         run[q].me.pid = run[r].me.pid
  PROVE  q = r
<1>1. SUFFICES ASSUME q # r PROVE FALSE OBVIOUS
<1>2. i \in Info /\ i # NoInfo /\ procs[i.pid].owner = q
  BY DEF TypeInv, Survives, VerifyOwnership
<1>3. i.pid \in Pids BY <1>2, InfoFacts
<1>4. run[q].pc \notin {"off", "ended"} BY <1>2, <1>3 DEF Owners, Owned
<1>5. CASE Alive(q)
  <2>1. procs[run[q].me.pid].owner = q /\ procs[run[r].me.pid].owner = r BY <1>5, OwnDir
  <2>2. QED BY <2>1, <1>1
<1>6. CASE ~Alive(q)
  <2>1. run[q].pc = "crashed" BY <1>4, <1>6 DEF Alive
  <2>2. QED BY <2>1 DEF Guarded
<1>7. QED BY <1>5, <1>6

\* A step of a run past its scan, of which no survivor is known to others.
LEMMA GuardedKept ==
  ASSUME Guarded, NEW r \in Runs, Moves(r), run'[r].me = run[r].me, Alive(r),
         run[r].pc # "scan", run'[r].pc # "crashed", scan' = scan,
         \A i, c : c # r /\ Survives(i, c)' => Survives(i, c) /\ i \in registered
  PROVE  Guarded'
<1>1. SUFFICES ASSUME NEW c \in Runs, NEW q \in Runs, NEW i \in registered',
                      run'[c].pc = "crashed", Survives(i, c)', Alive(q)',
                      run'[q].me.pid = run'[c].me.pid
               PROVE  run'[q].pc = "scan" /\ Tracks(q, i)'
  BY DEF Guarded
<1>2. c # r /\ run'[c] = run[c] BY <1>1 DEF Moves
<1>3. Survives(i, c) /\ i \in registered BY <1>1, <1>2
<1>4. q # r
  <2>1. SUFFICES ASSUME q = r PROVE FALSE OBVIOUS
  <2>2. run[r].me.pid = run[c].me.pid BY <2>1, <1>1, <1>2
  <2>3. QED BY <2>2, <1>1, <1>2, <1>3 DEF Guarded
<1>5. run'[q] = run[q] BY <1>4 DEF Moves
<1>6. Alive(q) /\ run[q].me.pid = run[c].me.pid BY <1>1, <1>2, <1>5 DEF Alive
<1>7. run[q].pc = "scan" /\ Tracks(q, i) BY <1>1, <1>2, <1>3, <1>6 DEF Guarded
<1>8. QED BY <1>5, <1>7 DEF Tracks

\* What is on record stays so, if the run changes no file but its marker.
LEMMA QuietRecords ==
  ASSUME TypeInv, Owners, Record, Recorded, Guarded, NEW r \in Runs, Quiet(r),
         registered' = registered,
         \A d \in Pids : dirs'[d].files = dirs[d].files,
         \A d \in Pids : dirs'[d].marker = dirs[d].marker
                         \/ (d = run[r].me.pid /\ dirs'[d].marker = run[r].me)
  PROVE  Record' /\ Recorded' /\ Guarded'
<1>1. UNCHANGED <<procs, starts, scan>> /\ Moves(r) /\ run'[r].me = run[r].me
  BY DEF Quiet
<1>2. \A q \in Runs : run'[q].me = run[q].me BY <1>1 DEF Moves
<1>3. \A i : Server(i)' <=> Server(i) BY <1>1 DEF Server, Is
<1>4. \A i, q : Survives(i, q)' <=> Survives(i, q) BY <1>1 DEF Survives, VerifyOwnership
<1>5. Record'
  <2>1. /\ \A i \in registered' : Server(i)'
        /\ \A d \in Pids : \A i \in dirs'[d].files : Server(i)'
        /\ \A q \in Runs : \A f \in scan'[q].found : f.owner \in Runs
    BY <1>1, <1>3 DEF Record
  <2>2. ASSUME NEW d \in Pids, dirs'[d].marker # NoInfo
        PROVE  /\ dirs'[d].marker.pid = d /\ dirs'[d].marker.start <= starts'
               /\ dirs'[d].marker.name = "cablecheck"
               /\ \A q \in Runs : Alive(q)' /\ run'[q].me = dirs'[d].marker => run'[q].pc # "scan"
    <3>1. CASE dirs'[d].marker = dirs[d].marker
      <4>1. /\ dirs[d].marker.pid = d /\ dirs[d].marker.start <= starts
            /\ dirs[d].marker.name = "cablecheck"
            /\ \A q \in Runs : Alive(q) /\ run[q].me = dirs[d].marker => run[q].pc # "scan"
        BY <2>2, <3>1 DEF Record, Markers
      <4>2. ASSUME NEW q \in Runs, Alive(q)', run'[q].me = dirs'[d].marker
            PROVE  run'[q].pc # "scan"
        <5>1. CASE q = r BY <5>1 DEF Quiet
        <5>2. CASE q # r
          <6>1. run'[q] = run[q] BY <5>2, <1>1 DEF Moves
          <6>2. QED BY <6>1, <4>1, <4>2, <3>1 DEF Alive
        <5>3. QED BY <5>1, <5>2
      <4>3. QED BY <4>1, <4>2, <3>1, <1>1
    <3>2. CASE d = run[r].me.pid /\ dirs'[d].marker = run[r].me
      <4>1. run[r].me.start <= starts /\ run[r].me.name = "cablecheck"
        <5>1. Alive(r) /\ Present(r) BY DEF Quiet, Owners, Owned
        <5>2. procs[run[r].me.pid].start = run[r].me.start BY <5>1, OwnDir
        <5>3. procs[d].start <= starts BY DEF Owners, Table
        <5>4. QED BY <5>1, <5>2, <5>3, <3>2 DEF Present
      <4>2. ASSUME NEW q \in Runs, Alive(q)', run'[q].me = dirs'[d].marker
            PROVE  run'[q].pc # "scan"
        <5>1. CASE q = r BY <5>1 DEF Quiet
        <5>2. CASE q # r
          <6>1. run'[q] = run[q] BY <5>2, <1>1 DEF Moves
          <6>2. Alive(q) /\ run[q].me = run[r].me BY <6>1, <4>2, <3>2 DEF Alive
          <6>3. procs[run[q].me.pid].owner = q BY <6>2, OwnDir
          <6>4. procs[run[r].me.pid].owner = r BY OwnDir DEF Quiet
          <6>5. QED BY <6>2, <6>3, <6>4, <5>2
        <5>3. QED BY <5>1, <5>2
      <4>3. QED BY <4>1, <4>2, <3>2, <1>1
    <3>3. QED BY <3>1, <3>2
  <2>3. QED BY <2>1, <2>2 DEF Record, Markers
<1>6. Recorded'
  <2>1. SUFFICES ASSUME NEW q \in Runs, NEW i \in registered', Survives(i, q)'
                 PROVE  i \in dirs'[run'[q].me.pid].files
    BY DEF Recorded
  <2>2. i \in registered /\ Survives(i, q) BY <2>1, <1>4
  <2>3. i \in dirs[run[q].me.pid].files BY <2>2 DEF Recorded
  <2>4. run[q].me.pid \in Pids
    <3>1. i # NoInfo /\ i \in Info BY <2>2 DEF Survives, VerifyOwnership, TypeInv
    <3>2. i.pid \in Pids /\ procs[i.pid].owner = q
      BY <3>1, <2>2, InfoFacts DEF Survives
    <3>3. QED BY <3>1, <3>2, <2>3, DirOwner
  <2>5. QED BY <2>3, <2>4, <1>2
<1>7. Guarded'
  <2>1. Alive(r) /\ run[r].pc # "scan" /\ run'[r].pc # "crashed" BY DEF Quiet
  <2>2. \A i, c : Survives(i, c)' => Survives(i, c) /\ i \in registered
    BY <1>4 DEF Survives
  <2>3. QED BY <2>1, <2>2, <1>1, GuardedKept
<1>8. QED BY <1>5, <1>6, <1>7

\* The steps of a run past its scan that change no pidfile.
LEMMA QuietSteps ==
  ASSUME TypeInv, Owners, NEW r \in Runs,
         \/ EnsureDir(r) \/ WriteTemp(r) \/ RenameMarker(r) \/ IdentifyFails(r)
         \/ Ready(r) \/ StopSignal(r) \/ Teardown(r)
         \/ RenamePidfile(r) /\ r \notin dirs[Dir(r)].temps
  PROVE  /\ TypeInv' /\ Quiet(r) /\ registered' = registered
         /\ \A d \in Pids : dirs'[d].files = dirs[d].files
         /\ \A d \in Pids : dirs'[d].marker = dirs[d].marker
                            \/ (d = run[r].me.pid /\ dirs'[d].marker = run[r].me)
<1>1. /\ run[r] \in RunState /\ run[r].pc \in Stage /\ run[r].reg \in BOOLEAN
      /\ run[r].goal \in {"registry", "server"} /\ run[r].me \in Info
  BY RunTypes
<1>2. Owned(r) BY DEF Owners
<1>3. Alive(r) /\ run[r].pc # "scan"
  BY DEF EnsureDir, WriteTemp, RenameMarker, IdentifyFails, Ready, StopSignal, Teardown,
         RenamePidfile, Alive
<1>4. Dir(r) \in Pids /\ Dir(r) = run[r].me.pid BY <1>3, OwnDir DEF Dir
<1>5. dirs[Dir(r)] \in DirState /\ dirs[Dir(r)].temps \subseteq Runs
  BY <1>4, TableTypes
<1>6. UNCHANGED <<procs, starts, scan, endedOnes>>
  BY DEF EnsureDir, WriteTemp, RenameMarker, IdentifyFails, Ready, StopSignal, Teardown,
         RenamePidfile
<1>7. registered' = registered
  BY DEF EnsureDir, WriteTemp, RenameMarker, IdentifyFails, Ready, StopSignal, Teardown,
         RenamePidfile
<1>8. /\ run[r].goal = "server" /\ run[r].pc \notin {"open", "teardown", "killall"}
           => run[r].handle # NoInfo
      /\ run[r].pc \in {"ptemp", "prename", "ready"} => run[r].goal = "server"
  BY <1>2 DEF Owned
\* How the run goes on.
<1>9. ASSUME NEW s \in Stage, NEW b \in BOOLEAN,
             \/ run' = [run EXCEPT ![r].pc = s]
             \/ run' = [run EXCEPT ![r].pc = s, ![r].reg = b],
             s \notin {"off", "scan", "ended", "crashed"},
             run[r].goal = "server" /\ s \notin {"open", "teardown", "killall"}
               => run[r].handle # NoInfo,
             s \in {"ptemp", "prename", "ready"} => run[r].goal = "server"
      PROVE  Quiet(r)
  <2>1. /\ Moves(r) /\ run'[r].pc = s /\ run'[r].me = run[r].me
        /\ run'[r].goal = run[r].goal /\ run'[r].procs = run[r].procs
        /\ run'[r].handle = run[r].handle
    BY <1>9, Moved, MovedReg
  <2>2. run'[r].procs \subseteq {run[r].handle} \ {NoInfo} BY <2>1, <1>2 DEF Owned
  <2>3. QED BY <2>1, <2>2, <1>3, <1>6, <1>9 DEF Quiet
\* How the directory changes.
<1>10. ASSUME Quiet(r), dirs' = dirs
       PROVE  /\ TypeInv' /\ \A d \in Pids : dirs'[d].files = dirs[d].files
              /\ \A d \in Pids : dirs'[d].marker = dirs[d].marker
  BY <1>6, <1>7, <1>10 DEF TypeInv, Quiet, Moves
<1>11. ASSUME Quiet(r), NEW x \in DirState, dirs' = [dirs EXCEPT ![Dir(r)] = x],
              x.files = dirs[Dir(r)].files, x.made,
              x.marker = dirs[Dir(r)].marker \/ x.marker = run[r].me
       PROVE  /\ TypeInv' /\ \A d \in Pids : dirs'[d].files = dirs[d].files
              /\ \A d \in Pids : dirs'[d].marker = dirs[d].marker
                                 \/ (d = run[r].me.pid /\ dirs'[d].marker = run[r].me)
  <2>1. /\ dirs' \in [Pids -> DirState] /\ dirs'[Dir(r)] = x
        /\ \A e \in Pids : e # Dir(r) => dirs'[e] = dirs[e]
        /\ \A e \in Pids : ~dirs'[e].made => dirs'[e] = NoDir
    BY <1>4, <1>11, DirTyped
  <2>2. TypeInv' BY <2>1, <1>6, <1>7, <1>11 DEF TypeInv, Quiet, Moves
  <2>3. QED BY <2>1, <2>2, <1>4, <1>11
<1>12. r \in dirs[Dir(r)].temps => dirs[Dir(r)].made
  BY <1>4 DEF TypeInv, NoDir
<1>13. CASE EnsureDir(r)
  <2> DEFINE s == IF ~MarkerIsOurs(r) THEN "mtemp"
                  ELSE IF run[r].goal = "registry" THEN "open" ELSE "ptemp"
             b == run[r].reg \/ (MarkerIsOurs(r) /\ run[r].goal = "registry")
             x == [dirs[Dir(r)] EXCEPT !.made = TRUE]
  <2>1. run[r].pc = "dir" BY <1>13 DEF EnsureDir
  <2>2. CASE dirs' = [dirs EXCEPT ![Dir(r)].made = TRUE]
             /\ run' = [run EXCEPT ![r].pc = s, ![r].reg = b]
    <3>1. s \in {"mtemp", "open", "ptemp"} /\ b \in BOOLEAN
          /\ (s = "ptemp" => run[r].goal = "server")
      BY <1>1
    <3> HIDE DEF s, b
    <3>2. Quiet(r) BY <3>1, <2>1, <2>2, <1>8, <1>9 DEF Stage
    <3>3. x \in DirState /\ x.files = dirs[Dir(r)].files /\ x.made
          /\ x.marker = dirs[Dir(r)].marker
      BY <1>5 DEF DirState
    <3>4. dirs' = [dirs EXCEPT ![Dir(r)] = x] BY <2>2
    <3> HIDE DEF x
    <3>5. QED BY <3>2, <3>3, <3>4, <1>7, <1>11
  <2>3. CASE run' = [run EXCEPT ![r].pc = GiveUp(r)] /\ UNCHANGED dirs
    <3>1. GiveUp(r) \in {"open", "ready"} /\ (GiveUp(r) = "ready" => run[r].goal = "server")
      BY <1>1 DEF GiveUp
    <3>2. Quiet(r) BY <3>1, <2>1, <2>3, <1>8, <1>9, <1>1 DEF Stage
    <3>3. QED BY <3>2, <2>3, <1>7, <1>10
  <2>4. QED BY <2>2, <2>3, <1>13 DEF EnsureDir
<1>14. CASE WriteTemp(r)
  <2> DEFINE s == IF run[r].pc = "mtemp" THEN "mrename" ELSE "prename"
             x == [dirs[Dir(r)] EXCEPT !.temps = dirs[Dir(r)].temps \cup {r}]
  <2>1. run[r].pc \in {"mtemp", "ptemp"} BY <1>14 DEF WriteTemp
  <2>2. CASE dirs[Dir(r)].made
    <3>1. dirs' = [dirs EXCEPT ![Dir(r)] = x] /\ run' = [run EXCEPT ![r].pc = s]
      BY <2>2, <1>14 DEF WriteTemp
    <3>2. s \in {"mrename", "prename"} /\ (s = "prename" => run[r].goal = "server")
      BY <2>1, <1>8
    <3> HIDE DEF s
    <3>3. Quiet(r) BY <3>1, <3>2, <2>1, <1>1, <1>8, <1>9 DEF Stage
    <3>4. x \in DirState /\ x.files = dirs[Dir(r)].files /\ x.made
          /\ x.marker = dirs[Dir(r)].marker
      BY <2>2, <1>5 DEF DirState
    <3> HIDE DEF x
    <3>5. QED BY <3>1, <3>3, <3>4, <1>7, <1>11
  <2>3. CASE ~dirs[Dir(r)].made
    <3>1. run' = [run EXCEPT ![r].pc = GiveUp(r)] /\ dirs' = dirs
      BY <2>3, <1>14 DEF WriteTemp
    <3>2. GiveUp(r) \in {"open", "ready"} /\ (GiveUp(r) = "ready" => run[r].goal = "server")
      BY <1>1 DEF GiveUp
    <3>3. Quiet(r) BY <3>1, <3>2, <2>1, <1>1, <1>8, <1>9 DEF Stage
    <3>4. QED BY <3>1, <3>3, <1>7, <1>10
  <2>4. QED BY <2>2, <2>3
<1>15. CASE RenameMarker(r)
  <2> DEFINE s == IF run[r].goal = "registry" THEN "open" ELSE "ptemp"
             x == [dirs[Dir(r)] EXCEPT !.temps = dirs[Dir(r)].temps \ {r}, !.marker = run[r].me]
  <2>1. run[r].pc = "mrename" BY <1>15 DEF RenameMarker
  <2>2. CASE r \in dirs[Dir(r)].temps
    <3>1. dirs' = [dirs EXCEPT ![Dir(r)] = x]
          /\ run' = [run EXCEPT ![r].pc = s, ![r].reg = TRUE]
      BY <2>2, <1>15 DEF RenameMarker
    <3>2. s \in {"open", "ptemp"} /\ (s = "ptemp" => run[r].goal = "server") BY <1>1
    <3> HIDE DEF s
    <3>3. Quiet(r) BY <3>1, <3>2, <2>1, <1>8, <1>9 DEF Stage
    <3>4. x \in DirState /\ x.files = dirs[Dir(r)].files /\ x.made /\ x.marker = run[r].me
      BY <2>2, <1>1, <1>5, <1>12 DEF DirState
    <3> HIDE DEF x
    <3>5. QED BY <3>1, <3>3, <3>4, <1>7, <1>11
  <2>3. CASE r \notin dirs[Dir(r)].temps
    <3>1. run' = [run EXCEPT ![r].pc = GiveUp(r)] /\ dirs' = dirs
      BY <2>3, <1>15 DEF RenameMarker
    <3>2. GiveUp(r) \in {"open", "ready"} /\ (GiveUp(r) = "ready" => run[r].goal = "server")
      BY <1>1 DEF GiveUp
    <3>3. Quiet(r) BY <3>1, <3>2, <2>1, <1>1, <1>8, <1>9 DEF Stage
    <3>4. QED BY <3>1, <3>3, <1>7, <1>10
  <2>4. QED BY <2>2, <2>3
<1>16. CASE IdentifyFails(r) \/ (RenamePidfile(r) /\ r \notin dirs[Dir(r)].temps)
  <2>1. run' = [run EXCEPT ![r].pc = "ready"] /\ dirs' = dirs /\ run[r].goal = "server"
        /\ run[r].pc \in {"dir", "prename"}
    BY <1>8, <1>16 DEF IdentifyFails, RenamePidfile
  <2>2. Quiet(r) BY <2>1, <1>1, <1>8, <1>9 DEF Stage
  <2>3. QED BY <2>1, <2>2, <1>7, <1>10
<1>17. CASE Ready(r)
  <2> DEFINE s == IF VerifyOwnership(run[r].handle) THEN "open" ELSE "stop"
  <2>1. run' = [run EXCEPT ![r].pc = s] /\ dirs' = dirs /\ run[r].pc = "ready"
    BY <1>17 DEF Ready
  <2>2. s \in {"open", "stop"} OBVIOUS
  <2> HIDE DEF s
  <2>3. Quiet(r) BY <2>1, <2>2, <1>1, <1>8, <1>9 DEF Stage
  <2>4. QED BY <2>1, <2>3, <1>7, <1>10
<1>18. CASE StopSignal(r)
  <2> DEFINE s == IF run[r].pc = "open" THEN "stop" ELSE "killall"
  <2>1. run' = [run EXCEPT ![r].pc = s] /\ dirs' = dirs /\ run[r].handle # NoInfo
    BY <1>18 DEF StopSignal
  <2>2. s \in {"stop", "killall"} OBVIOUS
  <2> HIDE DEF s
  <2>3. Quiet(r) BY <2>1, <2>2, <1>1, <1>9 DEF Stage
  <2>4. QED BY <2>1, <2>3, <1>7, <1>10
<1>19. CASE Teardown(r)
  <2> DEFINE s == IF run[r].handle = NoInfo THEN "killall" ELSE "teardown"
  <2>1. run' = [run EXCEPT ![r].pc = s] /\ dirs' = dirs BY <1>19 DEF Teardown
  <2>2. s \in {"killall", "teardown"} OBVIOUS
  <2> HIDE DEF s
  <2>3. Quiet(r) BY <2>1, <2>2, <1>1, <1>9 DEF Stage
  <2>4. QED BY <2>1, <2>3, <1>7, <1>10
<1>20. QED BY <1>13, <1>14, <1>15, <1>16, <1>17, <1>18, <1>19

\* No marker is written, and no run begins a scan.
LEMMA MarkersKept ==
  ASSUME TypeInv, Markers, starts' \in {starts, starts + 1},
         \A d \in Pids : dirs'[d].marker = dirs[d].marker \/ dirs'[d].marker = NoInfo,
         \A q \in Runs : run'[q].pc = "scan" => run[q].pc = "scan",
         \A q \in Runs : run'[q].me = run[q].me
  PROVE  Markers'
<1>1. SUFFICES ASSUME NEW d \in Pids, dirs'[d].marker # NoInfo
               PROVE  /\ dirs'[d].marker.pid = d /\ dirs'[d].marker.start <= starts'
                      /\ dirs'[d].marker.name = "cablecheck"
                      /\ \A r \in Runs : Alive(r)' /\ run'[r].me = dirs'[d].marker
                                         => run'[r].pc # "scan"
  BY DEF Markers
<1>2. dirs'[d].marker = dirs[d].marker /\ dirs[d].marker # NoInfo BY <1>1
<1>3. dirs[d].marker.pid = d /\ dirs[d].marker.start <= starts
      /\ dirs[d].marker.name = "cablecheck"
  BY <1>2 DEF Markers
<1>4. ASSUME NEW r \in Runs, run'[r].me = dirs'[d].marker PROVE run'[r].pc # "scan"
  <2>1. run[r].me = dirs[d].marker BY <1>2, <1>4
  <2>2. run[r].pc = "scan" => Alive(r) BY DEF Alive
  <2>3. QED BY <2>1, <2>2, <1>2 DEF Markers
<1>5. dirs[d].marker.start <= starts'
  <2>1. dirs[d].marker \in Info /\ starts \in Nat BY TableTypes, Types
  <2>2. dirs[d].marker.start \in 1 .. MaxStarts BY <2>1, <1>2, InfoFacts
  <2>3. QED BY <2>1, <2>2, <1>3, RegistryAssumption
<1>6. QED BY <1>2, <1>3, <1>4, <1>5

-----------------------------------------------------------------------------
(* Register and unregister                                                 *)

\* A live server of a run that is alive is the one of its handle.
LEMMA TheServer ==
  ASSUME TypeInv, Owners, Record, NEW r \in Runs, Alive(r), NEW i \in registered,
         Survives(i, r)
  PROVE  Is(run[r].handle) /\ run[r].handle = i
<1>1. i \in Info /\ Server(i) BY DEF TypeInv, Record
<1>2. i # NoInfo /\ i.name = "iperf3" /\ i.pid \in Pids BY <1>1, InfoFacts DEF Server
<1>3. procs[i.pid].start = i.start /\ procs[i.pid].name = "iperf3" /\ procs[i.pid].owner = r
  BY <1>2 DEF Survives, VerifyOwnership
<1>4. i.pid # run[r].me.pid BY <1>3, OwnDir
<1>5. Is(run[r].handle) /\ run[r].handle.pid = i.pid BY <1>2, <1>3, <1>4 DEF Owners, Owned
<1>6. run[r].handle # NoInfo /\ run[r].handle.start = i.start BY <1>3, <1>5 DEF Is
<1>7. run[r].handle.name = "iperf3" BY <1>6 DEF Owners, Owned, OwnHandle
<1>8. run[r].handle \in Info BY RunTypes
<1>9. run[r].handle = i BY <1>1, <1>2, <1>5, <1>6, <1>7, <1>8, InfoFacts
<1>10. QED BY <1>5, <1>9

\* Register writes the pidfile of the server just started.
LEMMA RegisterStep ==
  ASSUME TypeInv, RegistryInv, NEW r \in Runs, RenamePidfile(r), r \in dirs[Dir(r)].temps
  PROVE  TypeInv' /\ RegistryInv'
<1> DEFINE h == run[r].handle
           x == [dirs[Dir(r)] EXCEPT !.temps = dirs[Dir(r)].temps \ {r},
                   !.files = {f \in dirs[Dir(r)].files : f.pid # h.pid} \cup {h}]
<1>1. Owners /\ Record /\ Recorded /\ Guarded BY DEF RegistryInv
<1>2. /\ run[r].pc = "prename" /\ dirs' = [dirs EXCEPT ![Dir(r)] = x]
      /\ run' = [run EXCEPT ![r].pc = "ready", ![r].procs = run[r].procs \cup {h}]
      /\ registered' = registered \cup {h}
      /\ UNCHANGED <<procs, starts, scan, endedOnes>>
  BY DEF RenamePidfile
<1>3. Alive(r) /\ Owned(r) BY <1>1, <1>2 DEF Alive, Owners
<1>4. /\ run[r].goal = "server" /\ h # NoInfo /\ OwnHandle(r)
      /\ run[r].procs \subseteq {h} \ {NoInfo}
  BY <1>2, <1>3 DEF Owned
<1>5. h \in Info /\ run[r] \in RunState BY RunTypes
<1>6. Dir(r) \in Pids /\ Dir(r) = run[r].me.pid BY <1>1, <1>3, OwnDir DEF Dir
<1>7. dirs[Dir(r)] \in DirState /\ dirs[Dir(r)].made /\ dirs[Dir(r)].files \subseteq Info
  BY <1>6, TableTypes DEF TypeInv, NoDir
<1>8. /\ x \in DirState /\ x.made /\ x.marker = dirs[Dir(r)].marker
      /\ x.files = {f \in dirs[Dir(r)].files : f.pid # h.pid} \cup {h}
  <2>1. {f \in dirs[Dir(r)].files : f.pid # h.pid} \cup {h} \in SUBSET Info BY <1>5, <1>7
  <2>2. dirs[Dir(r)].temps \ {r} \in SUBSET Runs BY <1>7 DEF DirState
  <2> DEFINE fs == {f \in dirs[Dir(r)].files : f.pid # h.pid} \cup {h}
             ts == dirs[Dir(r)].temps \ {r}
  <2> HIDE DEF fs, ts, h
  <2>3. QED BY <2>1, <2>2, <1>7 DEF DirState, fs, ts
<1>9. /\ Moves(r) /\ run'[r].pc = "ready" /\ run'[r].me = run[r].me
      /\ run'[r].goal = run[r].goal /\ run'[r].handle = h
      /\ run'[r].procs = run[r].procs \cup {h}
  BY <1>2, <1>5, Types DEF RunState, Moves, Stage
<1> HIDE DEF x
<1>10. /\ dirs' \in [Pids -> DirState] /\ dirs'[Dir(r)] = x
       /\ \A e \in Pids : e # Dir(r) => dirs'[e] = dirs[e]
       /\ \A e \in Pids : ~dirs'[e].made => dirs'[e] = NoDir
  BY <1>2, <1>6, <1>8, DirTyped
<1>11. TypeInv' BY <1>2, <1>5, <1>9, <1>10 DEF TypeInv, Moves
<1>12. Quiet(r) BY <1>2, <1>3, <1>4, <1>9 DEF Quiet
<1>13. Owners' BY <1>1, <1>12, QuietOwners
<1>14. \A i : Server(i)' <=> Server(i) BY <1>2 DEF Server, Is
<1>15. Server(h) BY <1>4 DEF OwnHandle, Server
<1>16. Record'
  <2>1. \A i \in registered' : Server(i)' BY <1>1, <1>2, <1>14, <1>15 DEF Record
  <2>2. \A d \in Pids : \A i \in dirs'[d].files : Server(i)'
    BY <1>1, <1>8, <1>10, <1>14, <1>15 DEF Record
  <2>3. \A q \in Runs : \A f \in scan'[q].found : f.owner \in Runs BY <1>1, <1>2 DEF Record
  <2>4. \A d \in Pids : dirs'[d].marker = dirs[d].marker BY <1>8, <1>10
  <2>5. \A q \in Runs : run'[q].me = run[q].me BY <1>9 DEF Moves
  <2>6. \A q \in Runs : run'[q].pc = "scan" => run[q].pc = "scan" BY <1>9 DEF Moves
  <2>7. Markers' BY <2>4, <2>5, <2>6, <1>1, <1>2, MarkersKept DEF Record
  <2>8. QED BY <2>1, <2>2, <2>3, <2>7 DEF Record
<1>17. ASSUME NEW i, NEW q \in Runs, Survives(i, q)'
       PROVE  \/ i = h /\ q = r
              \/ i # h /\ i \in registered /\ Survives(i, q)
  <2>1. i \in registered' /\ VerifyOwnership(i) /\ procs[i.pid].owner = q
    BY <1>2, <1>17 DEF Survives, VerifyOwnership
  <2>2. CASE i = h
    <3>1. Is(h) BY <2>1, <2>2 DEF VerifyOwnership, Is
    <3>2. procs[h.pid].owner = r BY <3>1, <1>4 DEF OwnHandle
    <3>3. QED BY <3>2, <2>1, <2>2
  <2>3. CASE i # h BY <2>1, <2>3, <1>2 DEF Survives
  <2>4. QED BY <2>2, <2>3
<1>18. Recorded'
  <2>1. SUFFICES ASSUME NEW q \in Runs, NEW i \in registered', Survives(i, q)'
                 PROVE  i \in dirs'[run'[q].me.pid].files
    BY DEF Recorded
  <2>2. run'[q].me = run[q].me BY <1>9 DEF Moves
  <2>3. CASE i = h /\ q = r BY <2>3, <1>6, <1>8, <1>9, <1>10
  <2>4. CASE i # h /\ i \in registered /\ Survives(i, q)
    <3>1. i \in dirs[run[q].me.pid].files BY <2>4, <1>1 DEF Recorded
    <3>2. i \in Info /\ i # NoInfo /\ procs[i.pid].owner = q
      BY <2>4 DEF TypeInv, Survives, VerifyOwnership
    <3>3. run[q].me.pid \in Pids BY <3>2, <1>1, InfoFacts, DirOwner
    <3>4. run[q].me.pid # Dir(r)
      <4>1. SUFFICES ASSUME run[q].me.pid = Dir(r) PROVE FALSE OBVIOUS
      <4>2. q = r BY <4>1, <2>4, <1>1, <1>2, <1>3, <1>6, NotShared
      <4>3. i = h BY <4>2, <2>4, <1>1, <1>3, TheServer
      <4>4. QED BY <4>3, <2>4
    <3>5. QED BY <3>1, <3>3, <3>4, <2>2, <1>10
  <2>5. QED BY <2>1, <2>3, <2>4, <1>17
<1>19. Guarded'
  <2>1. SUFFICES ASSUME NEW c \in Runs, NEW q \in Runs, NEW i \in registered',
                        run'[c].pc = "crashed", Survives(i, c)', Alive(q)',
                        run'[q].me.pid = run'[c].me.pid
                 PROVE  run'[q].pc = "scan" /\ Tracks(q, i)'
    BY DEF Guarded
  <2>2. c # r /\ run'[c] = run[c] BY <2>1, <1>9 DEF Moves
  <2>3. i \in registered /\ Survives(i, c) BY <2>1, <2>2, <1>17
  <2>4. q # r
    <3>1. SUFFICES ASSUME q = r PROVE FALSE OBVIOUS
    <3>2. run[c].me.pid = run[r].me.pid BY <3>1, <2>1, <2>2, <1>9
    <3>3. QED BY <3>2, <2>2, <2>3, <1>1, <1>2, <1>3, NotShared
  <2>5. run'[q] = run[q] BY <2>4, <1>9 DEF Moves
  <2>6. Alive(q) /\ run[q].me.pid = run[c].me.pid BY <2>1, <2>2, <2>5 DEF Alive
  <2>7. run[q].pc = "scan" /\ Tracks(q, i) BY <2>1, <2>2, <2>3, <2>6, <1>1 DEF Guarded
  <2>8. QED BY <2>5, <2>7, <1>2 DEF Tracks
<1>20. QED BY <1>11, <1>13, <1>16, <1>18, <1>19 DEF RegistryInv

\* Stop forgets a server that is reaped.
LEMMA StoppedStep ==
  ASSUME TypeInv, RegistryInv, NEW r \in Runs, Stopped(r)
  PROVE  TypeInv' /\ RegistryInv'
<1> DEFINE h == run[r].handle
           s == IF run[r].pc = "stop" THEN "open" ELSE run[r].pc
           x == IF h \in run[r].procs THEN Forgotten(dirs[Dir(r)], h) ELSE dirs[Dir(r)]
<1>1. Owners /\ Record /\ Recorded /\ Guarded BY DEF RegistryInv
<1>2. /\ run[r].pc \in {"stop", "killall"} /\ h # NoInfo
      /\ procs[h.pid].start # h.start
      /\ run' = [run EXCEPT ![r].pc = s, ![r].handle = NoInfo,
                            ![r].procs = {i \in run[r].procs : i.pid # h.pid}]
      /\ dirs' = [dirs EXCEPT ![Dir(r)] = x]
      /\ UNCHANGED <<procs, starts, scan, registered, endedOnes>>
  BY DEF Stopped
<1>3. Alive(r) /\ Owned(r) BY <1>1, <1>2 DEF Alive, Owners
<1>4. ~Is(h) BY <1>2 DEF Is
<1>5. run[r] \in RunState /\ NoInfo \in Info /\ h \in Info BY RunTypes, Types
<1>6. Dir(r) \in Pids /\ Dir(r) = run[r].me.pid BY <1>1, <1>3, OwnDir DEF Dir
<1>7. dirs[Dir(r)] \in DirState /\ dirs[Dir(r)].files \subseteq Info BY <1>6, TableTypes
<1>8. /\ x \in DirState /\ x.marker = dirs[Dir(r)].marker /\ x.files \subseteq dirs[Dir(r)].files
      /\ ~x.made => x = NoDir
  <2>1. CASE x = dirs[Dir(r)] BY <2>1, <1>6, <1>7 DEF TypeInv
  <2>2. CASE x = Forgotten(dirs[Dir(r)], h)
    <3> DEFINE fs == {f \in dirs[Dir(r)].files : f.pid # h.pid}
    <3>1. fs \subseteq dirs[Dir(r)].files /\ fs \in SUBSET Info BY <1>7
    <3>2. x = [dirs[Dir(r)] EXCEPT !.files = fs] BY <2>2 DEF Forgotten
    <3>3. ~dirs[Dir(r)].made => dirs[Dir(r)] = NoDir BY <1>6 DEF TypeInv
    <3>4. dirs[Dir(r)] = NoDir => fs = {} BY DEF NoDir
    <3> HIDE DEF fs, x
    <3>5. /\ x \in DirState /\ x.files = fs /\ x.marker = dirs[Dir(r)].marker
          /\ x.made = dirs[Dir(r)].made
      BY <3>1, <3>2, <1>7 DEF DirState
    <3>6. dirs[Dir(r)] = NoDir => x = NoDir
      <4>1. x.temps = dirs[Dir(r)].temps BY <3>1, <3>2, <1>7 DEF DirState
      <4>2. ~NoDir.made /\ NoDir.marker = NoInfo /\ NoDir.temps = {} BY DEF NoDir
      <4>3. QED BY <4>1, <4>2, <3>4, <3>5, Nothing
    <3>7. QED BY <3>1, <3>3, <3>5, <3>6
  <2>3. QED BY <2>1, <2>2
<1>9. s \in {"open", "killall"} /\ s \in Stage BY <1>2 DEF Stage
<1>10. {i \in run[r].procs : i.pid # h.pid} = {} BY <1>3 DEF Owned
<1> HIDE DEF s, x
<1>11. run' = [run EXCEPT ![r].pc = s, ![r].handle = NoInfo, ![r].procs = {}]
  BY <1>2, <1>10
<1>12. /\ Moves(r) /\ run'[r].pc = s /\ run'[r].me = run[r].me
       /\ run'[r].goal = run[r].goal /\ run'[r].handle = NoInfo /\ run'[r].procs = {}
  BY <1>5, <1>9, <1>11, Types DEF RunState, Moves
<1>13. /\ dirs' \in [Pids -> DirState] /\ dirs'[Dir(r)] = x
       /\ \A e \in Pids : e # Dir(r) => dirs'[e] = dirs[e]
       /\ \A e \in Pids : ~dirs'[e].made => dirs'[e] = NoDir
  BY <1>2, <1>6, <1>8, DirTyped
<1>14. TypeInv' BY <1>2, <1>12, <1>13 DEF TypeInv, Moves
<1>15. Owners'
  <2>1. Table' /\ Named' BY <1>1, <1>2 DEF Owners, Table, Named
  <2>2. ASSUME NEW q \in Runs, q # r PROVE Owned(q)'
    <3>1. run'[q] = run[q] /\ Owned(q) BY <2>2, <1>1, <1>12 DEF Moves, Owners
    <3>2. QED BY <3>1, <1>2 DEF Owned, Alive, Present, OwnHandle, Is
  <2>3. Owned(r)'
    <3>1. Alive(r)' BY <1>9, <1>12 DEF Alive
    <3>2. Present(r)' BY <1>2, <1>3, <1>12 DEF Owned, Present
    <3>3. OwnHandle(r)' BY <1>12 DEF OwnHandle
    <3>4. \A p \in Pids : procs'[p].owner = r => p = run'[r].me.pid
      BY <1>2, <1>3, <1>4, <1>12 DEF Owned
    <3>5. r \notin endedOnes BY <1>2, <1>3 DEF Owned
    <3>6. QED BY <3>1, <3>2, <3>3, <3>4, <3>5, <1>2, <1>9, <1>12 DEF Owned, Present
  <2>4. QED BY <2>1, <2>2, <2>3 DEF Owners
<1>16. \A i : Server(i)' <=> Server(i) BY <1>2 DEF Server, Is
<1>17. Record'
  <2>1. \A i \in registered' : Server(i)' BY <1>1, <1>2, <1>16 DEF Record
  <2>2. \A d \in Pids : \A i \in dirs'[d].files : Server(i)'
    BY <1>1, <1>6, <1>8, <1>13, <1>16 DEF Record
  <2>3. \A q \in Runs : \A f \in scan'[q].found : f.owner \in Runs BY <1>1, <1>2 DEF Record
  <2>4. \A d \in Pids : dirs'[d].marker = dirs[d].marker BY <1>8, <1>13
  <2>5. \A q \in Runs : run'[q].me = run[q].me BY <1>12 DEF Moves
  <2>6. \A q \in Runs : run'[q].pc = "scan" => run[q].pc = "scan" BY <1>9, <1>12 DEF Moves
  <2>7. Markers' BY <2>4, <2>5, <2>6, <1>1, <1>2, MarkersKept DEF Record
  <2>8. QED BY <2>1, <2>2, <2>3, <2>7 DEF Record
<1>18. \A i, q : Survives(i, q)' => Survives(i, q) /\ i \in registered
  BY <1>2 DEF Survives, VerifyOwnership
<1>19. Recorded'
  <2>1. SUFFICES ASSUME NEW q \in Runs, NEW i \in registered', Survives(i, q)'
                 PROVE  i \in dirs'[run'[q].me.pid].files
    BY DEF Recorded
  <2>2. run'[q].me = run[q].me BY <1>12 DEF Moves
  <2>3. i \in registered /\ Survives(i, q) BY <2>1, <1>18
  <2>4. i \in dirs[run[q].me.pid].files BY <2>3, <1>1 DEF Recorded
  <2>5. i \in Info /\ i # NoInfo /\ procs[i.pid].owner = q
    BY <2>3 DEF TypeInv, Survives, VerifyOwnership
  <2>6. run[q].me.pid \in Pids BY <2>5, <1>1, InfoFacts, DirOwner
  <2>7. run[q].me.pid # Dir(r)
    <3>1. SUFFICES ASSUME run[q].me.pid = Dir(r) PROVE FALSE OBVIOUS
    <3>2. q = r BY <3>1, <2>3, <1>1, <1>2, <1>3, <1>6, NotShared
    <3>3. Is(h) BY <3>2, <2>3, <1>1, <1>3, TheServer
    <3>4. QED BY <3>3, <1>4
  <2>8. QED BY <2>2, <2>4, <2>6, <2>7, <1>13
<1>20. Guarded' BY <1>1, <1>2, <1>3, <1>9, <1>12, <1>18, GuardedKept
<1>21. QED BY <1>14, <1>15, <1>17, <1>19, <1>20 DEF RegistryInv

-----------------------------------------------------------------------------
(* The stale-process scan                                                  *)

\* No live session shields the survivors of a crashed run: the only process
\* the marker could name is a later run of the same number, and that one is
\* not past its scan.
LEMMA NoSession ==
  ASSUME TypeInv, RegistryInv, NEW c \in Runs, run[c].pc = "crashed",
         NEW i \in registered, Survives(i, c)
  PROVE  run[c].me.pid \in Pids /\ ~sessionAlive(run[c].me.pid)
<1> DEFINE d == run[c].me.pid
           m == dirs[d].marker
<1>1. Owners /\ Record /\ Guarded /\ Markers BY DEF RegistryInv, Record
<1>2. i \in Info /\ i # NoInfo /\ procs[i.pid].owner = c
  BY DEF TypeInv, Survives, VerifyOwnership
<1>3. d \in Pids BY <1>1, <1>2, InfoFacts, DirOwner
<1>4. SUFFICES ASSUME sessionAlive(d) PROVE FALSE BY <1>3
<1>5. m # NoInfo /\ procs[m.pid].start = m.start /\ procs[m.pid].name = m.name
  BY <1>4 DEF sessionAlive, VerifyOwnership
<1>6. m.pid = d /\ m.name = "cablecheck"
      /\ \A q \in Runs : Alive(q) /\ run[q].me = m => run[q].pc # "scan"
  BY <1>1, <1>3, <1>5 DEF Markers
<1>7. PICK q \in Runs : procs[d].owner = q BY <1>1, <1>3, <1>5, <1>6 DEF Owners, Named
<1>8. Alive(q) /\ d = run[q].me.pid
  BY <1>1, <1>3, <1>5, <1>6, <1>7 DEF Owners, Owned
<1>9. run[q].me = m
  <2>1. run[q].me # NoInfo /\ run[q].me.start = procs[d].start BY <1>1, <1>8, OwnDir
  <2>2. run[q].me.name = "cablecheck" BY <1>1, <1>8 DEF Owners, Owned, Present
  <2>3. run[q].me \in Info /\ m \in Info BY <1>3, RunTypes, TableTypes
  <2>4. QED BY <2>1, <2>2, <2>3, <1>5, <1>6, <1>8, InfoFacts
<1>10. run[q].pc # "scan" BY <1>6, <1>8, <1>9
<1>11. c = q BY <1>1, <1>8, <1>10, NotShared
<1>12. QED BY <1>8, <1>11 DEF Alive

\* What a step of the scan of r must do: change only the scan of r and files
\* that are not of live servers.
LEMMA ScanKeeps ==
  ASSUME TypeInv, RegistryInv, NEW r \in Runs,
         UNCHANGED <<procs, starts, run, registered, endedOnes>>,
         scan' \in [Runs -> ScanState], \A q \in Runs : q # r => scan'[q] = scan[q],
         dirs' \in [Pids -> DirState], \A d \in Pids : ~dirs'[d].made => dirs'[d] = NoDir,
         \A f \in scan'[r].found : f.owner \in Runs,
         \A d \in Pids : dirs'[d].files \subseteq dirs[d].files,
         \A d \in Pids : \A i \in dirs[d].files : VerifyOwnership(i) => i \in dirs'[d].files,
         \A d \in Pids : dirs'[d].marker = dirs[d].marker \/ dirs'[d].marker = NoInfo,
         \A c \in Runs, i \in registered :
           run[c].pc = "crashed" /\ Survives(i, c) /\ run[r].pc = "scan"
             /\ run[r].me.pid = run[c].me.pid /\ Tracks(r, i) => Tracks(r, i)'
  PROVE  TypeInv' /\ RegistryInv'
<1>1. Owners /\ Record /\ Recorded /\ Guarded BY DEF RegistryInv
<1>2. TypeInv' BY DEF TypeInv
<1>3. Owners'
  BY <1>1 DEF Owners, Table, Named, Owned, Alive, Present, OwnHandle, Is
<1>4. \A i : Server(i)' <=> Server(i) BY DEF Server, Is
<1>5. \A i, q : Survives(i, q)' <=> Survives(i, q) BY DEF Survives, VerifyOwnership
<1>6. Record'
  <2>1. \A i \in registered' : Server(i)' BY <1>1, <1>4 DEF Record
  <2>2. \A d \in Pids : \A i \in dirs'[d].files : Server(i)' BY <1>1, <1>4 DEF Record
  <2>3. \A q \in Runs : \A f \in scan'[q].found : f.owner \in Runs BY <1>1 DEF Record
  <2>4. Markers' BY <1>1, MarkersKept DEF Record
  <2>5. QED BY <2>1, <2>2, <2>3, <2>4 DEF Record
<1>7. Recorded'
  <2>1. SUFFICES ASSUME NEW q \in Runs, NEW i \in registered, Survives(i, q)
                 PROVE  i \in dirs'[run[q].me.pid].files
    BY <1>5 DEF Recorded
  <2>2. i \in dirs[run[q].me.pid].files BY <2>1, <1>1 DEF Recorded
  <2>3. i \in Info /\ i # NoInfo /\ procs[i.pid].owner = q /\ VerifyOwnership(i)
    BY <2>1 DEF TypeInv, Survives, VerifyOwnership
  <2>4. run[q].me.pid \in Pids BY <2>3, <1>1, InfoFacts, DirOwner
  <2>5. QED BY <2>2, <2>3, <2>4
<1>8. Guarded'
  <2>1. SUFFICES ASSUME NEW c \in Runs, NEW q \in Runs, NEW i \in registered,
                        run[c].pc = "crashed", Survives(i, c), Alive(q),
                        run[q].me.pid = run[c].me.pid
                 PROVE  run[q].pc = "scan" /\ Tracks(q, i)'
    BY <1>5 DEF Guarded, Alive
  <2>2. run[q].pc = "scan" /\ Tracks(q, i) BY <2>1, <1>1 DEF Guarded
  <2>3. CASE q = r BY <2>1, <2>2, <2>3
  <2>4. CASE q # r
    <3>1. scan'[q] = scan[q] BY <2>4
    <3>2. QED BY <3>1, <2>2 DEF Tracks
  <2>5. QED BY <2>2, <2>3, <2>4
<1>9. QED BY <1>2, <1>3, <1>6, <1>7, <1>8 DEF RegistryInv

\* A directory that was entered is not an empty one.
LEMMA UnlistedFacts ==
  /\ Unlisted # {} /\ Unlisted \subseteq Entry
  /\ \A p : [kind |-> "pidfile", of |-> p] \notin Unlisted
<1>1. [kind |-> "open", of |-> 0] \in Unlisted BY DEF Unlisted
<1>2. Unlisted \subseteq Entry BY DEF Unlisted, Entry
<1>3. ASSUME NEW p PROVE [kind |-> "pidfile", of |-> p] \notin Unlisted BY DEF Unlisted
<1>4. QED BY <1>1, <1>2, <1>3

\* The scan goes on to the next directory.
LEMMA ScanEnterStep ==
  ASSUME TypeInv, RegistryInv, NEW r \in Runs, NEW p \in Pids, ScanEnter(r, p)
  PROVE  TypeInv' /\ RegistryInv'
<1> DEFINE into == dirs[p].made /\ ~sessionAlive(p)
           nd == IF into THEN p ELSE 0
           nl == IF into THEN Unlisted ELSE {}
<1>1. /\ scan[r].dir = 0 /\ p \in scan[r].todo
      /\ scan' = [scan EXCEPT ![r].todo = scan[r].todo \ {p}, ![r].dir = nd, ![r].listed = nl]
      /\ UNCHANGED <<procs, starts, dirs, run, registered, endedOnes>>
  BY DEF ScanEnter
<1>2. nd \in Pids \cup {0} /\ nl \in SUBSET Entry BY UnlistedFacts
<1>3. into => nd = p /\ nl = Unlisted OBVIOUS
<1> HIDE DEF nd, nl
<1>4. /\ scan' \in [Runs -> ScanState] /\ \A q \in Runs : q # r => scan'[q] = scan[q]
      /\ scan'[r].todo = scan[r].todo \ {p} /\ scan'[r].dir = nd /\ scan'[r].listed = nl
      /\ scan'[r].found = scan[r].found
  BY <1>1, <1>2, Types DEF ScanState
<1>5. ASSUME NEW c \in Runs, NEW i \in registered, run[c].pc = "crashed", Survives(i, c),
             run[r].me.pid = run[c].me.pid, Tracks(r, i)
      PROVE  Tracks(r, i)'
  <2>1. run[c].me.pid \in Pids /\ ~sessionAlive(run[c].me.pid) BY <1>5, NoSession
  <2>2. i \in dirs[run[c].me.pid].files BY <1>5 DEF RegistryInv, Recorded
  <2>3. dirs[run[c].me.pid].made BY <2>1, <2>2 DEF TypeInv, NoDir
  <2>4. run[r].me.pid # 0 BY <2>1, <1>5, RegistryAssumption
  <2>5. scan[r].found # {} \/ run[r].me.pid \in scan[r].todo
    BY <2>4, <1>1, <1>5 DEF Tracks
  <2>6. run' = run BY <1>1
  <2>7. CASE run[r].me.pid = p
    <3>1. into BY <2>1, <2>3, <2>7, <1>5
    <3>2. QED BY <3>1, <2>6, <2>7, <1>3, <1>4 DEF Tracks
  <2>8. CASE run[r].me.pid # p BY <2>5, <2>6, <2>8, <1>4 DEF Tracks
  <2>9. QED BY <2>7, <2>8
<1>6. \A f \in scan'[r].found : f.owner \in Runs BY <1>4 DEF RegistryInv, Record
<1>7. \A d \in Pids : ~dirs'[d].made => dirs'[d] = NoDir BY <1>1 DEF TypeInv
<1>8. QED BY <1>1, <1>4, <1>5, <1>6, <1>7, Types, ScanKeeps

\* The scan reads the directory.
LEMMA ScanListStep ==
  ASSUME TypeInv, RegistryInv, NEW r \in Runs, ScanList(r)
  PROVE  TypeInv' /\ RegistryInv'
<1> DEFINE d == scan[r].dir
           nl == [kind : {"temp"}, of : dirs[d].temps]
                   \cup {[kind |-> "pidfile", of |-> f.pid] : f \in dirs[d].files}
                   \cup (IF dirs[d].marker = NoInfo THEN {} ELSE [kind : {"marker"}, of : {0}])
<1>1. /\ d # 0 /\ scan' = [scan EXCEPT ![r].listed = nl]
      /\ UNCHANGED <<procs, starts, dirs, run, registered, endedOnes>>
  BY DEF ScanList
<1>2. d \in Pids BY <1>1, RunTypes
<1>3. nl \in SUBSET Entry
  <2>1. \A f \in dirs[d].files : f.pid \in Pids
    <3> TAKE f \in dirs[d].files
    <3>1. f \in Info BY <1>2, TableTypes
    <3>2. f # NoInfo BY <1>2 DEF RegistryInv, Record, Server
    <3>3. QED BY <3>1, <3>2, InfoFacts
  <2>2. [kind : {"temp"}, of : dirs[d].temps] \subseteq Entry BY <1>2, TableTypes DEF Entry
  <2>3. {[kind |-> "pidfile", of |-> f.pid] : f \in dirs[d].files} \subseteq Entry
    BY <2>1 DEF Entry
  <2>4. [kind : {"marker"}, of : {0}] \subseteq Entry BY DEF Entry
  <2>5. QED BY <2>2, <2>3, <2>4
<1>4. \A f \in dirs[d].files : [kind |-> "pidfile", of |-> f.pid] \in nl OBVIOUS
<1> HIDE DEF nl
<1>5. /\ scan' \in [Runs -> ScanState] /\ \A q \in Runs : q # r => scan'[q] = scan[q]
      /\ scan'[r].todo = scan[r].todo /\ scan'[r].dir = d /\ scan'[r].listed = nl
      /\ scan'[r].found = scan[r].found
  BY <1>1, <1>3, Types DEF ScanState
<1>6. ASSUME NEW c \in Runs, NEW i \in registered, run[c].pc = "crashed", Survives(i, c),
             run[r].me.pid = run[c].me.pid, Tracks(r, i)
      PROVE  Tracks(r, i)'
  <2>1. i \in dirs[run[c].me.pid].files BY <1>6 DEF RegistryInv, Recorded
  <2>2. d = run[r].me.pid => [kind |-> "pidfile", of |-> i.pid] \in nl
    BY <2>1, <1>4, <1>6
  <2>3. run' = run BY <1>1
  <2>4. QED BY <2>2, <2>3, <1>5, <1>6 DEF Tracks
<1>7. \A f \in scan'[r].found : f.owner \in Runs BY <1>5 DEF RegistryInv, Record
<1>8. \A e \in Pids : ~dirs'[e].made => dirs'[e] = NoDir BY <1>1 DEF TypeInv
<1>9. QED BY <1>1, <1>5, <1>6, <1>7, <1>8, Types, ScanKeeps

\* The scan leaves a directory, and prunes it if it is empty.
LEMMA ScanLeaveStep ==
  ASSUME TypeInv, RegistryInv, NEW r \in Runs, ScanLeave(r)
  PROVE  TypeInv' /\ RegistryInv'
<1> DEFINE d == scan[r].dir
           x == IF dirs[d].marker = NoInfo /\ dirs[d].files = {} /\ dirs[d].temps = {}
                THEN NoDir ELSE dirs[d]
<1>1. /\ d # 0 /\ scan[r].listed = {} /\ scan' = [scan EXCEPT ![r].dir = 0]
      /\ dirs' = [dirs EXCEPT ![d] = x]
      /\ UNCHANGED <<procs, starts, run, registered, endedOnes>>
  BY DEF ScanLeave
<1>2. d \in Pids BY <1>1, RunTypes
<1>3. /\ x \in DirState /\ x.files = dirs[d].files
      /\ x.marker = dirs[d].marker /\ (~x.made => x = NoDir)
  <2>1. NoDir.files = {} /\ NoDir.marker = NoInfo BY DEF NoDir
  <2>2. QED BY <2>1, <1>2, Types, TableTypes DEF TypeInv
<1> HIDE DEF x
<1>4. /\ dirs' \in [Pids -> DirState] /\ dirs'[d] = x
      /\ \A e \in Pids : e # d => dirs'[e] = dirs[e]
      /\ \A e \in Pids : ~dirs'[e].made => dirs'[e] = NoDir
  BY <1>1, <1>2, <1>3, DirTyped
<1>5. /\ scan' \in [Runs -> ScanState] /\ \A q \in Runs : q # r => scan'[q] = scan[q]
      /\ scan'[r].todo = scan[r].todo /\ scan'[r].found = scan[r].found
  BY <1>1, Types DEF ScanState
<1>6. ASSUME NEW i, Tracks(r, i) PROVE Tracks(r, i)'
  BY <1>1, <1>5, <1>6, UnlistedFacts DEF Tracks
<1>7. \A f \in scan'[r].found : f.owner \in Runs BY <1>5 DEF RegistryInv, Record
<1>8. \A e \in Pids : dirs'[e].files = dirs[e].files /\ dirs'[e].marker = dirs[e].marker
  BY <1>3, <1>4
<1>9. QED BY <1>1, <1>4, <1>5, <1>6, <1>7, <1>8, ScanKeeps

\* The scan handles one listed file: a pidfile of a live server is a finding
\* and stays, every other one goes.
LEMMA ScanFileStep ==
  ASSUME TypeInv, RegistryInv, NEW r \in Runs, NEW e \in scan[r].listed, ScanFile(r, e)
  PROVE  TypeInv' /\ RegistryInv'
<1> DEFINE d == scan[r].dir
           at == {f \in dirs[d].files : e.kind = "pidfile" /\ f.pid = e.of}
           stale == {f \in at : VerifyOwnership(f)}
           nt == IF e.kind = "temp" THEN dirs[d].temps \ {e.of} ELSE dirs[d].temps
           nm == IF e.kind = "marker" THEN NoInfo ELSE dirs[d].marker
           nf == dirs[d].files \ Cleaned(at)
           x == [dirs[d] EXCEPT !.temps = nt, !.marker = nm, !.files = nf]
           new == {[of |-> f, owner |-> procs[f.pid].owner] : f \in stale}
           found == scan[r].found \cup new
           left == scan[r].listed \ {e}
<1>1. /\ d # 0 /\ scan[r].listed # Unlisted
      /\ dirs' = [dirs EXCEPT ![d].temps = nt, ![d].marker = nm, ![d].files = nf]
      /\ scan' = [scan EXCEPT ![r].listed = left, ![r].found = found]
      /\ UNCHANGED <<procs, starts, run, registered, endedOnes>>
  BY DEF ScanFile
<1>2. d \in Pids BY <1>1, RunTypes
<1>3. dirs[d] \in DirState /\ dirs[d].files \subseteq Info /\ dirs[d].temps \subseteq Runs
      /\ dirs[d].marker \in Info /\ NoInfo \in Info
  BY <1>2, TableTypes, Types
<1>4. /\ nt \in SUBSET Runs /\ nm \in Info /\ nf \in SUBSET Info
      /\ nf \subseteq dirs[d].files /\ nm \in {NoInfo, dirs[d].marker}
      /\ nt \subseteq dirs[d].temps
  BY <1>3
<1>5. \A i \in dirs[d].files : VerifyOwnership(i) => i \in nf BY DEF Cleaned
<1>6. \A f \in new : f \in Finding /\ f.owner \in Runs
  <2>1. SUFFICES ASSUME NEW f \in stale
                 PROVE  /\ [of |-> f, owner |-> procs[f.pid].owner] \in Finding
                        /\ procs[f.pid].owner \in Runs
    OBVIOUS
  <2>2. Server(f) BY <1>2 DEF RegistryInv, Record
  <2>3. Is(f) BY DEF VerifyOwnership, Is
  <2>4. procs[f.pid].owner \in Runs BY <2>2, <2>3 DEF Server
  <2>5. QED BY <2>4, <1>3 DEF Finding
<1>7. \A i \in dirs[d].files : VerifyOwnership(i) /\ e = [kind |-> "pidfile", of |-> i.pid]
        => new # {}
  <2>1. SUFFICES ASSUME NEW i \in dirs[d].files, VerifyOwnership(i),
                        e = [kind |-> "pidfile", of |-> i.pid]
                 PROVE  new # {}
    OBVIOUS
  <2>2. i \in stale BY <2>1
  <2>3. [of |-> i, owner |-> procs[i.pid].owner] \in new BY <2>2
  <2>4. QED BY <2>3
<1>8. found \in SUBSET Finding /\ left \in SUBSET Entry BY <1>6, RunTypes
<1>9. \A f \in found : f.owner \in Runs BY <1>6 DEF RegistryInv, Record
<1>10. scan[r].found \subseteq found /\ new \subseteq found OBVIOUS
<1> HIDE DEF nt, nm, nf, new, found, left
<1>11. x \in DirState /\ x.files = nf /\ x.marker = nm /\ x.temps = nt /\ x.made = dirs[d].made
  BY <1>3, <1>4 DEF DirState
<1>12. ~x.made => x = NoDir
  <2>1. SUFFICES ASSUME ~x.made PROVE x = NoDir OBVIOUS
  <2>2. dirs[d] = NoDir BY <2>1, <1>2, <1>11 DEF TypeInv
  <2>3. nf = {} /\ nt = {} /\ nm = NoInfo BY <2>2, <1>4 DEF NoDir
  <2> HIDE DEF x
  <2>4. QED BY <2>1, <2>3, <1>11, Nothing
<1>13. dirs' = [dirs EXCEPT ![d] = x] BY <1>1, <1>2, <1>3, Types
<1> HIDE DEF x
<1>14. /\ dirs' \in [Pids -> DirState] /\ dirs'[d] = x
       /\ \A p \in Pids : p # d => dirs'[p] = dirs[p]
       /\ \A p \in Pids : ~dirs'[p].made => dirs'[p] = NoDir
  BY <1>2, <1>11, <1>12, <1>13, DirTyped
<1>15. /\ scan' \in [Runs -> ScanState] /\ \A q \in Runs : q # r => scan'[q] = scan[q]
       /\ scan'[r].todo = scan[r].todo /\ scan'[r].dir = d
       /\ scan'[r].found = found /\ scan'[r].listed = left
  BY <1>1, <1>8, Types DEF ScanState
<1>16. ASSUME NEW c \in Runs, NEW i \in registered, run[c].pc = "crashed", Survives(i, c),
              run[r].me.pid = run[c].me.pid, Tracks(r, i)
       PROVE  Tracks(r, i)'
  <2>1. i \in dirs[run[c].me.pid].files BY <1>16 DEF RegistryInv, Recorded
  <2>2. VerifyOwnership(i) BY <1>16 DEF Survives
  <2>3. run' = run BY <1>1
  <2>4. CASE scan[r].found # {} \/ run[r].me.pid \in scan[r].todo
    BY <2>3, <2>4, <1>10, <1>15 DEF Tracks
  <2>5. CASE d = run[r].me.pid /\ [kind |-> "pidfile", of |-> i.pid] \in scan[r].listed
    <3>1. CASE e = [kind |-> "pidfile", of |-> i.pid]
      <4>1. new # {} BY <3>1, <2>1, <2>2, <2>5, <1>7, <1>16
      <4>2. QED BY <4>1, <2>3, <1>10, <1>15 DEF Tracks
    <3>2. CASE e # [kind |-> "pidfile", of |-> i.pid]
      <4>1. [kind |-> "pidfile", of |-> i.pid] \in left BY <3>2, <2>5 DEF left
      <4>2. QED BY <4>1, <2>3, <2>5, <1>15 DEF Tracks
    <3>3. QED BY <3>1, <3>2
  <2>6. QED BY <2>4, <2>5, <1>1, <1>16 DEF Tracks
<1>17. /\ \A f \in scan'[r].found : f.owner \in Runs
       /\ \A p \in Pids : dirs'[p].files \subseteq dirs[p].files
       /\ \A p \in Pids : dirs'[p].marker = dirs[p].marker \/ dirs'[p].marker = NoInfo
  BY <1>2, <1>4, <1>9, <1>11, <1>14, <1>15
<1>18. \A p \in Pids : \A i \in dirs[p].files : VerifyOwnership(i) => i \in dirs'[p].files
  BY <1>2, <1>5, <1>11, <1>14
<1>19. QED BY <1>1, <1>14, <1>15, <1>16, <1>17, <1>18, ScanKeeps

-----------------------------------------------------------------------------
(* Processes that end                                                      *)

\* The process p dies or is reaped.
Gone(p) ==
  /\ procs' = [procs EXCEPT ![p] = Free] \/ procs' = [procs EXCEPT ![p].state = "zombie"]
  /\ procs[p].state # "free" /\ starts' = starts

\* Nobody becomes another process by that.
LEMMA GoneFacts ==
  ASSUME TypeInv, Owners, NEW p \in Pids, Gone(p)
  PROVE  /\ procs' \in [Pids -> ProcState] /\ Table' /\ Named'
         /\ \A o \in Pids : o # p => procs'[o] = procs[o]
         /\ \A o \in Pids : procs'[o].owner # "none" =>
              /\ procs'[o].owner = procs[o].owner /\ procs'[o].name = procs[o].name
              /\ procs'[o].start = procs[o].start
         /\ \A i \in Info : Is(i)' => Is(i) /\ procs'[i.pid].owner = procs[i.pid].owner
                                      /\ procs'[i.pid].name = procs[i.pid].name
         /\ \A i \in Info : VerifyOwnership(i)' =>
              VerifyOwnership(i) /\ procs'[i.pid].owner = procs[i.pid].owner
         /\ \A i \in Info : Server(i) => Server(i)'
<1>1. procs[p] \in ProcState /\ procs \in [Pids -> ProcState] /\ Free \in ProcState
  BY TableTypes, Types
<1>2. /\ procs' \in [Pids -> ProcState]
      /\ \A o \in Pids : o # p => procs'[o] = procs[o]
      /\ procs'[p] = Free \/ /\ procs'[p].owner = procs[p].owner
                             /\ procs'[p].name = procs[p].name
                             /\ procs'[p].start = procs[p].start
                             /\ procs'[p].state = "zombie"
  BY <1>1 DEF Gone, ProcState
<1>3. Free.start = 0 /\ Free.owner = "none" /\ Free.name = "none" /\ Free.state = "free"
  BY DEF Free
<1>4. \A o \in Pids : procs'[o].owner # "none" =>
        /\ procs'[o].owner = procs[o].owner /\ procs'[o].name = procs[o].name
        /\ procs'[o].start = procs[o].start
  BY <1>2, <1>3
<1>5. Table'
  <2>1. ASSUME NEW o \in Pids
        PROVE  /\ procs'[o].start <= starts'
               /\ procs'[o].state = "free" => procs'[o] = Free
               /\ procs'[o].state # "free" => procs'[o].start # 0 /\ procs'[o].owner # "none"
    <3>1. /\ procs[o].start <= starts
          /\ procs[o].state = "free" => procs[o] = Free
          /\ procs[o].state # "free" => procs[o].start # 0 /\ procs[o].owner # "none"
      BY DEF Owners, Table
    <3>2. starts' = starts /\ starts \in Nat /\ 0 <= starts /\ procs[p].state # "free"
      BY Types DEF Gone
    <3>3. QED BY <3>1, <3>2, <1>2, <1>3
  <2>2. QED BY <2>1 DEF Table
<1>6. Named' BY <1>2, <1>3 DEF Owners, Named
<1>7. ASSUME NEW i \in Info, Is(i)'
      PROVE  Is(i) /\ procs'[i.pid] # Free /\ procs'[i.pid].owner = procs[i.pid].owner
             /\ procs'[i.pid].name = procs[i.pid].name
  <2>1. i # NoInfo /\ procs'[i.pid].start = i.start BY <1>7 DEF Is
  <2>2. i.pid \in Pids /\ i.start # 0 BY <2>1, InfoFacts
  <2>3. QED BY <2>1, <2>2, <1>2, <1>3 DEF Is
<1>8. ASSUME NEW i \in Info, VerifyOwnership(i)'
      PROVE  VerifyOwnership(i) /\ procs'[i.pid].owner = procs[i.pid].owner
  <2>1. i # NoInfo /\ procs'[i.pid].state = "live" BY <1>8 DEF VerifyOwnership
  <2>2. i.pid \in Pids BY <2>1, InfoFacts
  <2>3. procs'[i.pid] = procs[i.pid] BY <2>1, <2>2, <1>2, <1>3
  <2>4. QED BY <2>3, <1>8 DEF VerifyOwnership
<1>9. ASSUME NEW i \in Info, Server(i) PROVE Server(i)'
  BY <1>7, <1>9 DEF Server, Gone
<1>10. QED BY <1>2, <1>4, <1>5, <1>6, <1>7, <1>8, <1>9

\* A run keeps what it owns, if the process that goes is not its own.
LEMMA GoneOthers ==
  ASSUME TypeInv, Owners, NEW p \in Pids, Gone(p), NEW q \in Runs, run'[q] = run[q],
         Alive(q) => p # run[q].me.pid, q \in endedOnes' => q \in endedOnes
  PROVE  Owned(q)'
<1>1. Owned(q) BY DEF Owners
<1>2. /\ \A o \in Pids : o # p => procs'[o] = procs[o]
      /\ \A o \in Pids : procs'[o].owner # "none" =>
           /\ procs'[o].owner = procs[o].owner /\ procs'[o].name = procs[o].name
           /\ procs'[o].start = procs[o].start
      /\ \A i \in Info : Is(i)' => Is(i) /\ procs'[i.pid].owner = procs[i.pid].owner
                                   /\ procs'[i.pid].name = procs[i.pid].name
  BY GoneFacts
<1>3. Alive(q)' <=> Alive(q) BY DEF Alive
<1>4. run[q].handle \in Info /\ q # "none" BY RunTypes, RegistryAssumption
<1>5. Alive(q) => Present(q)'
  <2>1. SUFFICES ASSUME Alive(q) PROVE Present(q)' OBVIOUS
  <2>2. procs'[run[q].me.pid] = procs[run[q].me.pid] BY <2>1, <1>2, OwnDir
  <2>3. QED BY <2>1, <2>2, <1>1 DEF Owned, Present
<1>6. Alive(q) => OwnHandle(q)'
  <2>1. SUFFICES ASSUME Alive(q) PROVE OwnHandle(q)' OBVIOUS
  <2>2. OwnHandle(q) BY <2>1, <1>1 DEF Owned
  <2>3. starts' = starts BY DEF Gone
  <2>4. Is(run[q].handle)' => Is(run[q].handle)
          /\ procs'[run[q].handle.pid].owner = procs[run[q].handle.pid].owner
          /\ procs'[run[q].handle.pid].name = procs[run[q].handle.pid].name
    BY <1>2, <1>4
  <2>5. QED BY <2>2, <2>3, <2>4 DEF OwnHandle
<1>7. ASSUME NEW o \in Pids, procs'[o].owner = q
      PROVE  /\ run'[q].pc \notin {"off", "ended"}
             /\ Alive(q)' /\ o # run'[q].me.pid => Is(run[q].handle)' /\ run'[q].handle.pid = o
             /\ procs'[o].name = "cablecheck" => Alive(q)' /\ o = run'[q].me.pid
  <2>1. procs[o].owner = q /\ procs'[o].name = procs[o].name /\ procs'[o].start = procs[o].start
    BY <1>2, <1>4, <1>7
  <2>2. /\ run[q].pc \notin {"off", "ended"}
        /\ Alive(q) /\ o # run[q].me.pid => Is(run[q].handle) /\ run[q].handle.pid = o
        /\ procs[o].name = "cablecheck" => Alive(q) /\ o = run[q].me.pid
    BY <2>1, <1>1 DEF Owned
  <2>3. QED BY <2>1, <2>2, <1>3 DEF Is
<1>8. QED BY <1>1, <1>3, <1>5, <1>6, <1>7 DEF Owned

\* A server or a user's process dies, or a dead one is reaped.
LEMMA GoneStep ==
  ASSUME TypeInv, RegistryInv, NEW p \in Pids, Exit(p) \/ Reap(p)
  PROVE  TypeInv' /\ RegistryInv'
<1>1. Owners /\ Record /\ Recorded /\ Guarded BY DEF RegistryInv
<1>2. /\ Gone(p)
      /\ procs[p].state = "zombie" \/ procs[p].name = "iperf3"
      /\ UNCHANGED <<starts, dirs, run, scan, registered, endedOnes>>
  BY DEF Exit, Reap, Gone
<1>3. /\ procs' \in [Pids -> ProcState] /\ Table' /\ Named'
      /\ \A i \in Info : VerifyOwnership(i)' =>
           VerifyOwnership(i) /\ procs'[i.pid].owner = procs[i.pid].owner
      /\ \A i \in Info : Server(i) => Server(i)'
  BY <1>1, <1>2, GoneFacts
<1>4. TypeInv' BY <1>2, <1>3 DEF TypeInv
<1>5. Owners'
  <2>1. ASSUME NEW q \in Runs PROVE Owned(q)'
    <3>1. Alive(q) => p # run[q].me.pid BY <1>1, <1>2, OwnDir
    <3>2. QED BY <3>1, <1>1, <1>2, GoneOthers
  <2>2. QED BY <2>1, <1>3 DEF Owners
<1>6. Record'
  <2>1. \A i \in registered' : Server(i)' BY <1>1, <1>2, <1>3 DEF Record, TypeInv
  <2>2. \A d \in Pids : \A i \in dirs'[d].files : Server(i)'
    BY <1>1, <1>2, <1>3, TableTypes DEF Record
  <2>3. Markers' BY <1>1, <1>2, MarkersKept DEF Record
  <2>4. QED BY <2>1, <2>2, <2>3, <1>1, <1>2 DEF Record
<1>7. \A i \in registered : \A q : Survives(i, q)' => Survives(i, q)
  BY <1>2, <1>3 DEF Survives, TypeInv
<1>8. Recorded' BY <1>1, <1>2, <1>7 DEF Recorded
<1>9. Guarded'
  <2>1. \A q, i : Tracks(q, i)' <=> Tracks(q, i) BY <1>2 DEF Tracks
  <2>2. \A q : Alive(q)' <=> Alive(q) BY <1>2 DEF Alive
  <2>3. QED BY <2>1, <2>2, <1>1, <1>2, <1>7 DEF Guarded
<1>10. QED BY <1>4, <1>5, <1>6, <1>8, <1>9 DEF RegistryInv

-----------------------------------------------------------------------------
(* Runs that end                                                           *)

\* Run r is over, by itself or by a crash: its process is gone.
Over(r) ==
  /\ Alive(r) /\ Moves(r) /\ run'[r].pc \in {"ended", "crashed"}
  /\ run'[r].me = run[r].me /\ run'[r].goal = "registry"
  /\ run'[r].procs = {} /\ run'[r].handle = NoInfo
  /\ run'[r].pc = "ended" => run[r].handle = NoInfo
  /\ procs' = [procs EXCEPT ![run[r].me.pid] = Free]
  /\ endedOnes' \in {endedOnes, endedOnes \cup {r}}
  /\ r \in endedOnes' => run'[r].pc = "ended"
  /\ UNCHANGED <<starts, registered>>

\* Its directory stays, or goes with it once it has no server left.
LEMMA OverStep ==
  ASSUME TypeInv, RegistryInv, NEW r \in Runs, Over(r),
         dirs' = dirs \/ (/\ run[r].pc = "killall" /\ run[r].handle = NoInfo
                          /\ dirs' = [dirs EXCEPT ![run[r].me.pid] = NoDir]),
         scan' = scan \/ scan' = [scan EXCEPT ![r] = NoScan]
  PROVE  TypeInv' /\ RegistryInv'
<1> DEFINE p == run[r].me.pid
<1>1. Owners /\ Record /\ Recorded /\ Guarded BY DEF RegistryInv
<1>2. /\ p \in Pids /\ procs[p].owner = r /\ procs[p].state = "live" /\ Owned(r)
      /\ Alive(r)
  BY <1>1, OwnDir DEF Over, Owners
<1>3. Gone(p) BY <1>2 DEF Gone, Over
<1>4. /\ procs' \in [Pids -> ProcState] /\ Table' /\ Named'
      /\ \A o \in Pids : procs'[o].owner # "none" =>
           /\ procs'[o].owner = procs[o].owner /\ procs'[o].name = procs[o].name
           /\ procs'[o].start = procs[o].start
      /\ \A i \in Info : VerifyOwnership(i)' =>
           VerifyOwnership(i) /\ procs'[i.pid].owner = procs[i.pid].owner
      /\ \A i \in Info : Server(i) => Server(i)'
  BY <1>1, <1>2, <1>3, GoneFacts
<1>5. /\ run' \in [Runs -> RunState] /\ \A q \in Runs : q # r => run'[q] = run[q]
      /\ run'[r].me = run[r].me /\ ~Alive(r)'
      /\ UNCHANGED <<starts, registered>> /\ endedOnes' \subseteq endedOnes \cup {r}
  BY DEF Over, Moves, Alive
<1>6. /\ dirs' \in [Pids -> DirState]
      /\ \A d \in Pids : dirs'[d] = dirs[d]
                         \/ (/\ d = p /\ dirs'[d] = NoDir
                             /\ run[r].pc = "killall" /\ run[r].handle = NoInfo)
  BY <1>2, Types
<1>7. /\ scan' \in [Runs -> ScanState] /\ \A q \in Runs : q # r => scan'[q] = scan[q]
      /\ scan'[r].found \subseteq scan[r].found
  <2>1. NoScan.found = {} BY DEF NoScan
  <2>2. QED BY <2>1, Types
<1>8. TypeInv'
  <2>1. \A d \in Pids : ~dirs'[d].made => dirs'[d] = NoDir BY <1>6 DEF TypeInv
  <2>2. starts' \in 0 .. MaxStarts /\ registered' \subseteq Info /\ endedOnes' \subseteq Runs
    BY <1>5 DEF TypeInv
  <2>3. QED BY <2>1, <2>2, <1>4, <1>5, <1>6, <1>7, Typed
<1>9. Owners'
  <2>1. ASSUME NEW q \in Runs, q # r PROVE Owned(q)'
    <3>1. Alive(q) => p # run[q].me.pid BY <2>1, <1>1, <1>2, OwnDir
    <3>2. q \in endedOnes' => q \in endedOnes BY <2>1, <1>5
    <3>3. QED BY <2>1, <3>1, <3>2, <1>1, <1>2, <1>3, <1>5, GoneOthers
  <2>2. Owned(r)'
    <3>1. ASSUME NEW o \in Pids, procs'[o].owner = r
          PROVE  run'[r].pc # "ended" /\ run'[r].pc # "off" /\ procs'[o].name # "cablecheck"
      <4>1. procs'[p] = Free /\ Free.owner = "none" /\ r # "none"
        BY <1>2, Types, RegistryAssumption DEF Over, Free
      <4>2. o # p BY <3>1, <4>1
      <4>3. procs[o].owner = r /\ procs'[o].name = procs[o].name BY <3>1, <4>1, <1>4
      <4>4. Is(run[r].handle) /\ procs[o].name # "cablecheck" BY <4>2, <4>3, <1>2 DEF Owned
      <4>5. run[r].handle # NoInfo BY <4>4 DEF Is
      <4>6. QED BY <4>3, <4>4, <4>5 DEF Over
    <3>2. run[r].me # NoInfo BY <1>1, <1>2, OwnDir
    <3>3. /\ run'[r].procs = {} /\ run'[r].handle = NoInfo /\ run'[r].goal = "registry"
          /\ run'[r].pc \in {"ended", "crashed"} /\ (r \in endedOnes' => run'[r].pc = "ended")
      BY DEF Over
    <3>4. QED BY <3>1, <3>2, <3>3, <1>5 DEF Owned
  <2>3. QED BY <2>1, <2>2, <1>4 DEF Owners
<1>10. Record'
  <2>1. \A i \in registered' : Server(i)' BY <1>1, <1>4, <1>5 DEF Record, TypeInv
  <2>2. \A d \in Pids : \A i \in dirs'[d].files : Server(i)'
    <3>1. NoDir.files = {} BY DEF NoDir
    <3>2. QED BY <3>1, <1>1, <1>4, <1>6, TableTypes DEF Record
  <2>3. \A q \in Runs : \A f \in scan'[q].found : f.owner \in Runs BY <1>1, <1>7 DEF Record
  <2>4. Markers'
    <3>1. NoDir.marker = NoInfo BY DEF NoDir
    <3>2. \A d \in Pids : dirs'[d].marker = dirs[d].marker \/ dirs'[d].marker = NoInfo
      BY <3>1, <1>6
    <3>3. \A q \in Runs : run'[q].pc = "scan" => run[q].pc = "scan" BY <1>5 DEF Over
    <3>4. \A q \in Runs : run'[q].me = run[q].me BY <1>5
    <3>5. QED BY <3>2, <3>3, <3>4, <1>1, <1>5, MarkersKept DEF Record
  <2>5. QED BY <2>1, <2>2, <2>3, <2>4 DEF Record
<1>11. \A i \in registered : \A q : Survives(i, q)' => Survives(i, q)
  BY <1>4, <1>5 DEF Survives, TypeInv
<1>12. Recorded'
  <2>1. SUFFICES ASSUME NEW q \in Runs, NEW i \in registered, Survives(i, q)
                 PROVE  i \in dirs'[run'[q].me.pid].files
    BY <1>5, <1>11 DEF Recorded
  <2>2. i \in dirs[run[q].me.pid].files BY <2>1, <1>1 DEF Recorded
  <2>3. i \in Info /\ i # NoInfo /\ procs[i.pid].owner = q
    BY <2>1 DEF TypeInv, Survives, VerifyOwnership
  <2>4. run[q].me.pid \in Pids /\ run'[q].me = run[q].me BY <2>3, <1>1, <1>5, InfoFacts, DirOwner
  <2>5. ASSUME run[q].me.pid = p, run[r].pc = "killall", run[r].handle = NoInfo PROVE FALSE
    <3>1. q = r BY <2>1, <2>5, <1>1, <1>2, NotShared
    <3>2. Is(run[r].handle) BY <3>1, <2>1, <1>1, <1>2, TheServer
    <3>3. QED BY <3>2, <2>5 DEF Is
  <2>6. QED BY <2>2, <2>4, <2>5, <1>6
<1>13. Guarded'
  <2>1. SUFFICES ASSUME NEW c \in Runs, NEW q \in Runs, NEW i \in registered,
                        run'[c].pc = "crashed", Survives(i, c), Alive(q)',
                        run'[q].me.pid = run'[c].me.pid
                 PROVE  run'[q].pc = "scan" /\ Tracks(q, i)'
    BY <1>5, <1>11 DEF Guarded
  <2>2. q # r /\ run'[q] = run[q] /\ scan'[q] = scan[q] BY <2>1, <1>5, <1>7
  <2>3. Alive(q) /\ run[q].me.pid = run[c].me.pid BY <2>1, <2>2, <1>5 DEF Alive
  <2>4. c # r
    <3>1. SUFFICES ASSUME c = r PROVE FALSE OBVIOUS
    <3>2. procs[run[q].me.pid].owner = q BY <2>3, <1>1, OwnDir
    <3>3. QED BY <3>1, <3>2, <2>2, <2>3, <1>2
  <2>5. run[c].pc = "crashed" BY <2>1, <2>4, <1>5
  <2>6. run[q].pc = "scan" /\ Tracks(q, i) BY <2>1, <2>3, <2>5, <1>1 DEF Guarded
  <2>7. QED BY <2>2, <2>6 DEF Tracks
<1>14. QED BY <1>8, <1>9, <1>10, <1>12, <1>13 DEF RegistryInv

\* The run is killed.
LEMMA CrashStep ==
  ASSUME TypeInv, RegistryInv, NEW r \in Runs, Crash(r)
  PROVE  TypeInv' /\ RegistryInv'
<1> DEFINE x == [Off EXCEPT !.pc = "crashed", !.me = run[r].me]
<1>1. /\ Alive(r) /\ run' = [run EXCEPT ![r] = x] /\ scan' = [scan EXCEPT ![r] = NoScan]
      /\ procs' = [procs EXCEPT ![run[r].me.pid] = Free]
      /\ UNCHANGED <<starts, dirs, registered, endedOnes>>
  BY DEF Crash
<1>2. run[r].me \in Info /\ Off \in RunState BY RunTypes, Types
<1>3. /\ x \in RunState /\ x.pc = "crashed" /\ x.me = run[r].me /\ x.goal = "registry"
      /\ x.procs = {} /\ x.handle = NoInfo
  BY <1>2 DEF RunState, Off, Stage
<1> HIDE DEF x
<1>4. Moves(r) /\ run'[r] = x BY <1>1, <1>3, Types DEF Moves
<1>5. r \notin endedOnes BY <1>1 DEF RegistryInv, Owners, Owned, Alive
<1>6. Over(r) BY <1>1, <1>3, <1>4, <1>5 DEF Over
<1>7. QED BY <1>1, <1>6, OverStep

\* The run comes to its own end: nothing is registered any more.
LEMMA KillAllStep ==
  ASSUME TypeInv, RegistryInv, NEW r \in Runs, KillAll(r)
  PROVE  TypeInv' /\ RegistryInv'
<1> DEFINE x == [Off EXCEPT !.pc = "ended", !.me = run[r].me]
<1>1. /\ run[r].pc = "killall" /\ run[r].handle = NoInfo /\ run' = [run EXCEPT ![r] = x]
      /\ dirs' = IF run[r].reg THEN [dirs EXCEPT ![run[r].me.pid] = NoDir] ELSE dirs
      /\ endedOnes' = endedOnes \cup {r} /\ UNCHANGED <<starts, scan, registered>>
  BY DEF KillAll, Dir
<1>2. Alive(r) /\ Owned(r) BY <1>1 DEF Alive, RegistryInv, Owners
<1>3. run[r].procs = {} BY <1>1, <1>2 DEF Owned
<1>4. procs' = [procs EXCEPT ![run[r].me.pid] = Free]
  <2>1. procs' = [p \in Pids |-> IF p = run[r].me.pid THEN Free ELSE procs[p]]
    BY <1>3 DEF KillAll
  <2>2. QED BY <2>1, Types
<1>5. run[r].me \in Info /\ Off \in RunState BY RunTypes, Types
<1>6. /\ x \in RunState /\ x.pc = "ended" /\ x.me = run[r].me /\ x.goal = "registry"
      /\ x.procs = {} /\ x.handle = NoInfo
  BY <1>5 DEF RunState, Off, Stage
<1> HIDE DEF x
<1>7. Moves(r) /\ run'[r] = x BY <1>1, <1>6, Types DEF Moves
<1>8. Over(r) BY <1>1, <1>2, <1>4, <1>6, <1>7 DEF Over
<1>9. QED BY <1>1, <1>8, OverStep

\* The scan is over: the run gives up on a finding, and else it has none to
\* shield.
LEMMA ScanDoneStep ==
  ASSUME TypeInv, RegistryInv, NEW r \in Runs, ScanDone(r)
  PROVE  TypeInv' /\ RegistryInv'
<1>1. /\ run[r].pc = "scan" /\ scan[r].dir = 0 /\ scan[r].todo = {}
      /\ UNCHANGED <<starts, dirs, scan, registered>>
  BY DEF ScanDone
<1>2. Owners /\ Record /\ Recorded /\ Guarded /\ Alive(r) /\ Owned(r)
  BY <1>1 DEF RegistryInv, Owners, Alive
<1>3. run[r].handle = NoInfo /\ run[r].goal = "registry" /\ run[r].procs = {}
  <2>1. run[r].handle = NoInfo BY <1>1, <1>2 DEF Owned
  <2>2. run[r].goal # "server" BY <2>1, <1>1, <1>2 DEF Owned
  <2>3. QED BY <2>1, <2>2, <1>2, RunTypes DEF Owned
<1>4. CASE scan[r].found # {}
  <2>1. /\ run' = [run EXCEPT ![r].pc = "ended"] /\ endedOnes' = endedOnes \cup {r}
        /\ procs' = [procs EXCEPT ![run[r].me.pid] = Free]
    BY <1>4 DEF ScanDone
  <2>2. /\ Moves(r) /\ run'[r].pc = "ended" /\ run'[r].me = run[r].me
        /\ run'[r].goal = run[r].goal
        /\ run'[r].procs = run[r].procs /\ run'[r].handle = run[r].handle
    BY <2>1, Moved DEF Stage
  <2>3. Over(r) BY <2>1, <2>2, <1>1, <1>2, <1>3 DEF Over
  <2>4. QED BY <2>3, <1>1, OverStep
<1>5. CASE scan[r].found = {}
  <2>1. run' = [run EXCEPT ![r].pc = "dir"] /\ UNCHANGED <<procs, endedOnes>>
    BY <1>5 DEF ScanDone
  <2>2. /\ Moves(r) /\ run'[r].pc = "dir" /\ run'[r].me = run[r].me
        /\ run'[r].goal = run[r].goal
        /\ run'[r].procs = run[r].procs /\ run'[r].handle = run[r].handle
    BY <2>1, Moved DEF Stage
  <2>3. TypeInv' BY <2>1, <2>2, <1>1 DEF TypeInv, Moves
  <2>4. Owners'
    <3>1. Table' /\ Named' BY <2>1, <1>1, <1>2 DEF Owners, Table, Named
    <3>2. ASSUME NEW q \in Runs, q # r PROVE Owned(q)'
      <4>1. run'[q] = run[q] /\ Owned(q) BY <3>2, <2>2, <1>2 DEF Moves, Owners
      <4>2. QED BY <4>1, <2>1, <1>1 DEF Owned, Alive, Present, OwnHandle, Is
    <3>3. Owned(r)'
      <4>1. Alive(r)' BY <2>2 DEF Alive
      <4>2. Present(r)' BY <2>1, <2>2, <1>2 DEF Owned, Present
      <4>3. OwnHandle(r)' BY <2>2, <1>3 DEF OwnHandle
      <4>4. \A p \in Pids : procs'[p].owner = r => p = run'[r].me.pid
        BY <2>1, <2>2, <1>2, <1>3 DEF Owned, Is
      <4>5. r \notin endedOnes BY <1>1, <1>2 DEF Owned
      <4>6. QED BY <4>1, <4>2, <4>3, <4>4, <4>5, <2>1, <2>2, <1>3 DEF Owned, Present
    <3>4. QED BY <3>1, <3>2, <3>3 DEF Owners
  <2>5. \A i : Server(i)' <=> Server(i) BY <2>1, <1>1 DEF Server, Is
  <2>6. \A q \in Runs : run'[q].me = run[q].me BY <2>2 DEF Moves
  <2>7. Record'
    <3>1. \A q \in Runs : run'[q].pc = "scan" => run[q].pc = "scan" BY <2>2 DEF Moves
    <3>2. Markers' BY <3>1, <2>6, <1>1, <1>2, MarkersKept DEF Record
    <3>3. QED BY <3>2, <2>5, <1>1, <1>2 DEF Record
  <2>8. \A i, q : Survives(i, q)' <=> Survives(i, q)
    BY <2>1, <1>1 DEF Survives, VerifyOwnership
  <2>9. Recorded' BY <2>6, <2>8, <1>1, <1>2 DEF Recorded
  <2>10. Guarded'
    <3>1. SUFFICES ASSUME NEW c \in Runs, NEW q \in Runs, NEW i \in registered,
                          run'[c].pc = "crashed", Survives(i, c), Alive(q)',
                          run'[q].me.pid = run'[c].me.pid
                   PROVE  run'[q].pc = "scan" /\ Tracks(q, i)'
      BY <2>8, <1>1 DEF Guarded
    <3>2. c # r /\ run'[c] = run[c] BY <3>1, <2>2 DEF Moves
    <3>3. run[q].me.pid = run[c].me.pid BY <3>1, <2>6
    <3>4. Alive(q)
      <4>1. q # r => run'[q] = run[q] BY <2>2 DEF Moves
      <4>2. QED BY <4>1, <3>1, <1>2 DEF Alive
    <3>5. run[q].pc = "scan" /\ Tracks(q, i) BY <3>1, <3>2, <3>3, <3>4, <1>2 DEF Guarded
    <3>6. q # r
      <4>1. SUFFICES ASSUME q = r PROVE FALSE OBVIOUS
      <4>2. run[r].me.pid \in Pids /\ 0 \notin Pids BY <1>2, OwnDir, Types
      <4>3. QED BY <4>1, <4>2, <3>5, <1>1, <1>5 DEF Tracks
    <3>7. run'[q] = run[q] /\ scan' = scan BY <3>6, <2>2, <1>1 DEF Moves
    <3>8. QED BY <3>5, <3>7 DEF Tracks
  <2>11. QED BY <2>3, <2>4, <2>7, <2>9, <2>10 DEF RegistryInv
<1>6. QED BY <1>4, <1>5

-----------------------------------------------------------------------------
(* Processes that start                                                    *)

\* A new process is nobody on record: its start time is later than all others.
LEMMA BornFacts ==
  ASSUME TypeInv, Owners, NEW p \in Pids, NEW name \in {"cablecheck", "iperf3"},
         NEW owner \in Runs \cup {"user"}, name = "cablecheck" => owner \in Runs,
         Spawn(p, name, owner)
  PROVE  /\ procs' \in [Pids -> ProcState] /\ Table' /\ Named'
         /\ starts' = starts + 1 /\ starts' \in 0 .. MaxStarts /\ starts' \in 1 .. MaxStarts
         /\ procs'[p] = [start |-> starts + 1, name |-> name, owner |-> owner, state |-> "live"]
         /\ \A o \in Pids : o # p => procs'[o] = procs[o]
         /\ procs[p] = Free
         /\ \A i \in Info : i.start <= starts => (Is(i)' <=> Is(i))
         /\ \A i \in Info : i.start <= starts /\ Is(i) =>
              i.pid # p /\ i.pid \in Pids /\ procs'[i.pid] = procs[i.pid]
         /\ \A i \in Info : i # NoInfo /\ i.start <= starts => i.start <= starts'
<1> DEFINE new == [start |-> starts + 1, name |-> name, owner |-> owner, state |-> "live"]
<1>1. procs[p] = Free /\ starts < MaxStarts /\ starts' = starts + 1
      /\ procs' = [procs EXCEPT ![p] = new]
  BY DEF Spawn
<1>2. starts \in Nat /\ MaxStarts \in Nat /\ procs \in [Pids -> ProcState]
  BY Types, RegistryAssumption
<1>3. starts + 1 \in 1 .. MaxStarts /\ starts + 1 \in 0 .. MaxStarts /\ starts + 1 # 0
  BY <1>1, <1>2
<1>4. new \in ProcState /\ new.start = starts + 1 /\ new.name = name
      /\ new.owner = owner /\ new.state = "live"
  BY <1>3 DEF ProcState
<1> HIDE DEF new
<1>5. /\ procs' \in [Pids -> ProcState] /\ procs'[p] = new
      /\ \A o \in Pids : o # p => procs'[o] = procs[o]
  BY <1>1, <1>2, <1>4
<1>6. owner # "none" BY RegistryAssumption
<1>7. Table'
  <2>1. ASSUME NEW o \in Pids
        PROVE  /\ procs'[o].start <= starts'
               /\ procs'[o].state = "free" => procs'[o] = Free
               /\ procs'[o].state # "free" => procs'[o].start # 0 /\ procs'[o].owner # "none"
    <3>1. CASE o = p BY <3>1, <1>1, <1>2, <1>3, <1>4, <1>5, <1>6
    <3>2. CASE o # p
      <4>1. procs'[o] = procs[o] BY <3>2, <1>5
      <4>2. procs[o].start <= starts /\ procs[o].start \in Nat BY TableTypes DEF Owners, Table
      <4>3. procs'[o].start <= starts' BY <4>1, <4>2, <1>1, <1>2
      <4>4. QED BY <4>1, <4>3 DEF Owners, Table
    <3>3. QED BY <3>1, <3>2
  <2>2. QED BY <2>1 DEF Table
<1>8. Named' BY <1>4, <1>5 DEF Owners, Named
<1>9. ASSUME NEW i \in Info, i.start <= starts
      PROVE  /\ Is(i)' <=> Is(i)
             /\ Is(i) => i.pid # p /\ i.pid \in Pids /\ procs'[i.pid] = procs[i.pid]
             /\ i # NoInfo => i.start <= starts'
  <2>1. i # NoInfo => i.pid \in Pids /\ i.start \in 1 .. MaxStarts /\ i.start # 0
    BY InfoFacts
  <2>2. i # NoInfo => i.start # starts + 1 /\ i.start <= starts + 1 BY <2>1, <1>2, <1>9
  <2>3. Free.start = 0 BY DEF Free
  <2>4. QED BY <2>1, <2>2, <2>3, <1>1, <1>4, <1>5 DEF Is
<1>10. QED BY <1>1, <1>3, <1>5, <1>7, <1>8, <1>9 DEF new

\* What is on record is of the same processes as before.
LEMMA BornRecord ==
  ASSUME TypeInv, Owners, Record, NEW p \in Pids, NEW name \in {"cablecheck", "iperf3"},
         NEW owner \in Runs \cup {"user"}, name = "cablecheck" => owner \in Runs,
         Spawn(p, name, owner), UNCHANGED <<dirs, registered>>
  PROVE  /\ \A i \in registered : Server(i)'
         /\ \A d \in Pids : \A i \in dirs[d].files : Server(i)'
         /\ \A i \in registered : \A q : Survives(i, q)' => Survives(i, q)
<1>1. ASSUME NEW i \in Info, Server(i) PROVE Server(i)'
  <2>1. i # NoInfo /\ i.name = "iperf3" /\ i.start <= starts
        /\ (Is(i) => procs[i.pid].owner \in Runs)
    BY <1>1 DEF Server
  <2>2. (Is(i)' <=> Is(i)) /\ i.start <= starts' /\ (Is(i) => procs'[i.pid] = procs[i.pid])
    BY <2>1, BornFacts
  <2>3. QED BY <2>1, <2>2 DEF Server
<1>2. ASSUME NEW i \in registered, NEW q, Survives(i, q)' PROVE Survives(i, q)
  <2>1. i \in Info /\ i.start <= starts BY DEF TypeInv, Record, Server
  <2>2. Is(i)' BY <1>2 DEF Survives, VerifyOwnership, Is
  <2>3. procs'[i.pid] = procs[i.pid] BY <2>1, <2>2, BornFacts
  <2>4. QED BY <2>3, <1>2 DEF Survives, VerifyOwnership
<1>3. QED BY <1>1, <1>2, TableTypes DEF Record, TypeInv

\* The other runs keep what they own.
LEMMA BornOthers ==
  ASSUME TypeInv, Owners, NEW p \in Pids, NEW name \in {"cablecheck", "iperf3"},
         NEW owner \in Runs \cup {"user"}, name = "cablecheck" => owner \in Runs,
         Spawn(p, name, owner), endedOnes' = endedOnes,
         NEW q \in Runs, q # owner, run'[q] = run[q]
  PROVE  Owned(q)'
<1>1. Owned(q) BY DEF Owners
<1>2. /\ \A o \in Pids : o # p => procs'[o] = procs[o]
      /\ procs[p] = Free /\ procs'[p].owner = owner
      /\ \A i \in Info : i.start <= starts => (Is(i)' <=> Is(i))
      /\ \A i \in Info : i.start <= starts /\ Is(i) =>
           i.pid # p /\ i.pid \in Pids /\ procs'[i.pid] = procs[i.pid]
      /\ \A i \in Info : i # NoInfo /\ i.start <= starts => i.start <= starts'
  <2>1. procs'[p] = [start |-> starts + 1, name |-> name, owner |-> owner, state |-> "live"]
    BY BornFacts
  <2>2. procs'[p].owner = owner BY <2>1
  <2>3. QED BY <2>2, BornFacts
<1>3. Alive(q)' <=> Alive(q) BY DEF Alive
<1>4. run[q].handle \in Info BY RunTypes
<1>5. Alive(q) => Present(q)'
  <2>1. SUFFICES ASSUME Alive(q) PROVE Present(q)' OBVIOUS
  <2>2. run[q].me.pid \in Pids /\ procs[run[q].me.pid].state = "live" BY <2>1, OwnDir
  <2>3. procs'[run[q].me.pid] = procs[run[q].me.pid] BY <2>2, <1>2 DEF Free
  <2>4. QED BY <2>1, <2>3, <1>1 DEF Owned, Present
<1>6. Alive(q) => OwnHandle(q)'
  <2>1. SUFFICES ASSUME Alive(q), run[q].handle # NoInfo
                 PROVE  /\ run[q].handle.name = "iperf3" /\ run[q].handle.start <= starts'
                        /\ Is(run[q].handle)' => procs'[run[q].handle.pid].owner = q
                             /\ procs'[run[q].handle.pid].name = "iperf3"
    BY DEF OwnHandle
  <2>2. OwnHandle(q) BY <2>1, <1>1 DEF Owned
  <2>3. QED BY <2>1, <2>2, <1>2, <1>4 DEF OwnHandle
<1>7. ASSUME NEW o \in Pids, procs'[o].owner = q
      PROVE  /\ run'[q].pc \notin {"off", "ended"}
             /\ Alive(q)' /\ o # run'[q].me.pid => Is(run[q].handle)' /\ run'[q].handle.pid = o
             /\ procs'[o].name = "cablecheck" => Alive(q)' /\ o = run'[q].me.pid
  <2>1. o # p /\ procs'[o] = procs[o] BY <1>2, <1>7
  <2>2. /\ run[q].pc \notin {"off", "ended"}
        /\ Alive(q) /\ o # run[q].me.pid => Is(run[q].handle) /\ run[q].handle.pid = o
        /\ procs[o].name = "cablecheck" => Alive(q) /\ o = run[q].me.pid
    BY <2>1, <1>1, <1>7 DEF Owned
  <2>3. QED BY <2>1, <2>2, <1>3 DEF Is
<1>8. QED BY <1>1, <1>3, <1>5, <1>6, <1>7 DEF Owned

\* The user starts a process.
LEMMA UserStep ==
  ASSUME TypeInv, RegistryInv, NEW p \in Pids, UserStart(p)
  PROVE  TypeInv' /\ RegistryInv'
<1>1. Owners /\ Record /\ Recorded /\ Guarded BY DEF RegistryInv
<1>2. /\ Spawn(p, "iperf3", "user")
      /\ UNCHANGED <<dirs, run, scan, registered, endedOnes>>
  BY DEF UserStart
<1>3. procs' \in [Pids -> ProcState] /\ Table' /\ Named'
      /\ starts' = starts + 1 /\ starts' \in 0 .. MaxStarts
  BY <1>1, <1>2, BornFacts
<1>4. TypeInv' BY <1>2, <1>3 DEF TypeInv
<1>5. Owners'
  <2>1. \A q \in Runs : q # "user" BY RegistryAssumption
  <2>2. ASSUME NEW q \in Runs PROVE Owned(q)' BY <2>1, <1>1, <1>2, BornOthers
  <2>3. QED BY <2>2, <1>3 DEF Owners
<1>6. /\ \A i \in registered : Server(i)'
      /\ \A d \in Pids : \A i \in dirs[d].files : Server(i)'
      /\ \A i \in registered : \A q : Survives(i, q)' => Survives(i, q)
  BY <1>1, <1>2, BornRecord
<1>7. Record'
  <2>1. Markers' BY <1>1, <1>2, <1>3, MarkersKept DEF Record
  <2>2. QED BY <2>1, <1>1, <1>2, <1>6 DEF Record
<1>8. Recorded' BY <1>1, <1>2, <1>6 DEF Recorded
<1>9. Guarded'
  <2>1. \A q, i : Tracks(q, i)' <=> Tracks(q, i) BY <1>2 DEF Tracks
  <2>2. \A q : Alive(q)' <=> Alive(q) BY <1>2 DEF Alive
  <2>3. QED BY <2>1, <2>2, <1>1, <1>2, <1>6 DEF Guarded
<1>10. QED BY <1>4, <1>5, <1>7, <1>8, <1>9 DEF RegistryInv

\* A run starts its server.
LEMMA StartServerStep ==
  ASSUME TypeInv, RegistryInv, NEW r \in Runs, NEW p \in Pids, StartServer(r, p)
  PROVE  TypeInv' /\ RegistryInv'
<1> DEFINE h == Identity(p, "iperf3")
           s == IF run[r].reg THEN "dir" ELSE "ready"
<1>1. Owners /\ Record /\ Recorded /\ Guarded BY DEF RegistryInv
<1>2. /\ run[r].pc = "open" /\ run[r].handle = NoInfo /\ Spawn(p, "iperf3", r)
      /\ run' = [run EXCEPT ![r].handle = h, ![r].goal = "server", ![r].pc = s]
      /\ UNCHANGED <<dirs, scan, registered, endedOnes>>
  BY DEF StartServer
<1>3. Alive(r) /\ Owned(r) BY <1>1, <1>2 DEF Alive, Owners
<1>4. /\ procs' \in [Pids -> ProcState] /\ Table' /\ Named'
      /\ starts' = starts + 1 /\ starts' \in 0 .. MaxStarts /\ starts + 1 \in 1 .. MaxStarts
      /\ procs'[p] = [start |-> starts + 1, name |-> "iperf3", owner |-> r, state |-> "live"]
      /\ \A o \in Pids : o # p => procs'[o] = procs[o]
      /\ procs[p] = Free
  BY <1>1, <1>2, BornFacts
<1>5. h \in Info /\ h.pid = p /\ h.start = starts + 1 /\ h.name = "iperf3"
  BY <1>4 DEF Info, Identity
<1>6. h # NoInfo BY <1>5, InfoFacts
<1>7. s \in {"dir", "ready"} OBVIOUS
<1> HIDE DEF h, s
<1>8. /\ Moves(r) /\ run'[r].pc = s /\ run'[r].me = run[r].me /\ run'[r].goal = "server"
      /\ run'[r].handle = h /\ run'[r].procs = run[r].procs
  BY <1>2, <1>5, <1>7, Types DEF RunState, Moves, Stage
<1>9. TypeInv' BY <1>2, <1>4, <1>8 DEF TypeInv, Moves
<1>10. Owners'
  <2>1. ASSUME NEW q \in Runs, q # r PROVE Owned(q)'
    <3>1. run'[q] = run[q] BY <2>1, <1>8 DEF Moves
    <3>2. QED BY <2>1, <3>1, <1>1, <1>2, BornOthers
  <2>2. Owned(r)'
    <3>1. Alive(r)' BY <1>7, <1>8 DEF Alive
    <3>2. run[r].me.pid \in Pids /\ run[r].me.pid # p BY <1>1, <1>3, <1>4, OwnDir DEF Free
    <3>3. Present(r)'
      <4>1. procs'[run[r].me.pid] = procs[run[r].me.pid] BY <3>2, <1>4
      <4>2. QED BY <4>1, <1>3, <1>8 DEF Owned, Present
    <3>4. procs'[p].start = h.start /\ procs'[p].owner = r /\ procs'[p].name = "iperf3"
      BY <1>4, <1>5
    <3>5. Is(run[r].handle)' /\ run'[r].handle.pid = p BY <3>4, <1>5, <1>6, <1>8 DEF Is
    <3>6. h.start <= starts' /\ starts \in Nat BY <1>4, <1>5, Types
    <3>7. OwnHandle(r)' BY <3>4, <3>6, <1>5, <1>6, <1>8 DEF OwnHandle
    <3>8. run[r].procs = {} BY <1>2, <1>3 DEF Owned
    <3>9. r \notin endedOnes BY <1>2, <1>3 DEF Owned
    <3>10. ASSUME NEW o \in Pids, procs'[o].owner = r
           PROVE  o = p \/ o = run'[r].me.pid
      <4>1. SUFFICES ASSUME o # p PROVE o = run[r].me.pid BY <1>8
      <4>2. procs[o].owner = r BY <4>1, <3>10, <1>4
      <4>3. ~Is(run[r].handle) BY <1>2 DEF Is
      <4>4. QED BY <4>2, <4>3, <1>3 DEF Owned
    <3>11. QED BY <3>1, <3>2, <3>3, <3>4, <3>5, <3>7, <3>8, <3>9, <3>10,
                  <1>2, <1>5, <1>6, <1>7, <1>8 DEF Owned, Present
  <2>3. QED BY <2>1, <2>2, <1>4 DEF Owners
<1>11. /\ \A i \in registered : Server(i)'
       /\ \A d \in Pids : \A i \in dirs[d].files : Server(i)'
       /\ \A i \in registered : \A q : Survives(i, q)' => Survives(i, q)
  BY <1>1, <1>2, BornRecord
<1>12. \A q \in Runs : run'[q].me = run[q].me BY <1>8 DEF Moves
<1>13. Record'
  <2>1. \A q \in Runs : run'[q].pc = "scan" => run[q].pc = "scan" BY <1>7, <1>8 DEF Moves
  <2>2. Markers' BY <2>1, <1>1, <1>2, <1>4, <1>12, MarkersKept DEF Record
  <2>3. QED BY <2>2, <1>1, <1>2, <1>11 DEF Record
<1>14. Recorded' BY <1>1, <1>2, <1>11, <1>12 DEF Recorded
<1>15. Guarded'
  <2>1. \A i, c : Survives(i, c)' => Survives(i, c) /\ i \in registered
    BY <1>2, <1>11 DEF Survives
  <2>2. run[r].pc # "scan" /\ run'[r].pc # "crashed" /\ scan' = scan BY <1>2, <1>7, <1>8
  <2>3. QED BY <2>1, <2>2, <1>1, <1>3, <1>8, GuardedKept
<1>16. QED BY <1>9, <1>10, <1>13, <1>14, <1>15 DEF RegistryInv

\* A run begins with its scan, which has the directory of a crashed run of the
\* same number still before it.
LEMMA LaunchStep ==
  ASSUME TypeInv, RegistryInv, NEW r \in Runs, NEW p \in Pids, Launch(r, p)
  PROVE  TypeInv' /\ RegistryInv'
<1> DEFINE m == Identity(p, "cablecheck")
           t == {d \in Pids : dirs[d].made}
<1>1. Owners /\ Record /\ Recorded /\ Guarded BY DEF RegistryInv
<1>2. /\ run[r].pc = "off" /\ Spawn(p, "cablecheck", r)
      /\ run' = [run EXCEPT ![r].pc = "scan", ![r].me = m]
      /\ scan' = [scan EXCEPT ![r].todo = t]
      /\ UNCHANGED <<dirs, registered, endedOnes>>
  BY DEF Launch
<1>3. ~Alive(r) /\ Owned(r) BY <1>1, <1>2 DEF Alive, Owners
<1>4. /\ procs' \in [Pids -> ProcState] /\ Table' /\ Named'
      /\ starts' = starts + 1 /\ starts' \in 0 .. MaxStarts /\ starts + 1 \in 1 .. MaxStarts
      /\ procs'[p] = [start |-> starts + 1, name |-> "cablecheck", owner |-> r, state |-> "live"]
      /\ \A o \in Pids : o # p => procs'[o] = procs[o]
  BY <1>1, <1>2, BornFacts
<1>5. m \in Info /\ m.pid = p /\ m.start = starts + 1 /\ m.name = "cablecheck"
  BY <1>4 DEF Info, Identity
<1>6. m # NoInfo BY <1>5, InfoFacts
<1>7. t \in SUBSET Pids OBVIOUS
<1> HIDE DEF m, t
<1>8. /\ Moves(r) /\ run'[r].pc = "scan" /\ run'[r].me = m /\ run'[r].goal = run[r].goal
      /\ run'[r].handle = run[r].handle /\ run'[r].procs = run[r].procs
  BY <1>2, <1>5, Types DEF RunState, Moves, Stage
<1>9. /\ scan' \in [Runs -> ScanState] /\ \A q \in Runs : q # r => scan'[q] = scan[q]
      /\ scan'[r].todo = t /\ scan'[r].found = scan[r].found
  BY <1>2, <1>7, Types DEF ScanState
<1>10. TypeInv' BY <1>2, <1>4, <1>8, <1>9 DEF TypeInv, Moves
<1>11. run[r].handle = NoInfo /\ run[r].goal # "server" /\ run[r].procs = {}
  <2>1. run[r].handle = NoInfo BY <1>3 DEF Owned
  <2>2. QED BY <2>1, <1>2, <1>3 DEF Owned
<1>12. Owners'
  <2>1. ASSUME NEW q \in Runs, q # r PROVE Owned(q)'
    <3>1. run'[q] = run[q] BY <2>1, <1>8 DEF Moves
    <3>2. QED BY <2>1, <3>1, <1>1, <1>2, BornOthers
  <2>2. Owned(r)'
    <3>1. Alive(r)' BY <1>8 DEF Alive
    <3>2. Present(r)' BY <1>4, <1>5, <1>6, <1>8 DEF Present
    <3>3. OwnHandle(r)' BY <1>8, <1>11 DEF OwnHandle
    <3>4. r \notin endedOnes BY <1>2, <1>3 DEF Owned
    <3>5. \A o \in Pids : procs'[o].owner = r => o = run'[r].me.pid
      BY <1>2, <1>3, <1>4, <1>5, <1>8 DEF Owned
    <3>6. QED BY <3>1, <3>2, <3>3, <3>4, <3>5, <1>2, <1>6, <1>8, <1>11 DEF Owned
  <2>3. QED BY <2>1, <2>2, <1>4 DEF Owners
<1>13. /\ \A i \in registered : Server(i)'
       /\ \A d \in Pids : \A i \in dirs[d].files : Server(i)'
       /\ \A i \in registered : \A q : Survives(i, q)' => Survives(i, q)
  BY <1>1, <1>2, BornRecord
<1>14. Record'
  <2>1. Markers'
    <3>1. SUFFICES ASSUME NEW d \in Pids, dirs[d].marker # NoInfo
                   PROVE  /\ dirs[d].marker.pid = d /\ dirs[d].marker.start <= starts'
                          /\ dirs[d].marker.name = "cablecheck"
                          /\ \A q \in Runs : Alive(q)' /\ run'[q].me = dirs[d].marker
                                             => run'[q].pc # "scan"
      BY <1>2 DEF Markers
    <3>2. /\ dirs[d].marker.pid = d /\ dirs[d].marker.start <= starts
          /\ dirs[d].marker.name = "cablecheck"
          /\ \A q \in Runs : Alive(q) /\ run[q].me = dirs[d].marker => run[q].pc # "scan"
      BY <3>1, <1>1 DEF Record, Markers
    <3>3. dirs[d].marker \in Info /\ starts \in Nat BY TableTypes, Types
    <3>4. dirs[d].marker.start \in 1 .. MaxStarts BY <3>1, <3>3, InfoFacts
    <3>5. dirs[d].marker.start <= starts' /\ dirs[d].marker # m
      BY <3>2, <3>3, <3>4, <1>4, <1>5, RegistryAssumption
    <3>6. ASSUME NEW q \in Runs, Alive(q)', run'[q].me = dirs[d].marker
          PROVE  run'[q].pc # "scan"
      <4>1. q # r BY <3>5, <3>6, <1>8
      <4>2. run'[q] = run[q] BY <4>1, <1>8 DEF Moves
      <4>3. QED BY <4>2, <3>2, <3>6 DEF Alive
    <3>7. QED BY <3>2, <3>5, <3>6
  <2>2. \A q \in Runs : \A f \in scan'[q].found : f.owner \in Runs BY <1>1, <1>9 DEF Record
  <2>3. QED BY <2>1, <2>2, <1>2, <1>13 DEF Record
<1>15. ASSUME NEW q \in Runs, NEW i \in registered, Survives(i, q)
       PROVE  q # r /\ run'[q] = run[q] /\ i \in dirs[run[q].me.pid].files
              /\ run[q].me.pid \in Pids
  <2>1. i \in Info /\ i # NoInfo /\ procs[i.pid].owner = q
    BY <1>15 DEF TypeInv, Survives, VerifyOwnership
  <2>2. i.pid \in Pids BY <2>1, InfoFacts
  <2>3. q # r BY <2>1, <2>2, <1>2, <1>3 DEF Owned
  <2>4. run[q].me.pid \in Pids BY <2>1, <2>2, <1>1, DirOwner
  <2>5. QED BY <2>3, <2>4, <1>1, <1>8, <1>15 DEF Moves, Recorded
<1>16. Recorded' BY <1>2, <1>13, <1>15 DEF Recorded
<1>17. Guarded'
  <2>1. SUFFICES ASSUME NEW c \in Runs, NEW q \in Runs, NEW i \in registered,
                        run'[c].pc = "crashed", Survives(i, c), Alive(q)',
                        run'[q].me.pid = run'[c].me.pid
                 PROVE  run'[q].pc = "scan" /\ Tracks(q, i)'
    BY <1>2, <1>13 DEF Guarded
  <2>2. /\ run'[c] = run[c] /\ i \in dirs[run[c].me.pid].files /\ run[c].me.pid \in Pids
    BY <2>1, <1>15
  <2>3. CASE q = r
    <3>1. dirs[run[c].me.pid].made BY <2>2 DEF TypeInv, NoDir
    <3>2. run[c].me.pid \in t BY <3>1, <2>2 DEF t
    <3>3. run'[r].me.pid \in scan'[r].todo BY <3>2, <2>1, <2>2, <2>3, <1>9
    <3>4. QED BY <3>3, <2>3, <1>8 DEF Tracks
  <2>4. CASE q # r
    <3>1. run'[q] = run[q] /\ scan'[q] = scan[q] BY <2>4, <1>8, <1>9 DEF Moves
    <3>2. Alive(q) BY <3>1, <2>1 DEF Alive
    <3>3. run[q].pc = "scan" /\ Tracks(q, i) BY <3>1, <3>2, <2>1, <2>2, <1>1 DEF Guarded
    <3>4. QED BY <3>1, <3>3 DEF Tracks
  <2>5. QED BY <2>3, <2>4
<1>18. QED BY <1>10, <1>12, <1>14, <1>16, <1>17 DEF RegistryInv

-----------------------------------------------------------------------------
(* The invariant and the theorems                                          *)

\* Nobody has started and nothing is on record.
LEMMA RegistryInit ==
  ASSUME Init
  PROVE  TypeInv /\ RegistryInv
<1>1. NoInfo \in Info BY DEF Info
<1>2. Off \in RunState BY <1>1 DEF Off, RunState, Stage
<1>3. 0 \in 0 .. MaxStarts BY RegistryAssumption
<1>4. Free \in ProcState BY <1>3 DEF Free, ProcState
<1>5. NoDir \in DirState BY <1>1 DEF NoDir, DirState
<1>6. NoScan \in ScanState BY DEF NoScan, ScanState
<1>7. TypeInv BY <1>2, <1>3, <1>4, <1>5, <1>6 DEF Init, TypeInv
<1>8. /\ \A p \in Pids : procs[p] = Free /\ dirs[p] = NoDir
      /\ \A r \in Runs : run[r] = Off /\ scan[r] = NoScan /\ ~Alive(r)
      /\ starts = 0 /\ registered = {} /\ endedOnes = {}
  BY DEF Init, Alive, Off
<1>9. /\ Free.start = 0 /\ Free.state = "free" /\ Free.owner = "none" /\ Free.name = "none"
      /\ NoDir.files = {} /\ NoDir.marker = NoInfo /\ NoScan.found = {}
      /\ Off.pc = "off" /\ Off.procs = {} /\ Off.handle = NoInfo /\ Off.goal = "registry"
  BY DEF Free, NoDir, NoScan, Off
<1>10. \A r \in Runs : r # "none" BY RegistryAssumption
<1>11. Table /\ Named BY <1>8, <1>9 DEF Table, Named
<1>12. ASSUME NEW r \in Runs PROVE Owned(r)
  <2>1. \A p \in Pids : procs[p].owner # r BY <1>8, <1>9, <1>10
  <2>2. QED BY <2>1, <1>8, <1>9 DEF Owned
<1>13. Record BY <1>8, <1>9 DEF Record, Markers
<1>14. Recorded /\ Guarded BY <1>8 DEF Recorded, Guarded
<1>15. QED BY <1>7, <1>11, <1>12, <1>13, <1>14 DEF RegistryInv, Owners

\* Every step of a run keeps the invariant.
LEMMA RunStep ==
  ASSUME TypeInv, RegistryInv, NEW r \in Runs, Step(r)
  PROVE  TypeInv' /\ RegistryInv'
<1>1. CASE \E p \in Pids : Launch(r, p) \/ StartServer(r, p) \/ ScanEnter(r, p)
  BY <1>1, LaunchStep, StartServerStep, ScanEnterStep
<1>2. CASE ScanList(r) \/ (\E e \in scan[r].listed : ScanFile(r, e)) \/ ScanLeave(r) \/ ScanDone(r)
  BY <1>2, ScanListStep, ScanFileStep, ScanLeaveStep, ScanDoneStep
<1>3. CASE RenamePidfile(r) /\ r \in dirs[Dir(r)].temps BY <1>3, RegisterStep
<1>4. CASE \/ EnsureDir(r) \/ WriteTemp(r) \/ RenameMarker(r) \/ IdentifyFails(r)
           \/ Ready(r) \/ StopSignal(r) \/ Teardown(r)
           \/ RenamePidfile(r) /\ r \notin dirs[Dir(r)].temps
  <2>1. Owners /\ Record /\ Recorded /\ Guarded BY DEF RegistryInv
  <2>2. /\ TypeInv' /\ Quiet(r) /\ registered' = registered
        /\ \A d \in Pids : dirs'[d].files = dirs[d].files
        /\ \A d \in Pids : dirs'[d].marker = dirs[d].marker
                           \/ (d = run[r].me.pid /\ dirs'[d].marker = run[r].me)
    BY <1>4, <2>1, QuietSteps
  <2>3. Owners' BY <2>1, <2>2, QuietOwners
  <2>4. Record' /\ Recorded' /\ Guarded' BY <2>1, <2>2, QuietRecords
  <2>5. QED BY <2>2, <2>3, <2>4 DEF RegistryInv
<1>5. CASE Stopped(r) BY <1>5, StoppedStep
<1>6. CASE KillAll(r) \/ Crash(r) BY <1>6, KillAllStep, CrashStep
<1>7. QED BY <1>1, <1>2, <1>3, <1>4, <1>5, <1>6 DEF Step

\* The invariant is inductive.
LEMMA RegistryInductive == Spec => [](TypeInv /\ RegistryInv)
<1>1. ASSUME TypeInv, RegistryInv, [Next]_vars PROVE TypeInv' /\ RegistryInv'
  <2>1. CASE UNCHANGED vars
    BY <1>1, <2>1 DEF vars, TypeInv, RegistryInv, Owners, Table, Named, Owned, Alive, Present,
       OwnHandle, Is, Record, Server, Markers, Recorded, Survives, VerifyOwnership, Guarded, Tracks
  <2>2. ASSUME NEW r \in Runs, Step(r) PROVE TypeInv' /\ RegistryInv' BY <1>1, <2>2, RunStep
  <2>3. ASSUME NEW p \in Pids, UserStart(p) \/ Exit(p) \/ Reap(p)
        PROVE  TypeInv' /\ RegistryInv'
    BY <1>1, <2>3, UserStep, GoneStep
  <2>4. QED BY <1>1, <2>1, <2>2, <2>3 DEF Next
<1>2. QED BY <1>1, RegistryInit, PTL DEF Spec

\* Every table of the registry keeps its type; a directory that is not there
\* holds nothing.
THEOREM TypeCorrect == Spec => []TypeOK
<1>1. ASSUME TypeInv PROVE TypeOK
  <2>1. procs \in [Pids -> ProcState] /\ starts \in 0 .. MaxStarts
        /\ dirs \in [Pids -> DirState] /\ \A d \in Pids : ~dirs[d].made => dirs[d] = NoDir
    BY <1>1 DEF TypeInv
  <2>2. \A r \in Runs : /\ run[r].pc \in Stage /\ run[r].me \in Info
                        /\ run[r].handle \in Info /\ run[r].procs \subseteq Info
                        /\ scan[r].listed \subseteq Entry /\ scan[r].todo \subseteq Pids
    BY <1>1, RunTypes
  <2>3. QED BY <2>1, <2>2 DEF TypeOK, ProcState, DirState, Stage
<1>2. QED BY <1>1, RegistryInductive, PTL

\* What a scan reports, and tells the operator to kill, is a server some run
\* started, whatever processes have had its number (VerifyOwnership).
THEOREM OwnReportedCorrect == Spec => []OnlyOwnReported
<1>1. ASSUME RegistryInv PROVE OnlyOwnReported
  BY <1>1 DEF RegistryInv, Record, OnlyOwnReported
<1>2. QED BY <1>1, RegistryInductive, PTL

\* A registered server that outlives its crashed run is on record in a
\* directory no live session shields, even once another run has the crashed
\* one's process number and with it its directory.
THEOREM SurvivorsCorrect == Spec => []SurvivorsRecorded
<1>1. ASSUME TypeInv, RegistryInv PROVE SurvivorsRecorded
  <2>1. SUFFICES ASSUME NEW r \in Runs, run[r].pc = "crashed", NEW i \in registered,
                        VerifyOwnership(i), procs[i.pid].owner = r
                 PROVE  i \in dirs[run[r].me.pid].files /\ ~sessionAlive(run[r].me.pid)
    BY DEF SurvivorsRecorded
  <2>2. Survives(i, r) BY <2>1 DEF Survives
  <2>3. i \in dirs[run[r].me.pid].files BY <1>1, <2>2 DEF RegistryInv, Recorded
  <2>4. QED BY <1>1, <2>1, <2>2, <2>3, NoSession
<1>2. QED BY <1>1, RegistryInductive, PTL

\* A run that came to its own end left no server behind, registered or not:
\* the teardown waits for the one server it can have (ServerHandle.Stop) before
\* KillAll and the removal of the state directory.
THEOREM EndsCleanCorrect == Spec => []EndsClean
<1>1. ASSUME TypeInv, RegistryInv PROVE EndsClean
  <2>1. SUFFICES ASSUME NEW r \in endedOnes, NEW p \in Pids, procs[p].owner = r PROVE FALSE
    BY DEF EndsClean
  <2>2. r \in Runs BY <1>1 DEF TypeInv
  <2>3. Owned(r) BY <1>1, <2>2 DEF RegistryInv, Owners
  <2>4. QED BY <2>1, <2>3 DEF Owned
<1>2. QED BY <1>1, RegistryInductive, PTL
=============================================================================
