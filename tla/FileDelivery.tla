---------------------------- MODULE FileDelivery ----------------------------
(***************************************************************************)
(* What the report transfer promises, without chunks, acks or retries.     *)
(* The coordinator declares the content of its report files; a file that   *)
(* appears at the worker has exactly the declared content and is never     *)
(* replaced; the coordinator concludes "ok" only when the worker has the   *)
(* whole set; a local note takes the place of the summary only if the      *)
(* summary did not arrive.                                                 *)
(***************************************************************************)
EXTENDS Naturals

CONSTANTS NumFiles, Content, Absent, Fallback

File == 1..NumFiles

VARIABLES
  declared,  \* declared content of each file
  stored,    \* the worker's report directory
  verdict    \* how the coordinator's side of the transfer ended

vars == <<declared, stored, verdict>>

Init ==
  /\ declared = [k \in File |-> Absent]
  /\ stored = [k \in File |-> Absent]
  /\ verdict = "open"

\* The contents become known one file after the other, before any arrives.
Declare(k) ==
  /\ verdict = "open" /\ declared[k] = Absent
  /\ \A j \in File : stored[j] \in {Absent, Fallback}
  /\ \E c \in Content : declared' = [declared EXCEPT ![k] = c]
  /\ UNCHANGED <<stored, verdict>>

\* A file arrives complete and intact, after the files before it.
Store(k) ==
  /\ stored[k] = Absent /\ declared[k] # Absent
  /\ \A j \in 1..(k - 1) : stored[j] = declared[j]
  /\ stored' = [stored EXCEPT ![k] = declared[k]]
  /\ UNCHANGED <<declared, verdict>>

\* The worker's own note, in place of a summary that did not arrive.
Note ==
  /\ stored[NumFiles] = Absent
  /\ stored' = [stored EXCEPT ![NumFiles] = Fallback]
  /\ UNCHANGED <<declared, verdict>>

Conclude(v) ==
  /\ verdict = "open"
  /\ v = "ok" => \A k \in File : stored[k] = declared[k]
  /\ verdict' = v
  /\ UNCHANGED <<declared, stored>>

Next ==
  \/ \E k \in File : Declare(k) \/ Store(k)
  \/ Note
  \/ \E v \in {"ok", "declined", "failed"} : Conclude(v)

Spec == Init /\ [][Next]_vars
=============================================================================
