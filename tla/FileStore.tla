----------------------------- MODULE FileStore -----------------------------
(***************************************************************************)
(* What the callers of fs/chaosfs.c may rely on: a store of files that      *)
(* serves one request at a time on a machine that can lose power.  A reply  *)
(* of success means that the file is on the disk as requested, and nothing  *)
(* but a request for that very file changes it afterwards.                  *)
(***************************************************************************)
CONSTANTS
  Paths,      \* the files
  Values,     \* what can be asked for
  Absent,     \* ... and the value that asks for the file to be deleted
  NoRequest   \* there is no request to answer

VARIABLES
  files,      \* what is on the disk for each path
  asked,      \* the request being served, or NoRequest
  unsure,     \* the paths nothing is promised about
  torn        \* the paths that were unsure when the power went

vars == << files, asked, unsure, torn >>

OnlyUnsureChange == \A p \in Paths \ unsure : files'[p] = files[p]

Init ==
  /\ files = [p \in Paths |-> Absent]
  /\ asked = NoRequest
  /\ unsure = {}
  /\ torn = {}

Ask(p, v) ==
  /\ asked = NoRequest
  /\ asked' = [path |-> p, value |-> v]
  /\ unsure' = unsure \cup {p}
  /\ UNCHANGED << files, torn >>

Work ==
  /\ asked # NoRequest
  /\ OnlyUnsureChange
  /\ UNCHANGED << asked, unsure, torn >>

(* Once a power loss has caught a request for a path, a later delete of it  *)
(* promises nothing.                                                        *)
Reply ==
  /\ asked # NoRequest
  /\ asked' = NoRequest
  /\ OnlyUnsureChange
  /\ IF asked.value = Absent /\ asked.path \in torn
       THEN UNCHANGED unsure
       ELSE /\ files'[asked.path] = asked.value
            /\ unsure' = unsure \ {asked.path}
  /\ UNCHANGED torn

Fail ==
  /\ asked # NoRequest
  /\ asked' = NoRequest
  /\ UNCHANGED << files, unsure, torn >>

PowerLoss ==
  /\ asked' = NoRequest
  /\ torn' = torn \cup unsure
  /\ UNCHANGED << files, unsure >>

Next ==
  \/ \E p \in Paths, v \in Values : Ask(p, v)
  \/ Work
  \/ Reply
  \/ Fail
  \/ PowerLoss

Spec == Init /\ [][Next]_vars
=============================================================================
