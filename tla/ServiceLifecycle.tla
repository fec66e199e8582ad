---------------------------- MODULE ServiceLifecycle ----------------------------
(***************************************************************************)
(* What the supervisor of the Forge promises of each service unit: its      *)
(* status changes when a process of its own is started, becomes ready, is   *)
(* signalled, has its exit status collected, or when one of its starts      *)
(* fails -- and never for a stranger's sake, although pids are recycled.    *)
(* There is no mutex, no index, no signalfd, no reactor and no queue: the   *)
(* units are independent.                                                   *)
(*                                                                         *)
(* A unit can be started while it has a process; then it has two, and the   *)
(* exit of either is taken for the end of the unit.                         *)
(***************************************************************************)
CONSTANTS Services, Pids, NoService, NoPid

VARIABLES
  status,    \* of each unit
  process,   \* the process each unit is known by, or NoPid
  owner,     \* for each pid the unit whose process has it, or NoService
  fate       \* for each pid free, live, or how its process has exited

vars == <<status, process, owner, fate>>

OwnProcess(s) == process[s] # NoPid /\ owner[process[s]] = s

Init ==
  /\ status = [s \in Services |-> "Dead"] /\ process = [s \in Services |-> NoPid]
  /\ owner = [p \in Pids |-> NoService] /\ fate = [p \in Pids |-> "free"]

Spawn(s, p) ==
  /\ owner[p] = NoService
  /\ owner' = [owner EXCEPT ![p] = s] /\ fate' = [fate EXCEPT ![p] = "live"]
  /\ process' = [process EXCEPT ![s] = p]
  /\ \E now \in {"Starting", "Running"} : status' = [status EXCEPT ![s] = now]

\* Nothing is spawned; a process the unit may have is left alone.
Refuse(s) ==
  /\ \E now \in {"Starting", "Failed"} : status' = [status EXCEPT ![s] = now]
  /\ UNCHANGED <<process, owner, fate>>

Ready(s) ==
  /\ status[s] = "Starting" /\ OwnProcess(s)
  /\ status' = [status EXCEPT ![s] = "Running"]
  /\ UNCHANGED <<process, owner, fate>>

Signal(S) ==
  /\ \A s \in S : OwnProcess(s)
  /\ status' = [s \in Services |-> IF s \in S THEN "Stopping" ELSE status[s]]
  /\ UNCHANGED <<process, owner, fate>>

Exit(p) ==
  /\ fate[p] = "live"
  /\ \E how \in {"clean", "failed"} : fate' = [fate EXCEPT ![p] = how]
  /\ UNCHANGED <<status, process, owner>>

Gone(p) ==
  owner' = [owner EXCEPT ![p] = NoService] /\ fate' = [fate EXCEPT ![p] = "free"]

\* The unit gets the exit status of a process of its own.
Collect(s, p) ==
  /\ owner[p] = s /\ fate[p] \in {"clean", "failed"}
  /\ Gone(p)
  /\ process' = [process EXCEPT ![s] = NoPid]
  /\ status' = [status EXCEPT ![s] = IF fate[p] = "failed" THEN "Failed" ELSE "Dead"]

\* The exit status of a process that is still starting is lost.
Miss(s) ==
  /\ status[s] = "Starting" /\ OwnProcess(s) /\ fate[process[s]] # "live"
  /\ Gone(process[s])
  /\ UNCHANGED <<status, process>>

\* Time is up, or the process has exited: it is killed and collected.
GiveUp(s) ==
  /\ status[s] = "Starting" /\ OwnProcess(s)
  /\ Gone(process[s])
  /\ process' = [process EXCEPT ![s] = NoPid]
  /\ \E now \in {"Starting", "Failed"} : status' = [status EXCEPT ![s] = now]

\* The exit status was missed; a process that was given the pid since may answer for it.
Vanish(s) ==
  /\ status[s] = "Starting" /\ process[s] # NoPid /\ owner[process[s]] = NoService
  /\ process' = [process EXCEPT ![s] = NoPid]
  /\ \E now \in {"Starting", "Failed", "Dead"} : status' = [status EXCEPT ![s] = now]
  /\ UNCHANGED <<owner, fate>>

Next ==
  \/ \E s \in Services :
       \/ \E p \in Pids : Spawn(s, p) \/ Collect(s, p)
       \/ Refuse(s) \/ Ready(s) \/ Miss(s) \/ GiveUp(s) \/ Vanish(s)
  \/ \E S \in SUBSET Services : Signal(S)
  \/ \E p \in Pids : Exit(p)

Spec == Init /\ [][Next]_vars
=============================================================================
