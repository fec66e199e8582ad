---------------------------- MODULE ForgeSockets ----------------------------
(***************************************************************************)
(* Socket activation: PID 1 binds the sockets of socket units, keeps them,  *)
(* and hands copies of them to every process of a service, as descriptors   *)
(* 3, 4, ...  Descriptor numbers matter: a new one is the lowest that is    *)
(* free, and what is put at 3, 4, ... may overwrite what is there.          *)
(***************************************************************************)
EXTENDS Naturals, Sequences, SequencesExt

CONSTANTS
  SocketUnits,  \* names of socket units
  Loaded,       \* those of them that are loaded as one (services may list others)
  Listen,       \* the lines of each: paths, and netlink groups
  Netlink,      \* the lines that are netlink groups
  Services,     \* services
  SocketsOf,    \* the socket units of each service, in the order of its unit file
  Procs,        \* pids
  Clients,      \* clients
  ConnectsTo,   \* the paths that each of them connects to
  Sockets,      \* sockets of the kernel, by number: a bound of the model
  MaxFd,        \* the highest descriptor number (RLIMIT_NOFILE)
  MaxOps,       \* bound of the model: waves and starts that are begun
  MaxOther,     \* bound of the model: descriptors that other parts of PID 1 hold
  NoSocket, Other, Reset, NoService

FirstFd == 3   \* SD_LISTEN_FDS_START; 0, 1 and 2 are always taken
Fds == FirstFd..MaxFd
Paths == UNION {Range(Listen[u]) : u \in SocketUnits}

ASSUME SocketAssumption ==
  /\ \A u \in SocketUnits : Listen[u] \in Seq(Paths)
  /\ \A s \in Services : SocketsOf[s] \in Seq(SocketUnits)
  /\ Loaded \subseteq SocketUnits
  /\ MaxFd \in Nat /\ MaxOps \in Nat /\ MaxOther \in Nat /\ Sockets \subseteq Nat
  /\ NoSocket \notin Sockets /\ Other \notin Sockets /\ Reset \notin Sockets
  /\ Other # NoSocket /\ Reset # NoSocket /\ NoService \notin Services

VARIABLES
  unitState,   \* state of each socket unit
  activation,  \* the descriptors of each socket unit, in the order of its paths
  table,       \* the descriptors of PID 1
  address,     \* the socket that each path leads to
  proc,        \* running processes: their service, the descriptors 3, 4, ... that LISTEN_FDS counts,
               \* and the sockets behind any other descriptor
  op,          \* the boot wave or the start that runs under the mutex
  ops,         \* how many were begun
  waiting      \* the socket in whose backlog each client waits

vars == <<unitState, activation, table, address, proc, op, ops, waiting>>

Idle == [step |-> "idle", svc |-> NoService, units |-> <<>>, lines |-> <<>>, new |-> <<>>,
         copies |-> <<>>, sources |-> <<>>]
Down == [svc |-> NoService, got |-> <<>>, leaked |-> {}]
NotWaiting == {NoSocket, Reset}

Ops == [step : {"idle", "bind", "collect", "copy", "wait", "panic"}, svc : Services \cup {NoService},
        units : Seq(SocketUnits), lines : Seq(Paths), new : Seq(Fds), copies : Seq(Fds),
        sources : Seq(Fds)]

Processes == [svc : Services \cup {NoService}, got : Seq(Sockets \cup {NoSocket, Other}),
              leaked : SUBSET Sockets]

TypeOK ==
  /\ unitState \in [SocketUnits -> {"dead", "starting", "listening", "failed"}]
  /\ activation \in [SocketUnits -> Seq(Fds)]
  /\ table \in [Fds -> Sockets \cup {NoSocket, Other}]
  /\ address \in [Paths -> Sockets \cup {NoSocket}]
  /\ proc \in [Procs -> Processes]
  /\ ops \in 0..MaxOps
  /\ op \in Ops
  /\ waiting \in [Clients -> Sockets \cup NotWaiting]

Init ==
  /\ unitState = [u \in SocketUnits |-> "dead"]
  /\ activation = [u \in SocketUnits |-> <<>>]
  /\ table = [f \in Fds |-> NoSocket]
  /\ address = [path \in Paths |-> NoSocket]
  /\ proc = [p \in Procs |-> Down]
  /\ op = Idle /\ ops = 0
  /\ waiting = [c \in Clients |-> NoSocket]

-----------------------------------------------------------------------------
(***************************************************************************)
(* The kernel's part.                                                       *)
(***************************************************************************)
\* A socket lives as long as a process has a descriptor of it.
Held(k) ==
  \/ \E f \in Fds : table[f] = k
  \/ \E p \in Procs : k \in Range(proc[p].got) \cup proc[p].leaked

\* A new socket has a number that nothing refers to; which one does not matter.
Unused == {k \in Sockets : ~ Held(k) /\ k \notin Range(address) /\ k \notin Range(waiting)}
Fresh(k) == k \in Unused /\ \A j \in Unused : k <= j

LowestFree(t, from, f) ==
  f >= from /\ t[f] = NoSocket /\ \A g \in Fds : from <= g /\ g < f => t[g] # NoSocket

Close(fds) == [f \in Fds |-> IF f \in fds THEN NoSocket ELSE table[f]]

\* Clients in the backlog of a socket are reset with its last descriptor.
Resets ==
  LET closed == {k \in Sockets : ~ Held(k)'} IN
  waiting' = [c \in Clients |-> IF waiting[c] \in closed THEN Reset ELSE waiting[c]]

\* A client connects to one of its paths; the connection is refused if nobody holds the socket.
Connect(c, path) ==
  /\ path \in ConnectsTo[c] /\ waiting[c] \in NotWaiting
  /\ address[path] # NoSocket /\ Held(address[path])
  /\ waiting' = [waiting EXCEPT ![c] = address[path]]
  /\ UNCHANGED <<ops, unitState, activation, table, address, proc, op>>

\* A service accepts a connection on one of the sockets it was given.
Accept(c, p) ==
  /\ waiting[c] \in Range(proc[p].got)
  /\ waiting' = [waiting EXCEPT ![c] = NoSocket]
  /\ UNCHANGED <<ops, unitState, activation, table, address, proc, op>>

Exit(p) ==
  /\ proc[p] # Down
  /\ proc' = [proc EXCEPT ![p] = Down]
  /\ UNCHANGED <<ops, unitState, activation, table, address, op>>
  /\ Resets

\* The rest of PID 1, its other threads included, opens and closes descriptors at any time; they are
\* closed on exec.
OtherOpens ==
  /\ Cardinality({f \in Fds : table[f] = Other}) < MaxOther
  /\ \E f \in Fds : LowestFree(table, FirstFd, f) /\ table' = [table EXCEPT ![f] = Other]
  /\ UNCHANGED <<ops, unitState, activation, address, proc, op, waiting>>

OtherCloses ==
  /\ \E f \in Fds : table[f] = Other /\ table' = Close({f})
  /\ UNCHANGED <<ops, unitState, activation, address, proc, op, waiting>>

-----------------------------------------------------------------------------
(***************************************************************************)
(* Activating a socket unit: in a boot wave, or for a service that needs it. *)
(***************************************************************************)
Begin == op = Idle /\ ops < MaxOps /\ ops' = ops + 1

Binding(u, o) == [o EXCEPT !.step = "bind", !.lines = Listen[u], !.new = <<>>]

\* Mutant: the unit is still called listening while its sockets are replaced.
BeginWaveQuietly(u) ==
  /\ Begin /\ u \in Loaded
  /\ op' = Binding(u, [Idle EXCEPT !.units = <<u>>])
  /\ UNCHANGED <<unitState, activation, table, address, proc, waiting>>

\* boot_parallel activates the socket units of a wave, in every boot, whatever state they are in.
BeginWave(u) ==
  /\ Begin /\ u \in Loaded
  /\ unitState' = [unitState EXCEPT ![u] = "starting"]
  /\ op' = Binding(u, [Idle EXCEPT !.units = <<u>>])
  /\ UNCHANGED <<activation, table, address, proc, waiting>>

\* The file at the path is removed and a new socket is bound to it; a netlink socket has no path.
BindLine ==
  /\ op.step = "bind" /\ op.lines # <<>>
  /\ \E f \in Fds, k \in Sockets :
       /\ LowestFree(table, FirstFd, f) /\ Fresh(k)
       /\ table' = [table EXCEPT ![f] = k]
       /\ address' = IF Head(op.lines) \in Netlink THEN address
                      ELSE [address EXCEPT ![Head(op.lines)] = k]
       /\ op' = [op EXCEPT !.lines = Tail(@), !.new = Append(@, f)]
  /\ UNCHANGED <<ops, unitState, activation, proc, waiting>>

\* What a failed operation has opened is closed when its vectors are dropped.
Abandon ==
  /\ op' = Idle
  /\ table' = Close(Range(op.new) \cup Range(op.copies))

\* A line cannot be bound -- its path leads nowhere then, or where it led if not even the old file
\* could be removed -- or there are no lines.  Only a wave sets the unit to Failed.
BindFails ==
  /\ op.step = "bind"
  /\ \/ op.lines # <<>> /\ Head(op.lines) \notin Netlink
        /\ address' = [address EXCEPT ![Head(op.lines)] = NoSocket]
     \/ (op.lines # <<>> \/ op.new = <<>>) /\ UNCHANGED address
  /\ Abandon
  /\ unitState' = IF op.svc = NoService THEN [unitState EXCEPT ![Head(op.units)] = "failed"]
                  ELSE unitState
  /\ UNCHANGED <<ops, activation, proc>>
  /\ Resets

\* All paths are bound: the unit keeps the new sockets and drops those it had.
Listening ==
  LET u == Head(op.units) IN
  /\ op.step = "bind" /\ op.lines = <<>> /\ op.new # <<>>
  /\ activation' = [activation EXCEPT ![u] = op.new]
  /\ table' = Close(Range(activation[u]))
  /\ unitState' = [unitState EXCEPT ![u] = "listening"]
  /\ op' = IF op.svc = NoService THEN Idle ELSE [op EXCEPT !.step = "collect", !.new = <<>>]
  /\ UNCHANGED <<ops, address, proc>>
  /\ Resets

-----------------------------------------------------------------------------
(***************************************************************************)
(* Starting a service: collect_socket_fds, spawn, pre_exec.                 *)
(***************************************************************************)
BeginStart(s) ==
  /\ Begin
  /\ op' = [Idle EXCEPT !.step = "collect", !.svc = s, !.units = SocketsOf[s]]
  /\ UNCHANGED <<unitState, activation, table, address, proc, waiting>>

\* A socket unit that is not listening is activated first.
CollectUnit ==
  LET u == Head(op.units) IN
  /\ op.step = "collect" /\ op.units # <<>> /\ u \in Loaded
  /\ \/ /\ unitState[u] = "listening"
        /\ op' = [op EXCEPT !.step = "copy", !.sources = activation[u]]
        /\ UNCHANGED unitState
     \/ /\ unitState[u] # "listening"
        /\ unitState' = [unitState EXCEPT ![u] = "starting"]
        /\ op' = Binding(u, op)
  /\ UNCHANGED <<ops, activation, table, address, proc, waiting>>

\* The next name is that of no unit, or of one that is not a socket.
CollectFails ==
  /\ op.step = "collect" /\ op.units # <<>> /\ Head(op.units) \notin Loaded
  /\ Abandon
  /\ UNCHANGED <<ops, unitState, activation, address, proc>>
  /\ Resets

\* Mutant: the unit's own descriptors are passed on.
CopyNothing ==
  /\ op.step = "copy" /\ op.sources # <<>>
  /\ op' = [op EXCEPT !.sources = Tail(@), !.copies = Append(@, Head(op.sources))]
  /\ UNCHANGED <<ops, unitState, activation, table, address, proc, waiting>>

CopyFd ==
  /\ op.step = "copy" /\ op.sources # <<>>
  /\ \E f \in Fds :
       /\ LowestFree(table, FirstFd, f)
       /\ table' = [table EXCEPT ![f] = table[Head(op.sources)]]
       /\ op' = [op EXCEPT !.sources = Tail(@), !.copies = Append(@, f)]
  /\ UNCHANGED <<ops, unitState, activation, address, proc, waiting>>

UnitCollected ==
  /\ op.step = "copy" /\ op.sources = <<>>
  /\ op' = [op EXCEPT !.step = "collect", !.units = Tail(@)]
  /\ UNCHANGED <<ops, unitState, activation, table, address, proc, waiting>>

\* The result of dup is not looked at: without a free descriptor PID 1 panics under the mutex.
CopyPanics ==
  /\ op.step = "copy" /\ op.sources # <<>>
  /\ \A f \in Fds : table[f] # NoSocket
  /\ op' = [op EXCEPT !.step = "panic"]
  /\ UNCHANGED <<ops, unitState, activation, table, address, proc, waiting>>

\* The first loop of pre_exec moves a descriptor out of the range that is about to be filled, or
\* finds no free one; the second loop puts the i-th socket at FirstFd + i - 1.
MoveAway(n, child, i) ==
  LET free == {f \in Fds : LowestFree(child.fds, FirstFd + n, f)}
      f == CHOOSE f \in free : TRUE
  IN IF child.src[i] >= FirstFd + n THEN child
     ELSE IF free = {} THEN [child EXCEPT !.ok = FALSE]
     ELSE [fds |-> [child.fds EXCEPT ![f] = child.fds[child.src[i]], ![child.src[i]] = NoSocket],
           src |-> [child.src EXCEPT ![i] = f],
           ok |-> child.ok]

PutInPlace(child, i) ==
  LET target == FirstFd + i - 1 IN
  [child EXCEPT !.fds = [f \in Fds |-> IF f = target THEN child.fds[child.src[i]]
                                       ELSE IF f = child.src[i] THEN NoSocket ELSE child.fds[f]]]

Forked(copies) == [fds |-> table, src |-> copies, ok |-> TRUE]

\* Mutant: the descriptors are put in place at once.
PassStraight(copies) ==
  LET child[i \in 0..Len(copies)] ==
        IF i = 0 THEN Forked(copies) ELSE PutInPlace(child[i - 1], i)
  IN child[Len(copies)]

\* The child after each step of the first loop, after each step of the second, and after pre_exec.
Moved(copies) ==
  LET moved[i \in 0..Len(copies)] ==
        IF i = 0 THEN Forked(copies) ELSE MoveAway(Len(copies), moved[i - 1], i)
  IN moved

Placed(copies) ==
  LET placed[i \in 0..Len(copies)] ==
        IF i = 0 THEN Moved(copies)[Len(copies)] ELSE PutInPlace(placed[i - 1], i)
  IN placed

Pass(copies) == Placed(copies)[Len(copies)]

\* The sockets are created without close-on-exec: a child has all that PID 1 has at its spawn.
\* PID 1 keeps the copies, which the command's closure owns, until start_service returns.
Launch(p) ==
  LET n == Len(op.copies)
      child == Pass(op.copies)
      fds == child.fds
  IN
  /\ op.step = "collect" /\ op.units = <<>> /\ op.svc # NoService /\ proc[p] = Down
  /\ child.ok
  /\ proc' = [proc EXCEPT ![p] =
       [svc |-> op.svc, got |-> [i \in 1..n |-> fds[FirstFd + i - 1]],
        leaked |-> {fds[f] : f \in {f \in Fds : f >= FirstFd + n}} \cap Sockets]]
  /\ op' = [op EXCEPT !.step = "wait"]
  /\ UNCHANGED <<ops, unitState, activation, table, address, waiting>>

\* The process was started, is ready, or has failed to get ready and was killed.
StartReturns ==
  /\ op.step = "wait"
  /\ Abandon
  /\ UNCHANGED <<ops, unitState, activation, address, proc>>
  /\ Resets

\* Mutant: the copies are left open.
LaunchFailsOpen ==
  /\ op.step = "collect" /\ op.units = <<>>
  /\ op' = Idle
  /\ UNCHANGED <<ops, unitState, activation, table, address, proc, waiting>>

\* The log, the command, the notify socket, the spawn or pre_exec fails.
LaunchFails ==
  /\ op.step = "collect" /\ op.units = <<>>
  /\ Abandon
  /\ UNCHANGED <<ops, unitState, activation, address, proc>>
  /\ Resets

Next ==
  \/ \E c \in Clients : (\E path \in Paths : Connect(c, path)) \/ (\E p \in Procs : Accept(c, p))
  \/ \E p \in Procs : Exit(p) \/ Launch(p)
  \/ OtherOpens \/ OtherCloses
  \/ \E u \in SocketUnits : BeginWave(u)
  \/ BindLine \/ BindFails \/ Listening
  \/ \E s \in Services : BeginStart(s)
  \/ CollectUnit \/ CollectFails \/ CopyFd \/ CopyPanics \/ UnitCollected
  \/ LaunchFails \/ StartReturns

Spec == Init /\ [][Next]_vars

-----------------------------------------------------------------------------
(***************************************************************************)
(* Correctness.                                                             *)
(***************************************************************************)
SocketsOfUnit(u) == {table[f] : f \in Range(activation[u])}

\* The i-th line of unit u is a path, and the only line that names it.
Sole(u, i) ==
  /\ Listen[u][i] \notin Netlink
  /\ \A v \in SocketUnits : \A j \in DOMAIN Listen[v] :
    Listen[v][j] = Listen[u][i] => v = u /\ j = i

\* A unit shown as listening can be reached at all its paths: whatever was activated again, failed
\* half-way or was replaced, it holds a socket for each of its lines, and the path leads to it
\* (activate_socket_unit; a path that two lines name leads to the one that was bound last).
Reachable(u) ==
  /\ Len(activation[u]) = Len(Listen[u])
  /\ \A i \in DOMAIN Listen[u] :
       /\ table[activation[u][i]] \in Sockets
       /\ Sole(u, i) => table[activation[u][i]] = address[Listen[u][i]]

ListeningIsReachable == \A u \in SocketUnits : unitState[u] = "listening" => Reachable(u)

\* The lines of a service's units in the order in which its process has to find them.
LinesOf(u) == [i \in DOMAIN Listen[u] |-> <<u, i>>]
LinesOfService(s) == [i \in DOMAIN SocketsOf[s] |-> LinesOf(SocketsOf[s][i])]

\* Whatever numbers its copies have in PID 1, a process gets the sockets of its units in their
\* order, and they are those that clients reach at that moment (collect_socket_fds, pre_exec).
HandedInOrder ==
  [][\A p \in Procs : proc[p] = Down /\ proc'[p] # Down =>
       LET lines == FlattenSeq(LinesOfService(op.svc)) IN
       /\ Len(proc'[p].got) = Len(lines)
       /\ \A n \in DOMAIN lines :
            LET u == lines[n][1]
                i == lines[n][2]
            IN /\ unitState[u] = "listening"
               /\ proc'[p].got[n] = table[activation[u][i]]
               /\ Sole(u, i) => proc'[p].got[n] = address[Listen[u][i]]]_vars

\* Between operations PID 1 holds the sockets of its units and no other: no path of a failed
\* activation or start, nor of a successful one, leaves a descriptor behind.
NoDescriptorLeak ==
  op = Idle =>
    {f \in Fds : table[f] \in Sockets} = UNION {Range(activation[u]) : u \in SocketUnits}

\* What socket activation is for: a client that waits at a listening unit is not reset by an exit, a
\* failed start or a restart of the service.
ConnectionsSurvive ==
  [][\A c \in Clients, u \in SocketUnits :
       unitState[u] = "listening" /\ waiting[c] \in SocketsOfUnit(u) => waiting'[c] # Reset]_vars

-----------------------------------------------------------------------------
(***************************************************************************)
(* The inductive invariant.                                                 *)
(***************************************************************************)
\* Who owns the descriptors of sockets: a unit, the vector of a bind, or the vector of copies.
UnitFds == UNION {Range(activation[u]) : u \in SocketUnits}
Owned == UnitFds \cup Range(op.new) \cup Range(op.copies)

OwnerInv ==
  /\ {f \in Fds : table[f] \in Sockets} = Owned
  /\ \A u, v \in SocketUnits : u # v => Range(activation[u]) \cap Range(activation[v]) = {}
  /\ UnitFds \cap (Range(op.new) \cup Range(op.copies)) = {}
  /\ Range(op.new) \cap Range(op.copies) = {}
  /\ \A i, j \in DOMAIN op.copies : op.copies[i] = op.copies[j] => i = j

\* A wave only binds.
WaveInv == op.svc = NoService => op.step \in {"idle", "bind"} /\ op.copies = <<>>

\* How far a bind is: the first lines have new sockets, and lead there.
BindInv ==
  IF op.step # "bind" THEN op.new = <<>>
  ELSE LET u == Head(op.units) IN
       /\ op.units # <<>> /\ unitState[u] = "starting"
       /\ Len(op.new) + Len(op.lines) = Len(Listen[u])
       /\ \A i \in DOMAIN op.lines : op.lines[i] = Listen[u][Len(op.new) + i]
       /\ \A i \in DOMAIN op.new : Sole(u, i) => table[op.new[i]] = address[Listen[u][i]]

\* The lines of the first m units of a service.
LinesUpTo(s) ==
  LET upTo[m \in 0..Len(SocketsOf[s])] ==
        IF m = 0 THEN <<>> ELSE upTo[m - 1] \o LinesOf(SocketsOf[s][m])
  IN upTo

\* How far a start is: the units that are done are listening, their sockets have been copied in
\* order, and so have the first sockets of the unit that is being copied.
CollectInv ==
  LET units == SocketsOf[op.svc]
      done == Len(units) - Len(op.units)
      lines == LinesUpTo(op.svc)[done]
      u == Head(op.units)
      extra == IF op.step = "copy" THEN Len(activation[u]) - Len(op.sources) ELSE 0
  IN op.svc # NoService /\ op.step \notin {"wait", "panic"} =>
       /\ done \in Nat /\ \A i \in DOMAIN op.units : op.units[i] = units[done + i]
       /\ \A i \in 1..done : unitState[units[i]] = "listening"
       /\ op.step = "copy" =>
            /\ op.units # <<>> /\ unitState[u] = "listening" /\ extra \in Nat
            /\ \A i \in DOMAIN op.sources : op.sources[i] = activation[u][extra + i]
       /\ Len(op.copies) = Len(lines) + extra
       /\ \A n \in 1..Len(lines) :
            table[op.copies[n]] = table[activation[lines[n][1]][lines[n][2]]]
       /\ \A i \in 1..extra : table[op.copies[Len(lines) + i]] = table[activation[u][i]]

IInv == TypeOK /\ OwnerInv /\ WaveInv /\ BindInv /\ CollectInv /\ ListeningIsReachable
=============================================================================
