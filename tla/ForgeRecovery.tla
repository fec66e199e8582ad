---------------------------- MODULE ForgeRecovery ----------------------------
(***************************************************************************)
(* Boot protection of the Forge, over any number of power cycles: the       *)
(* early file systems and the SELinux domain of PID 1, the attempt counter  *)
(* on disk, the chain of fallback targets, the verdict on the boot, the     *)
(* delayed handoff to systemd and the panic hook.  Power may be lost        *)
(* between any two steps, and inside the writes that are not atomic.        *)
(***************************************************************************)
EXTENDS Integers, Sequences

CONSTANTS
  Hosts,            \* machines: what is installed and how it is configured
  MaxBootAttempts,  \* MAX_BOOT_ATTEMPTS
  CounterMax,       \* largest value of the counter (u32::MAX), where it saturates
  Ids               \* machine ids that a generator may come up with

(* A machine: FORGE_RECOVERY_HANDOFF is set; forge-boot-disable and systemd  *)
(* are installed; there is a SELinux policy, a way to name and enter init_t  *)
(* ("setcon" the tool, "attr" with matchpathcon), and a domain transition    *)
(* when forge-core is executed; the tools that make machine ids; the default. *)
Host == [handoff: BOOLEAN, script: BOOLEAN, systemd: BOOLEAN, policy: BOOLEAN,
         label: {"setcon", "attr", "none"}, transition: BOOLEAN,
         idTools: SUBSET {"setup", "uuidgen"}, target: {"graphical", "multi-user", "rescue"}]

ASSUME RecoveryAssumption ==
  /\ Hosts \subseteq Host
  /\ MaxBootAttempts \in Nat /\ CounterMax \in Nat /\ MaxBootAttempts < CounterMax
  /\ Ids \cap {"none", "empty", "link"} = {}

VARIABLES
  host,      \* the machine
  \* on disk
  attempts,  \* boot-attempts: a number, or Torn
  grub,      \* what the boot loader starts as PID 1: "forge" or "systemd"
  etcId,     \* /etc/machine-id
  dbusId,    \* /var/lib/dbus/machine-id
  \* in memory, since the last power-on
  pc,        \* where PID 1 is
  rootRw,    \* the root file system is writable
  mounted,   \* of /proc and /run, those that are mounted
  layout,    \* what was prepared for the services
  domain,    \* SELinux domain of PID 1
  bus,       \* the system bus: none, left by the initramfs, or the Forge's own
  socket,    \* /run/dbus/system_bus_socket exists
  counting,  \* the local attempts of init_pid1_recovery
  chain,     \* targets that are still to be tried
  bootOk,    \* /run/forge/boot-ok exists
  armed,     \* the handoff thread sleeps (HANDOFF_REQUESTED)
  login,     \* an emergency getty was started
  \* history
  failed,    \* boots in a row that were recorded as attempts and did not succeed
  counted,   \* this boot was recorded as an attempt
  gaveUp     \* why PID 1 gave up in this power cycle

disk == <<attempts, grub, etcId, dbusId>>
early == <<rootRw, mounted, layout, domain, bus, socket>>
late == <<counting, chain, bootOk, armed, login, gaveUp>>
history == <<failed, counted>>
vars == <<host, disk, pc, early, late, history>>

Torn == -1

\* What services rely on: directories in /run, /tmp and /var, device nodes, cgroup2.
Facilities == {"runtime", "console", "cgroup"}

Targets == {"graphical", "multi-user", "rescue"}

\* The stages before and after the panic hook is installed.
Unhooked == {"mount", "policy", "domain", "reexec", "layout", "copyId", "fillId", "devices",
             "count"}
Hooked == {"write", "limit", "boot", "judge", "mark", "running", "handoff"}

FlagTypes ==
  /\ rootRw \in BOOLEAN /\ socket \in BOOLEAN /\ counted \in BOOLEAN
  /\ bootOk \in BOOLEAN /\ armed \in BOOLEAN /\ login \in BOOLEAN

DataTypes ==
  /\ host \in Hosts
  /\ attempts \in 0..CounterMax \cup {Torn} /\ counting \in 0..CounterMax
  /\ failed \in 0..CounterMax
  /\ grub \in {"forge", "systemd"}
  /\ etcId \in Ids \cup {"none", "link"} /\ dbusId \in Ids \cup {"none", "empty"}
  /\ pc \in Unhooked \cup Hooked \cup {"off", "systemd", "emergency"}
  /\ mounted \subseteq {"proc", "run"} /\ layout \subseteq Facilities
  /\ domain \in {"kernel", "init"} /\ bus \in {"none", "stale", "own"}
  /\ chain \in Seq(Targets)
  /\ gaveUp \in {"no", "limit", "delay", "panic"}

TypeOK == DataTypes /\ FlagTypes

-----------------------------------------------------------------------------
(***************************************************************************)
(* Power.                                                                  *)
(***************************************************************************)
Init ==
  /\ host \in Hosts
  /\ attempts = 0 /\ grub = "forge"
  /\ etcId = "none" /\ dbusId \in Ids \cup {"none"}
  /\ pc = "off"
  /\ rootRw = FALSE /\ mounted = {} /\ layout = {} /\ domain = "kernel"
  /\ bus = "none" /\ socket = FALSE /\ counting = 0 /\ chain = <<>>
  /\ bootOk = FALSE /\ armed = FALSE /\ login = FALSE /\ gaveUp = "no" /\ counted = FALSE
  /\ failed = 0

\* The boot loader starts PID 1; an initramfs may have left daemons and their socket.
PowerOn ==
  /\ pc = "off"
  /\ pc' = IF grub = "forge" THEN "mount" ELSE "systemd"
  /\ \/ UNCHANGED <<bus, socket>>
     \/ grub = "forge" /\ bus' = "stale" /\ socket' = TRUE
  /\ UNCHANGED <<host, disk, rootRw, mounted, layout, domain, late, history>>

Succ(n) == IF n = CounterMax THEN n ELSE n + 1   \* saturating_add(1)

\* Power is lost, or the machine is reset or rebooted: memory is gone, the disk stays.
PowerLoss ==
  /\ pc # "off"
  /\ pc' = "off"
  /\ rootRw' = FALSE /\ mounted' = {} /\ layout' = {} /\ domain' = "kernel"
  /\ bus' = "none" /\ socket' = FALSE /\ counting' = 0 /\ chain' = <<>>
  /\ bootOk' = FALSE /\ armed' = FALSE /\ login' = FALSE /\ gaveUp' = "no" /\ counted' = FALSE
  /\ failed' = IF attempts = Torn THEN 0 ELSE IF counted THEN Succ(failed) ELSE failed
  /\ UNCHANGED <<host, disk>>

\* forge-boot-enable, run by an administrator under systemd.
EnableForge ==
  /\ pc = "systemd" /\ grub = "systemd"
  /\ grub' = "forge"
  /\ UNCHANGED <<host, attempts, etcId, dbusId, pc, early, late, history>>

-----------------------------------------------------------------------------
(***************************************************************************)
(* mount_essential_filesystems: mounts, SELinux, and the layout for        *)
(* services.                                                               *)
(***************************************************************************)
\* Remounting / read-write and every mount may fail, and the boot goes on.  A tmpfs mounted on
\* /run hides what was there, also what the execution before a re-execution had put there.
MountFilesystems ==
  /\ pc = "mount"
  /\ pc' = "policy"
  /\ rootRw' \in {rootRw, TRUE}
  /\ \E new \in SUBSET {"proc", "run"} :
       /\ mounted' = mounted \cup new
       /\ layout' = layout \ (IF "run" \in new THEN {"runtime"} ELSE {})
       /\ socket' = (socket /\ "run" \notin new)
  /\ UNCHANGED <<host, disk, domain, bus, late, history>>

\* ensure_selinux_policy: /sys/fs/selinux may be missing, and load_policy may fail, twice.
LoadPolicy ==
  /\ pc = "policy"
  /\ \/ host.policy /\ pc' = "domain"
     \/ pc' = "layout"
  /\ UNCHANGED <<host, disk, early, late, history>>

\* transition_to_init_domain: the domain is already another one, or cannot be read ...
NoTransition ==
  /\ pc = "domain" /\ (domain = "init" \/ "proc" \notin mounted)
  /\ pc' = "layout"
  /\ UNCHANGED <<host, disk, early, late, history>>

\* ... or setcon is run, which moves its own process only, or the kernel lets PID 1 move, or
\* it takes init_t for the next program PID 1 executes ...
Transition ==
  /\ pc = "domain" /\ domain = "kernel" /\ "proc" \in mounted
  /\ host.label # "none"
  /\ domain' \in IF host.label = "setcon" THEN {"kernel"} ELSE {"kernel", "init"}
  /\ pc' = "layout"
  /\ UNCHANGED <<host, disk, rootRw, mounted, layout, bus, socket, late, history>>

\* ... or there is no label, or it is refused.
TransitionFails ==
  /\ pc = "domain" /\ domain = "kernel" /\ "proc" \in mounted
  /\ pc' = "reexec"
  /\ UNCHANGED <<host, disk, early, late, history>>

\* check_and_reexec_selinux: PID 1 executes itself again and starts over.
ReExec ==
  /\ pc = "reexec"
  /\ pc' = "mount"
  /\ domain' = IF host.transition THEN "init" ELSE "kernel"
  /\ UNCHANGED <<host, disk, rootRw, mounted, layout, bus, socket, late, history>>

ReExecFails ==
  /\ pc = "reexec"
  /\ pc' = "layout"
  /\ UNCHANGED <<host, disk, early, late, history>>

\* Directories can be made in a tmpfs or on a writable root.
Writable == rootRw \/ "run" \in mounted

DbusIdExists == dbusId # "none"
EtcIdExists == etcId # "none" /\ (etcId = "link" => DbusIdExists)
FreshIds == Ids \ {etcId, dbusId}

\* setup_runtime_directories, and the first half of ensure_machine_id: a link to the id of
\* D-Bus, or a new id.
SetUpLayout ==
  /\ pc = "layout"
  /\ pc' = "copyId"
  /\ layout' = layout \cup (IF Writable THEN {"runtime"} ELSE {})
  /\ etcId' \in IF EtcIdExists \/ ~rootRw THEN {etcId}
                ELSE IF DbusIdExists THEN {"link"}
                ELSE IF host.idTools = {} THEN {etcId} ELSE FreshIds
  /\ UNCHANGED <<host, attempts, grub, dbusId, rootRw, mounted, domain, bus, socket,
                 late, history>>

\* Mutant: the copy for D-Bus is left to early_boot.
CopyIdNever ==
  /\ pc = "copyId" /\ pc' = "devices"
  /\ UNCHANGED <<host, disk, early, late, history>>

\* The second half copies /etc/machine-id for D-Bus: the file is created, then filled.
CopyId ==
  /\ pc = "copyId"
  /\ IF rootRw /\ EtcIdExists /\ ~DbusIdExists
     THEN dbusId' = "empty" /\ pc' = "fillId"
     ELSE UNCHANGED dbusId /\ pc' = "devices"
  /\ UNCHANGED <<host, attempts, grub, etcId, early, late, history>>

FillId ==
  /\ pc = "fillId"
  /\ dbusId' = etcId /\ pc' = "devices"
  /\ UNCHANGED <<host, attempts, grub, etcId, early, late, history>>

\* Mutant: the daemons of the initramfs are not killed.
SetUpDevicesOnly ==
  /\ pc = "devices"
  /\ pc' = "count"
  /\ layout' = layout \cup {"console"}
  /\ UNCHANGED <<host, disk, rootRw, mounted, domain, bus, socket, late, history>>

\* Modules, kill_stale_initramfs_daemons, ensure_console_devices, and a cgroup2 mount that may fail.
SetUpDevices ==
  /\ pc = "devices"
  /\ pc' = "count"
  /\ bus' = "none"
  /\ \E new \in SUBSET {"cgroup"} : layout' = layout \cup {"console"} \cup new
  /\ UNCHANGED <<host, disk, rootRw, mounted, domain, socket, late, history>>

-----------------------------------------------------------------------------
(***************************************************************************)
(* init_pid1_recovery: the counter is read, rewritten in place, and judged. *)
(***************************************************************************)
\* The file is truncated first; an empty file, as any that cannot be parsed, reads as 0.
CountAttempt ==
  /\ pc = "count"
  /\ counting' = Succ(IF attempts = Torn THEN 0 ELSE attempts)
  /\ IF rootRw THEN attempts' = Torn /\ pc' = "write" ELSE UNCHANGED attempts /\ pc' = "limit"
  /\ UNCHANGED <<host, grub, etcId, dbusId, early, chain, bootOk, armed, login, gaveUp, history>>

WriteAttempt ==
  /\ pc = "write"
  /\ attempts' = counting /\ counted' = TRUE
  /\ pc' = "limit"
  /\ UNCHANGED <<host, grub, etcId, dbusId, early, late, failed>>

\* The target, then the fallbacks that it is not.
Chain(target) ==
  CASE target = "graphical" -> <<"graphical", "multi-user", "rescue">>
    [] target = "multi-user" -> <<"multi-user", "rescue">>
    [] target = "rescue" -> <<"rescue", "multi-user">>

DisableForge == grub' = IF host.script THEN "systemd" ELSE grub

\* Mutant: one boot is given away.
TooManyEarly == counting >= MaxBootAttempts

TooMany == counting > MaxBootAttempts

\* Too many attempts: hand over, or (the handoff is off) boot the rescue target.
OverLimit ==
  /\ pc = "limit" /\ TooMany
  /\ IF host.handoff
     THEN /\ pc' = "handoff" /\ gaveUp' = "limit"
          /\ DisableForge
          /\ UNCHANGED chain
     ELSE /\ pc' = "boot" /\ chain' = Chain("rescue")
          /\ UNCHANGED <<grub, gaveUp>>
  /\ UNCHANGED <<host, attempts, etcId, dbusId, early, counting, bootOk, armed, login, history>>

UnderLimit ==
  /\ pc = "limit" /\ ~TooMany
  /\ pc' = "boot" /\ chain' = Chain(host.target)
  /\ UNCHANGED <<host, disk, early, counting, bootOk, armed, login, gaveUp, history>>

-----------------------------------------------------------------------------
(***************************************************************************)
(* The boot, its verdict, and what follows.                                 *)
(***************************************************************************)
\* early_boot::run, when forge-early is among the services of the target: it kills the daemons
\* once more, the bus that an earlier target of the chain started included.
EarlyBoot ==
  /\ bus' = "none" /\ socket' = FALSE
  /\ layout' = layout \cup {"console"} \cup (IF Writable THEN {"runtime"} ELSE {})
  /\ dbusId' \in IF rootRw /\ "uuidgen" \in host.idTools /\ dbusId = "none" THEN FreshIds
                ELSE {dbusId}

\* The bus is started or not, and leaves its socket behind when it ends.
StartBus ==
  /\ UNCHANGED <<layout, dbusId>>
  /\ \/ bus' = "own" /\ socket' = TRUE
     \/ bus' = "none" /\ UNCHANGED socket

\* A target is being booted.
BootStep ==
  /\ pc = "boot"
  /\ EarlyBoot \/ StartBus
  /\ UNCHANGED <<host, attempts, grub, etcId, pc, rootRw, mounted, domain, late, history>>

\* It was reached, or the last resort (rescue once more, whatever comes of it) is over.
BootEnds ==
  /\ pc = "boot"
  /\ pc' = "judge"
  /\ UNCHANGED <<host, disk, early, late, history>>

\* It failed: the next one of the chain, in the end the last resort.
TargetFails ==
  /\ pc = "boot" /\ chain # <<>>
  /\ chain' = Tail(chain)
  /\ UNCHANGED <<host, disk, pc, early, counting, bootOk, armed, login, gaveUp, history>>

\* boot_health_signals: the bus runs or its socket exists; the rest is up to the services.
DbusOk == bus = "own" \/ socket

Health(dbusOk, gettyOk, criticalFailed) ==
  IF dbusOk /\ ~criticalFailed THEN "healthy" ELSE IF gettyOk THEN "degraded" ELSE "failed"

\* post_boot_recovery of a boot that is healthy or degraded.
BootSucceeds ==
  /\ pc = "judge"
  /\ \E gettyOk, criticalFailed \in BOOLEAN : Health(DbusOk, gettyOk, criticalFailed) # "failed"
  /\ pc' = "mark"
  /\ attempts' = IF rootRw THEN Torn ELSE attempts
  /\ UNCHANGED <<host, grub, etcId, dbusId, early, late, history>>

\* mark_boot_success: the counter is 0 as soon as its file is truncated.
MarkSuccess ==
  /\ pc = "mark"
  /\ pc' = "running"
  /\ attempts' = IF rootRw THEN 0 ELSE attempts
  /\ bootOk' = TRUE
  /\ failed' = IF rootRw THEN 0 ELSE failed
  /\ counted' = FALSE
  /\ UNCHANGED <<host, grub, etcId, dbusId, early, counting, chain, armed, login, gaveUp>>

\* Mutant: the emergency login is left to the handoff.
BootFailsSilently ==
  /\ pc = "judge"
  /\ \E gettyOk, criticalFailed \in BOOLEAN : Health(DbusOk, gettyOk, criticalFailed) = "failed"
  /\ pc' = "running"
  /\ armed' = host.handoff
  /\ UNCHANGED <<host, disk, early, counting, chain, bootOk, login, gaveUp, history>>

\* post_boot_recovery of a boot that failed.
BootFails ==
  /\ pc = "judge"
  /\ \E gettyOk, criticalFailed \in BOOLEAN : Health(DbusOk, gettyOk, criticalFailed) = "failed"
  /\ pc' = "running"
  /\ login' = TRUE /\ armed' = host.handoff
  /\ UNCHANGED <<host, disk, early, counting, chain, bootOk, gaveUp, history>>

\* The machine runs: the bus comes and goes.
BusChanges ==
  /\ pc = "running"
  /\ StartBus
  /\ UNCHANGED <<host, attempts, grub, etcId, pc, rootRw, mounted, domain, late, history>>

\* HANDOFF_DELAY has passed.
DelayPasses ==
  /\ pc = "running" /\ armed
  /\ armed' = FALSE
  /\ IF bootOk THEN UNCHANGED <<pc, gaveUp>> ELSE pc' = "handoff" /\ gaveUp' = "delay"
  /\ UNCHANGED <<host, disk, early, counting, chain, bootOk, login, history>>

\* handoff_to_systemd with the handoff enabled: systemd replaces PID 1, or nothing is left but
\* the emergency login.
HandOff ==
  /\ pc = "handoff"
  /\ DisableForge
  /\ \/ host.systemd /\ pc' = "systemd" /\ UNCHANGED login
     \/ pc' = "emergency" /\ login' = TRUE
  /\ UNCHANGED <<host, attempts, etcId, dbusId, early, counting, chain, bootOk, armed, gaveUp,
                 history>>

\* install_panic_hook: a thread panics.  The loader entry goes in any case.
Panic ==
  /\ pc \in Hooked \ {"handoff"}
  /\ DisableForge
  /\ IF host.handoff
     THEN pc' = "handoff" /\ gaveUp' = "panic" /\ UNCHANGED login
     ELSE pc' = "emergency" /\ login' = TRUE /\ UNCHANGED gaveUp
  /\ UNCHANGED <<host, attempts, etcId, dbusId, early, counting, chain, bootOk, armed, history>>

-----------------------------------------------------------------------------
\* What PID 1 does by itself once it was started.
ReExecution == ReExec \/ ReExecFails
EarlySteps ==
  MountFilesystems \/ LoadPolicy \/ NoTransition \/ Transition \/ TransitionFails \/ ReExecution
    \/ SetUpLayout \/ CopyId \/ FillId \/ SetUpDevices
CountSteps == CountAttempt \/ WriteAttempt \/ OverLimit \/ UnderLimit
VerdictSteps == TargetFails \/ BootEnds \/ BootSucceeds \/ MarkSuccess \/ BootFails
HandoffSteps == DelayPasses \/ HandOff

Next ==
  \/ PowerOn \/ PowerLoss \/ EnableForge
  \/ EarlySteps \/ CountSteps \/ BootStep \/ VerdictSteps \/ BusChanges \/ HandoffSteps \/ Panic

Spec == Init /\ [][Next]_vars

(* PID 1 keeps running, a boot ends (every wait of it has a timeout), and the *)
(* handoff thread wakes up.  Nothing is assumed of power, panics, the bus.    *)
Fairness ==
  /\ WF_vars(EarlySteps) /\ WF_vars(CountSteps)
  /\ WF_vars(BootEnds) /\ WF_vars(BootSucceeds \/ BootFails) /\ WF_vars(MarkSuccess)
  /\ WF_vars(HandoffSteps)

FairSpec == Spec /\ Fairness

-----------------------------------------------------------------------------
(***************************************************************************)
(* What the boot protection promises.                                       *)
(***************************************************************************)
\* At the limit the Forge gives up its target, for systemd or for rescue, exactly when
\* MaxBootAttempts boots in a row were recorded and did not succeed: not later, whatever the
\* power did between them, and not earlier (init_pid1_recovery, mark_boot_success).
LimitIsExact ==
  [][pc = "limit" =>
       /\ pc' = "boot" /\ failed >= MaxBootAttempts => ~host.handoff /\ chain' = Chain("rescue")
       /\ pc' = "boot" /\ failed < MaxBootAttempts => chain' = Chain(host.target)
       /\ pc' = "handoff" /\ gaveUp' = "limit" => failed >= MaxBootAttempts]_vars

\* When services are started, what they rely on has been set up after the last mount that would
\* hide it, however often PID 1 executed itself again, and no daemon of the initramfs is left
\* (mount_essential_filesystems, check_and_reexec_selinux).
ServicesFindTheirLayout ==
  pc \in {"boot", "judge", "mark", "running"} =>
    /\ "console" \in layout
    /\ Writable => "runtime" \in layout
    /\ bus # "stale"

\* D-Bus and /etc never hold two different machine ids: vfs.rs and early_boot.rs generate ids
\* with different tools into different files, and power may be lost between their steps.
MachineIdsAgree == etcId \in Ids /\ dbusId \in Ids => etcId = dbusId

\* The counter on disk is the history of the boots: the inductive form of LimitIsExact.
CounterInv ==
  /\ attempts # Torn => attempts = IF counted THEN Succ(failed) ELSE failed
  /\ pc \in Unhooked \cup {"off"} => ~counted /\ (attempts = Torn => failed = 0)
  /\ pc \in {"write", "limit"} => counting = Succ(failed)
  /\ pc = "write" => attempts = Torn /\ rootRw
  /\ counted => rootRw

\* Where the layout is complete, and where daemons of the initramfs may still be.
LayoutInv ==
  /\ bus = "stale" => pc \in Unhooked \ {"count"}
  /\ pc \in {"copyId", "fillId", "devices", "count"} \cup Hooked =>
       (Writable => "runtime" \in layout)
  /\ pc \in {"count"} \cup Hooked => "console" \in layout

\* Once the copy was made, D-Bus has an id whenever /etc has one.
IdInv ==
  /\ MachineIdsAgree
  /\ pc = "fillId" => etcId \in Ids /\ dbusId = "empty"
  /\ pc \in {"devices", "count"} \cup Hooked /\ rootRw /\ etcId \in Ids => dbusId # "none"

IInv == TypeOK /\ CounterInv /\ LayoutInv /\ IdInv

\* Every power-on comes to a result: a successful boot, an emergency login that stays, systemd,
\* or power is lost.  A failed boot is not left without login or handoff.
Settled ==
  \/ pc \in {"off", "systemd"}
  \/ pc = "running" /\ (bootOk \/ (login /\ ~armed))
  \/ pc = "emergency" /\ login
BootSettles == pc = "mount" /\ (host.policy => host.transition) ~> Settled
=============================================================================
