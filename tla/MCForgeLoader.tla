---------------------------- MODULE MCForgeLoader ----------------------------
(***************************************************************************)
(* Instances of ForgeLoader for TLC: three Forge files, a systemd file and a *)
(* file in each of the two directories of the installed system.             *)
(***************************************************************************)
EXTENDS ForgeLoader

MCDirOf == [f \in 1..6 |-> CASE f <= 3 -> "forge" [] f = 4 -> "systemd" [] f = 5 -> "usr" [] f = 6 -> "etc"]

File(name, kind, state) ==
  [name |-> name, kind |-> kind, state |-> state,
   provides |-> {}, before |-> {}, after |-> {}, dropin |-> {}]

\* Two files may define net, both with virtual names; db has to start before another unit, which
\* may be a service, a target or missing.
ForgeFiles ==
  { [File("net", "service", "good") EXCEPT !.provides = {"lan"}],
    [File("net", "service", "good") EXCEPT !.provides = {"lan", "wan"}, !.before = {"lan"}],
    [File("db", "service", "good") EXCEPT !.provides = {"wan"}, !.before = {"web"}],
    [File("db", "service", "invalid") EXCEPT !.before = {"web"}],
    [File("web", "service", "good") EXCEPT !.after = {"net"}, !.dropin = {"db"}],
    [File("web", "socket", "good") EXCEPT !.after = {"net"}],
    File("web", "target", "good"),
    File("net", "service", "unparsable") }

SystemdFiles ==
  { [File("web", "service", "good") EXCEPT !.after = {"net"}],
    [File("net", "service", "good") EXCEPT !.after = {"db"}, !.dropin = {"web"}],
    File("db", "service", "unparsable") }

MCTrees ==
  {t \in [1..6 -> ForgeFiles \cup SystemdFiles] :
     \A f \in 1..6 : t[f] \in IF f <= 3 THEN ForgeFiles ELSE SystemdFiles}
=============================================================================
