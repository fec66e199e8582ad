--------------------------- MODULE MCForgeSockets ---------------------------
(***************************************************************************)
(* Instances of ForgeSockets for TLC.                                       *)
(***************************************************************************)
EXTENDS ForgeSockets

\* A path and a netlink group, as udev has them, and a path; a third name is no socket unit.
MCListen == [udev |-> <<"control", "kernel">>, dbus |-> <<"bus">>, stray |-> <<>>]
MCSocketsOf == [broker |-> <<"dbus", "udev">>, udevd |-> <<"udev">>, lost |-> <<"dbus", "udev", "dbus", "stray">>]
MCConnectsTo == [client |-> {"control", "bus"}]
=============================================================================
