--------------------------- MODULE MCForgeRecovery ---------------------------
(***************************************************************************)
(* Instances of ForgeRecovery for TLC.                                      *)
(***************************************************************************)
EXTENDS ForgeRecovery

plain == [handoff |-> TRUE, script |-> TRUE, systemd |-> TRUE, policy |-> TRUE, label |-> "attr",
          transition |-> TRUE, idTools |-> {"setup", "uuidgen"}, target |-> "graphical"]

\* One machine for each way to differ from a plain one.
MCHosts == {plain,
            [plain EXCEPT !.handoff = FALSE],
            [plain EXCEPT !.script = FALSE, !.target = "rescue"],
            [plain EXCEPT !.systemd = FALSE, !.policy = FALSE],
            [plain EXCEPT !.handoff = FALSE, !.idTools = {"uuidgen"}, !.label = "setcon"],
            [plain EXCEPT !.transition = FALSE, !.idTools = {}, !.label = "none"]}
=============================================================================
