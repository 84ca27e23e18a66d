--------------------------- MODULE MCValidation ---------------------------
(* Small instances of Validation for TLC.                                  *)
EXTENDS Validation, TLC

Fresh ==
    [sshd |-> TRUE, chain |-> "loose", launcher |-> "none", ca |-> "none",
     dropIn |-> "none", include |-> TRUE, principals |-> "none",
     account |-> "none", payload |-> "none", current |-> 0, config |-> "none",
     configOwn |-> FALSE, configDir |-> FALSE, unit |-> "none",
     override |-> FALSE, service |-> FALSE, loaded |-> "none"]

Installed ==
    [Fresh EXCEPT !.chain = "strict", !.launcher = "strict", !.ca = "ours",
        !.dropIn = "ours", !.principals = "granted", !.account = "ok",
        !.payload = "agent", !.current = 1, !.config = "old",
        !.configOwn = TRUE, !.configDir = TRUE, !.unit = "ours",
        !.override = TRUE, !.service = TRUE, !.loaded = "ours"]

\* An installation of an earlier release, one that drifted since, and hosts
\* that an installation cannot fully repair.
SomeHosts ==
    { [Fresh EXCEPT !.config = "new"],
      [Fresh EXCEPT !.chain = "foreign", !.config = "new"],
      [Fresh EXCEPT !.sshd = FALSE, !.config = "new"],
      Installed,
      [Installed EXCEPT !.launcher = "loose", !.ca = "other", !.dropIn = "other",
          !.loaded = "other", !.unit = "otherExe", !.principals = "root"],
      [Installed EXCEPT !.payload = "loose", !.unit = "otherUser",
          !.config = "torn", !.configOwn = FALSE, !.service = FALSE],
      [Fresh EXCEPT !.include = FALSE, !.account = "group"],
      [Installed EXCEPT !.include = FALSE, !.principals = "acl",
          !.account = "headless", !.service = FALSE] }

Request(check, safety) ==
    [check |-> check, safety |-> safety, allow |-> TRUE, force |-> FALSE]

\* The documented invocations.
Documented ==
    { Request("doctor", "inspect"),
      Request("bounded-fixture", "bounded"),
      Request("install-smoke", "privileged"),
      [Request("install-smoke", "privileged") EXCEPT !.allow = FALSE],
      Request("reboot-survival", "disruptive"),
      [Request("reboot-survival", "disruptive") EXCEPT !.force = TRUE],
      Request("agent-install", "privileged") }

Symmetry == Permutations(Installers)
=============================================================================
