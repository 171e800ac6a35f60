------------------------------- MODULE Config -------------------------------
(***************************************************************************)
(* pkg/config/model.go as the connector and the hub use it: what happens   *)
(* to a configuration between the dashboard, the file and the running      *)
(* agent.                                                                  *)
(*                                                                         *)
(* A configuration is its body (the monitors' settings, a model value) and *)
(* the four parts that some step rewrites:                                 *)
(*   lists    "nil" when a list of the payload was null; DeepEqual tells a *)
(*            nil list from an empty one, YAML does not                    *)
(*   chains   "all", or "cut" when the Docker chain was dropped for a run  *)
(*   exporter the exporter section is the one the installation was given   *)
(*   own      the whitelist holds the addresses of this machine            *)
(***************************************************************************)
CONSTANTS
    Bodies,         \* settings
    BadBodies,      \* the settings that do not decode or that Validate refuses
    DockerBodies,   \* the settings with a monitor of engine docker
    FirstBody,      \* the settings of the installed configuration
    NullPayloads,   \* whether the dashboard sends null for an empty list
    Torn            \* a file that SaveConfig truncated and did not get to write

ASSUME ConfigAssumption ==
    /\ BadBodies \subseteq Bodies
    /\ DockerBodies \subseteq Bodies
    /\ FirstBody \in Bodies \ BadBodies
    /\ NullPayloads \subseteq BOOLEAN

Config == [body : Bodies, lists : {"nil", "set"}, chains : {"all", "cut"},
           exporter : BOOLEAN, own : BOOLEAN]

(* An empty file is no configuration. *)
ASSUME TornAssumption == Torn \notin Config

(* config.New(): the defaults, with no exporter and an empty whitelist. *)
Default == [body |-> FirstBody, lists |-> "set", chains |-> "all",
            exporter |-> FALSE, own |-> FALSE]

(* The file of an installed agent after its first run. *)
Installed == [Default EXCEPT !.exporter = TRUE, !.own = TRUE]

(* What the dashboard sends: it knows neither the exporter nor the host. *)
Payload == [body : Bodies, null : NullPayloads]

(* SaveConfig writes a nil list as [], which is read back as an empty list. *)
Stored(c) == [c EXCEPT !.lists = "set"]

(* LoadConfig and LoadConfigReadOnly; an empty file leaves the defaults. *)
Loaded(f) == IF f = Torn THEN Default ELSE f

(* banpool.New drops the Docker chain from the configuration it is given. *)
FilterDockerChains(c) ==
    IF c.body \in DockerBodies THEN c ELSE [c EXCEPT !.chains = "cut"]

(* Seeded fault: the dashboard's whitelist is taken as it is. *)
KeepNoLocalIps(c, known) == c

(* keepLocalIps; when the interfaces cannot be listed the list is left as it is. *)
KeepLocalIps(c, known) == [c EXCEPT !.own = @ \/ known]

(***************************************************************************)
(* applyConfig up to Validate: the payload over config.New(), with the     *)
(* running configuration's exporter and this machine's addresses.          *)
(***************************************************************************)
Incoming(p, running, known) ==
    KeepLocalIps([body |-> p.body, lists |-> IF p.null THEN "nil" ELSE "set",
                  chains |-> "all", exporter |-> running.exporter, own |-> FALSE], known)

(* Validate finds no problem.  What it finds on this machine at this moment (a log *)
(* file that os.Stat does not see) is a failure of the step that calls it.         *)
Validate(c) == c.body \notin BadBodies
=============================================================================
