----------------------------- MODULE Integrations -----------------------------
(***************************************************************************)
(* The state mappings of ump.integrations.  Each adapter turns documents   *)
(* of its standard into a RobotState and a RobotState into a document.     *)
(* Robots and fleets are connected through several of them in a row: one   *)
(* system exports what it knows, the next one takes the document in.  Of a *)
(* state its mode, safety and health are kept; identity, task, battery and *)
(* pose are carried over unchanged or left out.                            *)
(***************************************************************************)
EXTENDS Naturals

CONSTANT MaxHops  \* bound on the mappings in a row

ASSUME IntegrationsAssumption == MaxHops \in Nat

Modes     == {"starting", "idle", "working", "waiting", "paused", "faulted", "offline"}
Safeties  == {"normal", "protective_stop", "emergency_stop", "recovery_required", "unknown"}
Healths   == {"healthy", "degraded", "faulted", "unknown"}
Standards == {"vda5050", "massrobotics", "open_rmf", "opc_ua"}
States    == [mode : Modes, safety : Safeties, health : Healths]

VARIABLES
    shown,   \* the state the last adapter of the chain has stored
    source,  \* history: the state the chain began with
    passed,  \* history: the standards it has passed since
    hops     \* history: how many mappings, for the bound

integrationVars == <<shown, source, passed, hops>>

-----------------------------------------------------------------------------
(* Mutant: a protective stop is left to the receiver's own field monitors. *)
VdaExportNoField(s) ==
    [operatingMode |-> IF s.mode = "working" THEN "AUTOMATIC" ELSE "SEMIAUTOMATIC",
     eStop |-> IF s.safety = "emergency_stop" THEN "MANUAL" ELSE "NONE",
     fieldViolation |-> FALSE,
     errors |-> s.health # "healthy"]

(* Vda5050Adapter.                                                         *)
VdaExport(s) ==
    [operatingMode |-> IF s.mode = "working" THEN "AUTOMATIC" ELSE "SEMIAUTOMATIC",
     eStop |-> IF s.safety = "emergency_stop" THEN "MANUAL" ELSE "NONE",
     fieldViolation |-> s.safety = "protective_stop",
     errors |-> s.health # "healthy"]

VdaMode(m) == CASE m = "AUTOMATIC" -> "working"
                [] m \in {"SERVICE", "TEACHIN"} -> "paused"
                [] OTHER -> "waiting"

VdaIngest(d) ==
    [mode   |-> IF d.errors THEN "faulted" ELSE VdaMode(d.operatingMode),
     safety |-> CASE d.eStop # "NONE" -> "emergency_stop"
                  [] d.eStop = "NONE" /\ d.fieldViolation -> "protective_stop"
                  [] OTHER -> "normal",
     health |-> IF d.errors THEN "faulted" ELSE "healthy"]

(* MassRoboticsAdapter: the export has no errors and no safety.            *)
MassExport(s) == [operationalState |-> s.mode, errors |-> FALSE]

MassStatus(x) == CASE x \in {"working", "active", "moving"} -> "working"
                   [] x \in {"idle", "available"} -> "idle"
                   [] x \in {"offline", "unavailable"} -> "offline"
                   [] x \in {"faulted", "error"} -> "faulted"
                   [] OTHER -> "waiting"

MassIngest(d) == [mode   |-> MassStatus(d.operationalState),
                  safety |-> "unknown",
                  health |-> IF d.errors THEN "faulted" ELSE "healthy"]

(* OpenRmfAdapter: the export has no issues and no safety.                 *)
RmfExport(s) == [mode |-> s.mode, issues |-> FALSE]

RmfIngest(d) == [mode   |-> IF d.mode \in {"moving", "working", "charging"}
                            THEN "working" ELSE "idle",
                 safety |-> "unknown",
                 health |-> IF d.issues THEN "degraded" ELSE "healthy"]

(* OpcUaRoboticsAdapter: the export has the safety state, but it is not    *)
(* one of the nodes that are taken in.                                     *)
OpcExport(s) == [OperatingMode |-> s.mode, Health |-> s.health, Safety |-> s.safety]

OpcIngest(d) == [mode   |-> IF d.OperatingMode \in Modes THEN d.OperatingMode ELSE "waiting",
                 safety |-> "unknown",
                 health |-> CASE d.Health \in {"healthy", "normal"} -> "healthy"
                              [] d.Health \in {"degraded", "faulted"} -> d.Health
                              [] OTHER -> "unknown"]

Relayed(standard, s) ==
    CASE standard = "vda5050"      -> VdaIngest(VdaExport(s))
      [] standard = "massrobotics" -> MassIngest(MassExport(s))
      [] standard = "open_rmf"     -> RmfIngest(RmfExport(s))
      [] standard = "opc_ua"       -> OpcIngest(OpcExport(s))

-----------------------------------------------------------------------------
IntegrationsInit ==
    /\ source \in States
    /\ shown = source
    /\ passed = {}
    /\ hops = 0

(* One system exports its state and the next stores what it makes of it.   *)
Relay(standard) ==
    /\ hops < MaxHops
    /\ hops' = hops + 1
    /\ shown' = Relayed(standard, shown)
    /\ passed' = passed \cup {standard}
    /\ UNCHANGED source

(* A document of a native VDA 5050 robot; what it leaves out reads as "",  *)
(* NONE or FALSE.                                                          *)
NativeDocument ==
    /\ hops < MaxHops
    /\ hops' = hops + 1
    /\ \E d \in [operatingMode : {"AUTOMATIC", "SEMIAUTOMATIC", "SERVICE", "TEACHIN", ""},
                 eStop : {"MANUAL", "AUTOACK", "NONE"}, fieldViolation : BOOLEAN,
                 errors : BOOLEAN] : shown' = VdaIngest(d)
    /\ source' = shown'
    /\ passed' = {}

(* Ros2SemanticBridge checks protocol and identity of the document, and    *)
(* answers with the state of its own adapter: the chain begins anew.       *)
Ros2Ingest ==
    /\ hops < MaxHops
    /\ hops' = hops + 1
    /\ shown' \in States
    /\ source' = shown'
    /\ passed' = {}

IntegrationsNext ==
    \/ NativeDocument \/ Ros2Ingest
    \/ \E standard \in Standards : Relay(standard)

IntegrationsSpec == IntegrationsInit /\ [][IntegrationsNext]_integrationVars

-----------------------------------------------------------------------------
Stops == {"protective_stop", "emergency_stop"}

(* What a chain of gateways shows is honest about stops and faults as far  *)
(* as the standards can say it: no stop is invented, none is lost between  *)
(* VDA 5050 systems, and no fault reads as healthy where every standard on *)
(* the way reports health.                                                 *)
StopsAndFaultsSurvive ==
    /\ shown.safety \in Stops => shown.safety = source.safety
    /\ source.safety \in Stops /\ passed \subseteq {"vda5050"} => shown.safety = source.safety
    /\ source.health # "healthy" /\ passed \subseteq {"vda5050", "opc_ua"}
          => shown.health # "healthy"
=============================================================================
