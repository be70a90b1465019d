----------------------------- MODULE ToolsProofs -----------------------------
(***************************************************************************)
(* Theorems about the three components that share nothing with the rest or *)
(* with each other: plan validation, for plans of any size and shape; the  *)
(* standards mappings, for chains of any length; and the backup tool, for  *)
(* any operators, databases, writes, failures and damage.                  *)
(***************************************************************************)
EXTENDS PlanValidation, Integrations, Backup, TLAPS

-----------------------------------------------------------------------------
(* Standards mappings.                                                     *)

(* What each standard makes of a state: the three vocabularies are kept,   *)
(* and of stops and faults what its documents can say.                     *)
LEMMA VdaKeeps ==
    ASSUME NEW s \in States
    PROVE  /\ Relayed("vda5050", s) \in States
           /\ s.safety \in Stops => Relayed("vda5050", s).safety = s.safety
           /\ Relayed("vda5050", s).safety \in Stops => Relayed("vda5050", s).safety = s.safety
           /\ s.health # "healthy" => Relayed("vda5050", s).health # "healthy"
<1> DEFINE d == VdaExport(s)
<1>1. /\ d.operatingMode \in {"AUTOMATIC", "SEMIAUTOMATIC"}
      /\ d.eStop = IF s.safety = "emergency_stop" THEN "MANUAL" ELSE "NONE"
      /\ d.fieldViolation <=> s.safety = "protective_stop"
      /\ d.errors <=> s.health # "healthy"
  BY DEF VdaExport
<1>2. Relayed("vda5050", s) = VdaIngest(d)
  BY DEF Relayed
<1>3. VdaMode(d.operatingMode) \in Modes
  BY DEF VdaMode, Modes
<1> HIDE DEF d
<1>4. VdaIngest(d).mode \in Modes
  BY <1>3 DEF VdaIngest, Modes
<1>5. VdaIngest(d).health = IF s.health # "healthy" THEN "faulted" ELSE "healthy"
  BY <1>1 DEF VdaIngest
<1>6. VdaIngest(d).safety = CASE s.safety = "emergency_stop" -> "emergency_stop"
                              [] s.safety = "protective_stop" -> "protective_stop"
                              [] OTHER -> "normal"
  BY <1>1 DEF VdaIngest
<1>7. VdaIngest(d) = [mode |-> VdaIngest(d).mode, safety |-> VdaIngest(d).safety,
                      health |-> VdaIngest(d).health]
  BY DEF VdaIngest
<1>8. VdaIngest(d).safety \in Safeties /\ VdaIngest(d).health \in Healths
  BY <1>5, <1>6 DEF Safeties, Healths
<1>9. VdaIngest(d) \in States
  BY <1>4, <1>7, <1>8 DEF States
<1> QED BY <1>2, <1>5, <1>6, <1>9 DEF Stops

(* A way over OPC UA turns no fault into health and invents no stop.       *)
LEMMA OpcKeeps ==
    ASSUME NEW s \in States
    PROVE  /\ Relayed("opc_ua", s) \in States
           /\ Relayed("opc_ua", s).safety \notin Stops
           /\ s.health # "healthy" => Relayed("opc_ua", s).health # "healthy"
BY DEF Relayed, OpcIngest, OpcExport, States, Modes, Safeties, Healths, Stops

(* The two standards without health invent no stop.                        *)
LEMMA OthersKeep ==
    ASSUME NEW s \in States, NEW standard \in {"massrobotics", "open_rmf"}
    PROVE  Relayed(standard, s) \in States /\ Relayed(standard, s).safety \notin Stops
BY DEF Relayed, MassIngest, MassExport, MassStatus, RmfIngest, RmfExport,
       States, Modes, Safeties, Healths, Stops

RelayInv == shown \in States /\ StopsAndFaultsSurvive

(* Whatever chain of gateways a state passes, and in whatever order, no    *)
(* stop is invented, VDA 5050 systems lose none among themselves, and a    *)
(* fault is healthy nowhere on a way whose standards report health.        *)
THEOREM ChainsAreHonest == IntegrationsSpec => []StopsAndFaultsSurvive
<1>1. IntegrationsInit => RelayInv
  BY DEF IntegrationsInit, RelayInv, StopsAndFaultsSurvive
<1>2. RelayInv /\ [IntegrationsNext]_integrationVars => RelayInv'
  <2> SUFFICES ASSUME RelayInv, [IntegrationsNext]_integrationVars PROVE RelayInv'
    OBVIOUS
  <2>1. CASE NativeDocument
    <3>1. PICK d \in [operatingMode : {"AUTOMATIC", "SEMIAUTOMATIC", "SERVICE", "TEACHIN", ""},
                      eStop : {"MANUAL", "AUTOACK", "NONE"}, fieldViolation : BOOLEAN,
                      errors : BOOLEAN] : shown' = VdaIngest(d)
      BY <2>1 DEF NativeDocument
    <3>2. VdaIngest(d) \in States
      <4>1. VdaMode(d.operatingMode) \in Modes
        BY DEF VdaMode, Modes
      <4> QED BY <4>1 DEF VdaIngest, States, Modes, Safeties, Healths
    <3> QED BY <2>1, <3>1, <3>2 DEF NativeDocument, RelayInv, StopsAndFaultsSurvive
  <2>r. CASE Ros2Ingest
    BY <2>r DEF Ros2Ingest, RelayInv, StopsAndFaultsSurvive
  <2>2. ASSUME NEW standard \in Standards, Relay(standard) PROVE RelayInv'
    <3>1. /\ shown' = Relayed(standard, shown) /\ source' = source
          /\ passed' = passed \cup {standard} /\ shown \in States
      BY <2>2 DEF Relay, RelayInv
    <3>2. CASE standard = "vda5050"
      <4>1. /\ shown' \in States
            /\ shown.safety \in Stops => shown'.safety = shown.safety
            /\ shown'.safety \in Stops => shown'.safety = shown.safety
            /\ shown.health # "healthy" => shown'.health # "healthy"
        BY <3>1, <3>2, VdaKeeps
      <4> QED BY <3>1, <3>2, <4>1 DEF RelayInv, StopsAndFaultsSurvive
    <3>3. CASE standard = "opc_ua"
      <4>1. /\ shown' \in States /\ shown'.safety \notin Stops
            /\ shown.health # "healthy" => shown'.health # "healthy"
        BY <3>1, <3>3, OpcKeeps
      <4> QED BY <3>1, <3>3, <4>1 DEF RelayInv, StopsAndFaultsSurvive
    <3>4. CASE standard \in {"massrobotics", "open_rmf"}
      <4>1. shown' \in States /\ shown'.safety \notin Stops
        BY <3>1, <3>4, OthersKeep
      <4> QED BY <3>1, <3>4, <4>1 DEF RelayInv, StopsAndFaultsSurvive
    <3> QED BY <3>2, <3>3, <3>4 DEF Standards
  <2>3. CASE UNCHANGED integrationVars
    BY <2>3 DEF integrationVars, RelayInv, StopsAndFaultsSurvive
  <2> QED BY <2>1, <2>r, <2>2, <2>3 DEF IntegrationsNext
<1> QED BY <1>1, <1>2, PTL DEF IntegrationsSpec, RelayInv

-----------------------------------------------------------------------------
(* Plan validation.                                                        *)

DepSet(s) == ToSet(DependsOn(plan, s))

(* What a frame of the search has to visit: the loop over the graph every  *)
(* step, a visit the dependencies of its step.                             *)
Below(k) == IF k = 1 THEN StepIds(plan) ELSE DepSet(calls[k].id)

(* Steps whose dependencies are among them; steps of which every part has  *)
(* one that depends on none of that part, so that they contain no cycle;   *)
(* and steps each of which waits for another of them.                      *)
Closed(V) == \A x \in V : DepSet(x) \subseteq V
Grounded(V) == \A T \in SUBSET V : T # {} => \E x \in T : DepSet(x) \cap T = {}
Stuck(T) ==
    /\ T # {} /\ T \subseteq StepIds(plan)
    /\ \A x \in T : DepSet(x) \cap T # {}

PlanIsSound ==
    /\ plan \in Seq(ToSet(plan))
    /\ StepsAreUnique(plan)
    /\ \A i \in DOMAIN plan : /\ plan[i].deps \in Seq(ToSet(plan[i].deps))
                             /\ ToSet(plan[i].deps) \subseteq StepIds(plan)

(* The calls in progress are a path of dependencies without a repetition,  *)
(* and what a frame has to visit was visited, is being visited by the next *)
(* frame, or is still on its list.                                         *)
Frames == [id : StepIds(plan) \cup {NoStep}, todo : Seq(StepIds(plan))]
PathInv ==
    /\ visiting = {calls[k].id : k \in 2..Len(calls)}
    /\ visiting \subseteq StepIds(plan)
    /\ \A j, k \in 2..Len(calls) : calls[j].id = calls[k].id => j = k
    /\ \A k \in 1..Len(calls) - 1 : calls[k + 1].id \in Below(k)
ListsInv ==
    \A k \in 1..Len(calls) :
       /\ ToSet(calls[k].todo) \subseteq Below(k)
       /\ \A s \in Below(k) :
             s \in visited \cup ToSet(calls[k].todo) \/ (k < Len(calls) /\ s = calls[k + 1].id)
VisitedInv ==
    /\ visited \subseteq StepIds(plan)
    /\ visiting \cap visited = {}
    /\ Closed(visited) /\ Grounded(visited)
SearchInv ==
    /\ calls \in Seq(Frames) /\ calls # <<>>
    /\ PathInv /\ ListsInv /\ VisitedInv

PlanInv ==
    /\ done \subseteq StepIds(plan)
    /\ verdict \in {"none", "searching", "accepted", "cycle", "refused"}
    /\ verdict \in {"none", "searching", "refused"} => done = {}
    /\ verdict = "none" => visiting = {} /\ visited = {}
    /\ verdict \in {"searching", "accepted", "cycle"} => PlanIsSound
    /\ verdict = "searching" => SearchInv
    /\ verdict = "accepted" => Grounded(StepIds(plan))
    /\ verdict = "cycle" => \E T \in SUBSET StepIds(plan) : Stuck(T) /\ T \cap done = {}

(* Identifiers are unique, so a step's dependencies are those it names.    *)
LEMMA DependsIs ==
    ASSUME PlanIsSound, NEW i \in DOMAIN plan
    PROVE  DependsOn(plan, plan[i].id) = plan[i].deps
<1>1. \A j \in DOMAIN plan : plan[j].id = plan[i].id => j = i
  BY DEF PlanIsSound, StepsAreUnique
<1>2. (CHOOSE j \in DOMAIN plan : plan[j].id = plan[i].id) = i
  BY <1>1
<1> QED BY <1>2 DEF DependsOn

(* The dependencies of a step of a sound plan are steps of it.             *)
LEMMA DependsTypes ==
    ASSUME PlanIsSound, NEW s \in StepIds(plan)
    PROVE  DependsOn(plan, s) \in Seq(StepIds(plan)) /\ DepSet(s) \subseteq StepIds(plan)
<1>1. PICK i \in DOMAIN plan : s = plan[i].id
  BY DEF StepIds
<1>2. DependsOn(plan, s) = plan[i].deps
  BY <1>1, DependsIs
<1>3. plan[i].deps \in Seq(ToSet(plan[i].deps)) /\ ToSet(plan[i].deps) \subseteq StepIds(plan)
  BY DEF PlanIsSound
<1> HIDE DEF StepIds
<1>4. plan[i].deps \in Seq(StepIds(plan))
  BY <1>3
<1> QED BY <1>2, <1>3, <1>4 DEF DepSet

(* A visit that returns adds a step whose dependencies are all visited.    *)
LEMMA GroundedGrows ==
    ASSUME NEW V, NEW s, Closed(V), Grounded(V), s \notin V, DepSet(s) \subseteq V
    PROVE  Closed(V \cup {s}) /\ Grounded(V \cup {s})
<1>1. Closed(V \cup {s})
  BY DEF Closed
<1>2. ASSUME NEW T \in SUBSET (V \cup {s}), T # {}
      PROVE  \E x \in T : DepSet(x) \cap T = {}
  <2>1. CASE T \cap V = {}
    <3>1. T = {s}
      BY <1>2, <2>1
    <3> QED BY <3>1
  <2>2. CASE T \cap V # {}
    <3>1. PICK x \in T \cap V : DepSet(x) \cap (T \cap V) = {}
      BY <2>2 DEF Grounded
    <3>2. DepSet(x) \subseteq V
      BY DEF Closed
    <3> QED BY <3>1, <3>2
  <2> QED BY <2>1, <2>2
<1> QED BY <1>1, <1>2 DEF Grounded

(* The list of a frame, and what is left of it.                            *)
LEMMA ListParts ==
    ASSUME NEW S, NEW l \in Seq(S), l # <<>>
    PROVE  /\ Head(l) \in S /\ Tail(l) \in Seq(S)
           /\ Head(l) \in ToSet(l) /\ ToSet(Tail(l)) \subseteq ToSet(l)
           /\ \A x \in ToSet(l) : x = Head(l) \/ x \in ToSet(Tail(l))
<1>1. Head(l) = l[1] /\ 1 \in DOMAIN l /\ Head(l) \in S /\ Tail(l) \in Seq(S)
  OBVIOUS
<1>2. \A i \in DOMAIN Tail(l) : i + 1 \in DOMAIN l /\ Tail(l)[i] = l[i + 1]
  OBVIOUS
<1>3. \A i \in DOMAIN l : i # 1 => i - 1 \in DOMAIN Tail(l) /\ Tail(l)[i - 1] = l[i]
  OBVIOUS
<1>4. Head(l) \in ToSet(l)
  BY <1>1 DEF ToSet
<1>5. ToSet(Tail(l)) \subseteq ToSet(l)
  BY <1>2 DEF ToSet
<1>6. ASSUME NEW x \in ToSet(l) PROVE x = Head(l) \/ x \in ToSet(Tail(l))
  <2>1. PICK i \in DOMAIN l : x = l[i]
    BY DEF ToSet
  <2>2. CASE i = 1
    BY <1>1, <2>1, <2>2
  <2>3. CASE i # 1
    BY <1>3, <2>1, <2>3 DEF ToSet
  <2> QED BY <2>2, <2>3
<1> QED BY <1>1, <1>4, <1>5, <1>6

(* The search between two steps, where a call is made.                     *)
LEMMA CallIs ==
    ASSUME PlanIsSound, SearchInv, Calling
    PROVE  /\ Len(calls) \in Nat \ {0} /\ Top \in Frames
           /\ Callee \in StepIds(plan) /\ Callee \in Below(Len(calls))
           /\ Advanced \in Seq(Frames) /\ Len(Advanced) = Len(calls)
           /\ \A k \in 1..Len(calls) :
                 /\ Advanced[k].id = calls[k].id
                 /\ ToSet(Advanced[k].todo) \subseteq ToSet(calls[k].todo)
                 /\ k # Len(calls) => Advanced[k].todo = calls[k].todo
           /\ \A x \in ToSet(Top.todo) :
                 x = Callee \/ x \in ToSet(Advanced[Len(calls)].todo)
<1> DEFINE n == Len(calls)
<1>1. n \in Nat \ {0} /\ n \in DOMAIN calls /\ DOMAIN calls = 1..n
  BY DEF SearchInv
<1>2. Top \in Frames /\ Top.todo \in Seq(StepIds(plan)) /\ Top.todo # <<>>
  <2>1. calls \in Seq(Frames)
    BY DEF SearchInv
  <2>2. Top \in Frames
    BY <1>1, <2>1 DEF Top
  <2> QED BY <2>2 DEF Frames, Calling
<1>3. /\ Callee \in StepIds(plan) /\ Tail(Top.todo) \in Seq(StepIds(plan))
      /\ Callee \in ToSet(Top.todo) /\ ToSet(Tail(Top.todo)) \subseteq ToSet(Top.todo)
      /\ \A x \in ToSet(Top.todo) : x = Callee \/ x \in ToSet(Tail(Top.todo))
  BY <1>2, ListParts DEF Callee
<1>4. Callee \in Below(n)
  BY <1>1, <1>3 DEF SearchInv, ListsInv, Top
<1>5. /\ DOMAIN Advanced = 1..n
      /\ \A k \in 1..n : Advanced[k] = IF k = n THEN [Top EXCEPT !.todo = Tail(Top.todo)]
                                                ELSE calls[k]
  BY <1>1 DEF Advanced, Top
<1>6. \A k \in 1..n : calls[k] \in Frames
  BY <1>1 DEF SearchInv
<1>7. [Top EXCEPT !.todo = Tail(Top.todo)] \in Frames
  BY <1>2, <1>3 DEF Frames
<1>8. Advanced \in Seq(Frames) /\ Len(Advanced) = n
  <2>1. Advanced = [k \in 1..n |-> IF k = n THEN [Top EXCEPT !.todo = Tail(Top.todo)]
                                             ELSE calls[k]]
    BY <1>1 DEF Advanced, Top, SearchInv
  <2>2. Advanced \in [1..n -> Frames]
    BY <1>6, <1>7, <2>1
  <2> QED BY <1>1, <2>2
<1>9. Top = calls[n] /\ Top.id = calls[n].id
  BY DEF Top
<1>10. [Top EXCEPT !.todo = Tail(Top.todo)].id = Top.id
       /\ [Top EXCEPT !.todo = Tail(Top.todo)].todo = Tail(Top.todo)
  BY <1>2 DEF Frames
<1> QED BY <1>1, <1>2, <1>3, <1>4, <1>5, <1>8, <1>9, <1>10

(* While the plan stays, so do its dependencies.                           *)
LEMMA PlanStays ==
    ASSUME UNCHANGED plan
    PROVE  /\ StepIds(plan)' = StepIds(plan) /\ Frames' = Frames
           /\ \A s : DepSet(s)' = DepSet(s)
           /\ \A V : Closed(V)' <=> Closed(V)
           /\ \A V : Grounded(V)' <=> Grounded(V)
           /\ PlanIsSound' <=> PlanIsSound
<1>1. StepIds(plan)' = StepIds(plan)
  OBVIOUS
<1>2. \A s : DepSet(s)' = DepSet(s)
  BY DEF DepSet
<1>3. Frames' = Frames
  BY <1>1 DEF Frames
<1>4. \A V : Closed(V)' <=> Closed(V)
  BY <1>2 DEF Closed
<1>5. \A V : Grounded(V)' <=> Grounded(V)
  BY <1>2 DEF Grounded
<1>6. PlanIsSound' <=> PlanIsSound
  BY DEF PlanIsSound
<1> QED BY <1>1, <1>2, <1>3, <1>4, <1>5, <1>6

(* A dependency that was visited before is passed over.                    *)
LEMMA SkipKeeps ==
    ASSUME PlanIsSound, SearchInv, VisitSkips
    PROVE  SearchInv'
<1> DEFINE n == Len(calls)
<1>1. /\ Calling /\ Callee \in visited /\ calls' = Advanced
      /\ UNCHANGED <<plan, visiting, visited>>
  BY DEF VisitSkips
<1>2. /\ n \in Nat \ {0} /\ calls' \in Seq(Frames) /\ Len(calls') = n
      /\ \A k \in 1..n : /\ calls'[k].id = calls[k].id
                         /\ ToSet(calls'[k].todo) \subseteq ToSet(calls[k].todo)
                         /\ k # n => calls'[k].todo = calls[k].todo
      /\ \A x \in ToSet(calls[n].todo) : x = Callee \/ x \in ToSet(calls'[n].todo)
  BY <1>1, CallIs DEF Top
<1>3. \A k \in 1..n : Below(k)' = Below(k)
  BY <1>1, <1>2, PlanStays DEF Below
<1> HIDE DEF n
<1>n. n = Len(calls)
  BY DEF n
<1>4. PathInv'
  <2>1. {calls'[k].id : k \in 2..n} = {calls[k].id : k \in 2..n}
    BY <1>2
  <2>2. \A k \in 1..n - 1 : calls'[k + 1].id \in Below(k)'
    BY <1>2, <1>3, <1>n DEF SearchInv, PathInv
  <2>3. \A j, k \in 2..n : calls'[j].id = calls'[k].id => j = k
    BY <1>2, <1>n DEF SearchInv, PathInv
  <2>4. visiting' = {calls'[k].id : k \in 2..n} /\ visiting' \subseteq StepIds(plan)'
    BY <1>1, <1>n, <2>1 DEF SearchInv, PathInv
  <2> QED BY <1>2, <2>2, <2>3, <2>4 DEF PathInv
<1>5. ListsInv'
  <2> SUFFICES ASSUME NEW k \in 1..n
               PROVE  /\ ToSet(calls'[k].todo) \subseteq Below(k)
                      /\ \A s \in Below(k) : \/ s \in visited \cup ToSet(calls'[k].todo)
                                             \/ (k < n /\ s = calls'[k + 1].id)
    BY <1>1, <1>2, <1>3 DEF ListsInv
  <2>1. /\ ToSet(calls[k].todo) \subseteq Below(k)
        /\ \A s \in Below(k) : \/ s \in visited \cup ToSet(calls[k].todo)
                               \/ (k < n /\ s = calls[k + 1].id)
    BY <1>n DEF SearchInv, ListsInv
  <2>2. ToSet(calls'[k].todo) \subseteq Below(k)
    BY <1>2, <2>1
  <2>3. k < n => calls'[k + 1].id = calls[k + 1].id
    BY <1>2
  <2>4. \A x \in ToSet(calls[k].todo) : x \in visited \cup ToSet(calls'[k].todo)
    BY <1>1, <1>2
  <2> QED BY <2>1, <2>2, <2>3, <2>4
<1>6. VisitedInv'
  BY <1>1, PlanStays DEF SearchInv, VisitedInv
<1>7. calls' \in Seq(Frames') /\ calls' # <<>>
  BY <1>1, <1>2, PlanStays
<1> QED BY <1>4, <1>5, <1>6, <1>7 DEF SearchInv

(* A dependency that was not visited is entered: the path grows by it.     *)
LEMMA EnterKeeps ==
    ASSUME PlanIsSound, SearchInv, VisitEnters
    PROVE  SearchInv'
<1> DEFINE n == Len(calls)
           F == [id |-> Callee, todo |-> DependsOn(plan, Callee)]
<1>1. /\ Calling /\ Callee \notin visiting /\ calls' = Append(Advanced, F)
      /\ visiting' = visiting \cup {Callee} /\ UNCHANGED <<plan, visited>>
      /\ Callee \notin visited
  BY DEF VisitEnters, Marks
<1>2. /\ n \in Nat \ {0} /\ Advanced \in Seq(Frames) /\ Len(Advanced) = n
      /\ \A k \in 1..n : /\ Advanced[k].id = calls[k].id
                         /\ ToSet(Advanced[k].todo) \subseteq ToSet(calls[k].todo)
                         /\ k # n => Advanced[k].todo = calls[k].todo
      /\ \A x \in ToSet(calls[n].todo) : x = Callee \/ x \in ToSet(Advanced[n].todo)
      /\ Callee \in StepIds(plan) /\ Callee \in Below(n)
  BY <1>1, CallIs DEF Top
<1>3. /\ F \in Frames /\ F.id = Callee /\ ToSet(F.todo) = DepSet(Callee)
  BY <1>2, DependsTypes DEF Frames, DepSet
<1> HIDE DEF n, F
<1>n. n = Len(calls)
  BY DEF n
<1>4. /\ calls' \in Seq(Frames) /\ Len(calls') = n + 1
      /\ \A k \in 1..n : calls'[k] = Advanced[k]
      /\ calls'[n + 1] = F
  BY <1>1, <1>2, <1>3
<1>5. /\ \A k \in 1..n : Below(k)' = Below(k)
      /\ \A k : k = n + 1 => Below(k)' = DepSet(Callee)
  <2>1. ASSUME NEW k \in 1..n PROVE Below(k)' = Below(k)
    <3>1. calls'[k].id = calls[k].id
      BY <1>2, <1>4
    <3> QED BY <1>1, <3>1, PlanStays DEF Below
  <2>2. n + 1 # 1 /\ calls'[n + 1].id = Callee
    BY <1>2, <1>3, <1>4
  <2>3. ASSUME NEW k, k = n + 1 PROVE Below(k)' = DepSet(Callee)
    BY <1>1, <2>2, <2>3, PlanStays DEF Below
  <2> QED BY <2>1, <2>3
<1>6. PathInv'
  <2>1. {calls'[k].id : k \in 2..(n + 1)} = {calls[k].id : k \in 2..n} \cup {Callee}
    <3>1. \A k \in 2..n : calls'[k].id = calls[k].id
      BY <1>2, <1>4
    <3>2. calls'[n + 1].id = Callee /\ n + 1 \in 2..(n + 1) /\ 2..(n + 1) = 2..n \cup {n + 1}
      BY <1>2, <1>3, <1>4
    <3> QED BY <3>1, <3>2
  <2>2. \A k \in 1..n : calls'[k + 1].id \in Below(k)'
    BY <1>2, <1>3, <1>4, <1>5, <1>n DEF SearchInv, PathInv
  <2>3. \A j, k \in 2..(n + 1) : calls'[j].id = calls'[k].id => j = k
    <3>1. \A j \in 2..n : calls'[j].id = calls[j].id /\ calls[j].id # Callee
      BY <1>1, <1>2, <1>4, <1>n DEF SearchInv, PathInv
    <3>2. \A j, k \in 2..n : calls[j].id = calls[k].id => j = k
      BY <1>n DEF SearchInv, PathInv
    <3>3. calls'[n + 1].id = Callee
      BY <1>3, <1>4
    <3> QED BY <1>2, <3>1, <3>2, <3>3
  <2>4. visiting' = {calls'[k].id : k \in 2..(n + 1)} /\ visiting' \subseteq StepIds(plan)'
    BY <1>1, <1>2, <1>n, <2>1 DEF SearchInv, PathInv
  <2>5. Len(calls') - 1 = n
    BY <1>2, <1>4
  <2> QED BY <1>4, <2>2, <2>3, <2>4, <2>5 DEF PathInv
<1>7. ListsInv'
  <2> SUFFICES ASSUME NEW k \in 1..(n + 1)
               PROVE  /\ ToSet(calls'[k].todo) \subseteq Below(k)'
                      /\ \A s \in Below(k)' : \/ s \in visited \cup ToSet(calls'[k].todo)
                                              \/ (k < n + 1 /\ s = calls'[k + 1].id)
    BY <1>1, <1>4 DEF ListsInv
  <2>1. CASE k = n + 1
    <3>1. Below(k)' = DepSet(Callee)
      BY <1>5, <2>1
    <3>2. ToSet(calls'[k].todo) = DepSet(Callee)
      BY <1>3, <1>4, <2>1
    <3> QED BY <3>1, <3>2
  <2>2. CASE k \in 1..n
    <3>1. /\ ToSet(calls[k].todo) \subseteq Below(k)
          /\ \A s \in Below(k) : \/ s \in visited \cup ToSet(calls[k].todo)
                                 \/ (k < n /\ s = calls[k + 1].id)
      BY <1>n, <2>2 DEF SearchInv, ListsInv
    <3>2. ToSet(calls'[k].todo) \subseteq Below(k)
      BY <1>2, <1>4, <2>2, <3>1
    <3>3. k < n => calls'[k + 1].id = calls[k + 1].id /\ calls'[k].todo = calls[k].todo
      BY <1>2, <1>4, <2>2
    <3>4. k = n => /\ calls'[k + 1].id = Callee
                   /\ \A x \in ToSet(calls[k].todo) : x = Callee \/ x \in ToSet(calls'[k].todo)
      BY <1>2, <1>3, <1>4, <2>2
    <3> QED BY <1>2, <1>5, <2>2, <3>1, <3>2, <3>3, <3>4
  <2> QED BY <1>2, <2>1, <2>2
<1>8. VisitedInv'
  BY <1>1, PlanStays DEF SearchInv, VisitedInv
<1>9. calls' \in Seq(Frames') /\ calls' # <<>>
  BY <1>1, <1>2, <1>4, PlanStays
<1> QED BY <1>6, <1>7, <1>8, <1>9 DEF SearchInv

(* A visit whose dependencies are all visited marks its step and returns.  *)
LEMMA ReturnKeeps ==
    ASSUME PlanIsSound, SearchInv, VisitReturns
    PROVE  SearchInv'
<1> DEFINE n == Len(calls)
           d == calls[n].id
<1>0. n \in Nat /\ n > 1 /\ calls \in Seq(Frames)
  BY DEF SearchInv, VisitReturns
<1>1. /\ calls' = SubSeq(calls, 1, n - 1) /\ calls[n].todo = <<>>
      /\ visiting' = visiting \ {d} /\ visited' = visited \cup {d} /\ UNCHANGED plan
  BY DEF VisitReturns, Front, Top
<1> HIDE DEF n, d
<1>n. n = Len(calls) /\ d = calls[n].id
  BY DEF n, d
<1>2. /\ calls' \in Seq(Frames) /\ Len(calls') = n - 1
      /\ \A k \in 1..(n - 1) : calls'[k] = calls[k]
  BY <1>0, <1>1, <1>n
<1>3. \A k \in 1..(n - 1) : Below(k)' = Below(k)
  BY <1>1, <1>2, PlanStays DEF Below
<1>4. d \in visiting /\ d \in StepIds(plan) /\ d \notin visited /\ DepSet(d) = Below(n)
  BY <1>0, <1>n DEF SearchInv, PathInv, VisitedInv, Below
<1>5. DepSet(d) \subseteq visited
  <2>1. ToSet(calls[n].todo) = {}
    BY <1>1 DEF ToSet
  <2> QED BY <1>0, <1>4, <1>n, <2>1 DEF SearchInv, ListsInv
<1>6. PathInv'
  <2>1. \A j, k \in 2..n : calls[j].id = calls[k].id => j = k
    BY <1>n DEF SearchInv, PathInv
  <2>2. visiting = {calls[k].id : k \in 2..n} /\ visiting \subseteq StepIds(plan)
    BY <1>n DEF SearchInv, PathInv
  <2>3. {calls'[k].id : k \in 2..(n - 1)} = visiting \ {d}
    <3>1. \A k \in 2..(n - 1) : calls'[k].id = calls[k].id /\ calls[k].id # d /\ k \in 2..n
      BY <1>0, <1>2, <1>n, <2>1
    <3>2. \A k \in 2..n : k \in 2..(n - 1) \/ calls[k].id = d
      BY <1>0, <1>n
    <3> QED BY <2>2, <3>1, <3>2
  <2>4. \A k \in 1..(n - 1) - 1 : calls'[k + 1].id \in Below(k)'
    BY <1>0, <1>2, <1>3, <1>n DEF SearchInv, PathInv
  <2>5. \A j, k \in 2..(n - 1) : calls'[j].id = calls'[k].id => j = k
    BY <1>0, <1>2, <2>1
  <2> QED BY <1>1, <1>2, <2>2, <2>3, <2>4, <2>5 DEF PathInv
<1>7. ListsInv'
  <2> SUFFICES ASSUME NEW k \in 1..(n - 1)
               PROVE  /\ ToSet(calls'[k].todo) \subseteq Below(k)'
                      /\ \A s \in Below(k)' : \/ s \in visited' \cup ToSet(calls'[k].todo)
                                              \/ (k < n - 1 /\ s = calls'[k + 1].id)
    BY <1>2 DEF ListsInv
  <2>1. /\ ToSet(calls[k].todo) \subseteq Below(k)
        /\ \A s \in Below(k) : \/ s \in visited \cup ToSet(calls[k].todo)
                               \/ (k < n /\ s = calls[k + 1].id)
    BY <1>0, <1>n DEF SearchInv, ListsInv
  <2>2. k < n - 1 => calls'[k + 1].id = calls[k + 1].id
    BY <1>0, <1>2
  <2>3. k = n - 1 => calls[k + 1].id = d
    BY <1>0, <1>n
  <2> QED BY <1>0, <1>1, <1>2, <1>3, <2>1, <2>2, <2>3
<1>8. VisitedInv'
  <2>1. Closed(visited') /\ Grounded(visited')
    BY <1>1, <1>4, <1>5, GroundedGrows DEF SearchInv, VisitedInv
  <2> QED BY <1>1, <1>4, <2>1, PlanStays DEF SearchInv, VisitedInv
<1>9. calls' \in Seq(Frames') /\ calls' # <<>>
  <2>1. calls' # <<>>
    BY <1>0, <1>2
  <2> QED BY <1>1, <1>2, <2>1, PlanStays
<1> QED BY <1>6, <1>7, <1>8, <1>9 DEF SearchInv

(* A proposal that passes the first checks is searched from its beginning. *)
LEMMA PrepareKeeps ==
    ASSUME Prepare, verdict' = "searching", visiting = {}, visited = {}
    PROVE  PlanIsSound' /\ SearchInv'
<1> DEFINE L == [i \in DOMAIN plan' |-> plan'[i].id]
           F == [id |-> NoStep, todo |-> L]
<1>1. /\ plan' \in Proposals /\ StepsAreValid(plan') /\ calls' = <<F>>
      /\ visiting' = {} /\ visited' = {}
  BY DEF Prepare
<1>2. PlanIsSound'
  <2>1. /\ plan' \in Seq(ToSet(plan'))
        /\ \A i \in DOMAIN plan' : plan'[i].deps \in Seq(ToSet(plan'[i].deps))
    BY <1>1, PlanAssumption
  <2>2. /\ StepsAreUnique(plan')
        /\ \A i \in DOMAIN plan' : ToSet(plan'[i].deps) \subseteq StepIds(plan')
    BY <1>1 DEF StepsAreValid, StepIsValid
  <2> QED BY <2>1, <2>2 DEF PlanIsSound
<1>3. L \in Seq(StepIds(plan')) /\ ToSet(L) = StepIds(plan')
  <2>1. DOMAIN plan' = 1..Len(plan') /\ Len(plan') \in Nat
    BY <1>2 DEF PlanIsSound
  <2>2. \A i \in DOMAIN plan' : plan'[i].id \in StepIds(plan')
    BY DEF StepIds
  <2>3. L \in Seq(StepIds(plan'))
    BY <2>1, <2>2
  <2> QED BY <2>3 DEF ToSet, StepIds
<1> HIDE DEF L
<1>4. F.id = NoStep /\ F.todo = L /\ F \in Frames'
  BY <1>3 DEF Frames
<1> HIDE DEF F
<1>5. calls' \in Seq(Frames') /\ calls' # <<>> /\ Len(calls') = 1 /\ calls'[1] = F
  BY <1>1, <1>4
<1>6. PathInv'
  BY <1>1, <1>5 DEF PathInv
<1>7. ListsInv'
  <2>1. \A k \in 1..Len(calls') : k = 1 /\ Below(k)' = StepIds(plan') /\ calls'[k] = F
    BY <1>5 DEF Below
  <2> QED BY <1>3, <1>4, <2>1 DEF ListsInv
<1>8. VisitedInv'
  BY <1>1 DEF VisitedInv, Closed, Grounded
<1> QED BY <1>2, <1>5, <1>6, <1>7, <1>8 DEF SearchInv

(* The steps being visited are a cycle when visit is called with one.      *)
LEMMA RaiseIsRight ==
    ASSUME PlanIsSound, SearchInv, VisitRaises
    PROVE  Stuck(visiting)
<1> DEFINE n == Len(calls)
<1>1. /\ n \in Nat \ {0} /\ Callee \in visiting /\ Callee \in Below(n)
  BY CallIs DEF VisitRaises
<1> HIDE DEF n
<1>n. n = Len(calls)
  BY DEF n
<1>2. ASSUME NEW x \in visiting PROVE DepSet(x) \cap visiting # {}
  <2>1. PICK k \in 2..n : x = calls[k].id
    BY <1>n DEF SearchInv, PathInv
  <2>2. DepSet(x) = Below(k)
    BY <2>1 DEF Below
  <2>3. CASE k = n
    BY <1>1, <2>2, <2>3
  <2>4. CASE k # n
    <3>1. k \in 1..n - 1 /\ k + 1 \in 2..n
      BY <1>1, <2>4
    <3>2. calls[k + 1].id \in Below(k) /\ calls[k + 1].id \in visiting
      BY <1>n, <3>1 DEF SearchInv, PathInv
    <3> QED BY <2>2, <3>2
  <2> QED BY <2>3, <2>4
<1> QED BY <1>1, <1>2 DEF Stuck, SearchInv, PathInv

(* A loop that ends has visited every step.                                *)
LEMMA AllVisited ==
    ASSUME SearchInv, Top.todo = <<>>, Len(calls) = 1
    PROVE  Grounded(StepIds(plan))
<1>1. ToSet(calls[1].todo) = {}
  BY DEF Top, ToSet
<1>2. \A s \in Below(1) : s \in visited
  BY <1>1 DEF SearchInv, ListsInv
<1>3. visited = StepIds(plan)
  BY <1>2 DEF SearchInv, VisitedInv, Below
<1> QED BY <1>3 DEF SearchInv, VisitedInv

(* Every step of the coordinator keeps the invariant.                      *)
LEMMA PlanStep == PlanInv /\ [PlanNext]_planVars => PlanInv'
<1> SUFFICES ASSUME PlanInv, [PlanNext]_planVars PROVE PlanInv'
  OBVIOUS
<1>1. CASE Prepare
  <2>1. done = {} /\ done' = {} /\ verdict = "none" /\ visiting = {} /\ visited = {}
    BY <1>1 DEF Prepare, PlanInv
  <2>2. CASE verdict' = "searching"
    <3>1. PlanIsSound' /\ SearchInv'
      BY <1>1, <2>1, <2>2, PrepareKeeps
    <3> QED BY <2>1, <2>2, <3>1 DEF PlanInv
  <2>3. CASE verdict' = "refused"
    BY <2>1, <2>3 DEF PlanInv
  <2> QED BY <1>1, <2>2, <2>3 DEF Prepare
<1>2. CASE VisitSkips \/ VisitEnters \/ VisitReturns
  <2>1. verdict = "searching" /\ verdict' = "searching" /\ UNCHANGED <<plan, done>>
    BY <1>2 DEF VisitSkips, VisitEnters, VisitReturns, Calling
  <2>2. PlanIsSound /\ SearchInv /\ done = {}
    BY <2>1 DEF PlanInv
  <2>3. SearchInv'
    BY <1>2, <2>2, SkipKeeps, EnterKeeps, ReturnKeeps
  <2>4. PlanIsSound'
    BY <2>1, <2>2, PlanStays
  <2> QED BY <2>1, <2>2, <2>3, <2>4 DEF PlanInv
<1>3. CASE VisitRaises
  <2>1. verdict = "searching" /\ verdict' = "cycle" /\ UNCHANGED <<plan, done>>
    BY <1>3 DEF VisitRaises, Calling, Ends
  <2>2. PlanIsSound /\ SearchInv /\ done = {}
    BY <2>1 DEF PlanInv
  <2>3. Stuck(visiting) /\ visiting \in SUBSET StepIds(plan)
    BY <1>3, <2>2, RaiseIsRight DEF Stuck
  <2>4. PICK T \in SUBSET StepIds(plan) : T = visiting
    BY <2>3
  <2>5. Stuck(T)'
    BY <2>1, <2>3, <2>4, PlanStays DEF Stuck
  <2>6. PlanIsSound'
    BY <2>1, <2>2, PlanStays
  <2> QED BY <2>1, <2>2, <2>4, <2>5, <2>6 DEF PlanInv
<1>4. CASE SearchReturns
  <2>1. /\ verdict = "searching" /\ verdict' \in {"accepted", "refused"} /\ UNCHANGED <<plan, done>>
        /\ Top.todo = <<>> /\ Len(calls) = 1
    BY <1>4 DEF SearchReturns, Ends
  <2>2. PlanIsSound /\ SearchInv /\ done = {}
    BY <2>1 DEF PlanInv
  <2>3. Grounded(StepIds(plan))'
    BY <2>1, <2>2, AllVisited, PlanStays
  <2>4. PlanIsSound'
    BY <2>1, <2>2, PlanStays
  <2> QED BY <2>1, <2>2, <2>3, <2>4 DEF PlanInv
<1>5. CASE StepSucceeds
  <2>1. PICK i \in DOMAIN plan : ReadyStep(i) /\ done' = done \cup {plan[i].id}
    BY <1>5 DEF StepSucceeds
  <2>2. verdict \in {"accepted", "cycle"} /\ UNCHANGED <<plan, verdict>> /\ PlanIsSound
    BY <1>5 DEF StepSucceeds, PlanInv
  <2>3. done' \subseteq StepIds(plan)
    BY <2>1 DEF PlanInv, StepIds
  <2>4. DepSet(plan[i].id) \subseteq done
    BY <2>1, <2>2, DependsIs DEF ReadyStep, DepSet
  <2>5. ASSUME verdict = "cycle"
        PROVE  \E T \in SUBSET StepIds(plan) : Stuck(T)' /\ T \cap done' = {}
    <3>1. PICK T \in SUBSET StepIds(plan) : Stuck(T) /\ T \cap done = {}
      BY <2>5 DEF PlanInv
    <3>2. plan[i].id \notin T
      BY <2>4, <3>1 DEF Stuck
    <3>3. Stuck(T)'
      BY <2>2, <3>1, PlanStays DEF Stuck
    <3> QED BY <2>1, <3>1, <3>2, <3>3
  <2>6. PlanIsSound' /\ (verdict = "accepted" => Grounded(StepIds(plan))')
    BY <2>2, PlanStays DEF PlanInv
  <2> QED BY <2>2, <2>3, <2>5, <2>6 DEF PlanInv
<1>6. CASE UNCHANGED planVars
  <2>1. UNCHANGED <<plan, verdict, calls, visiting, visited, done>>
    BY <1>6 DEF planVars
  <2>2. SearchInv' <=> SearchInv
    <3>1. \A k : Below(k)' = Below(k)
      BY <2>1, PlanStays DEF Below
    <3>2. PathInv' <=> PathInv
      BY <2>1, <3>1 DEF PathInv
    <3>3. ListsInv' <=> ListsInv
      BY <2>1, <3>1 DEF ListsInv
    <3>4. VisitedInv' <=> VisitedInv
      BY <2>1, PlanStays DEF VisitedInv
    <3> QED BY <2>1, <3>2, <3>3, <3>4, PlanStays DEF SearchInv
  <2>3. \A T : Stuck(T)' <=> Stuck(T)
    BY <2>1, PlanStays DEF Stuck
  <2> QED BY <2>1, <2>2, <2>3, PlanStays DEF PlanInv
<1> QED BY <1>1, <1>2, <1>3, <1>4, <1>5, <1>6 DEF PlanNext, Search

(* The depth-first search of validate_plan accepts exactly the plans that  *)
(* can be carried out, for plans of any size and dependencies: an accepted *)
(* one has a ready step until it is complete, whichever steps succeeded    *)
(* first, and one refused for a cycle has steps that never become ready.   *)
THEOREM SearchIsRight == PlanSpec => []AcceptedPlansComplete
<1>1. PlanInit => PlanInv
  BY DEF PlanInit, PlanInv
<1>2. PlanInv => AcceptedPlansComplete
  <2> SUFFICES ASSUME PlanInv PROVE AcceptedPlansComplete
    OBVIOUS
  <2>1. ASSUME verdict = "accepted", done # StepIds(plan)
        PROVE  \E i \in DOMAIN plan : ReadyStep(i)
    <3> DEFINE T == StepIds(plan) \ done
    <3>1. T # {} /\ T \in SUBSET StepIds(plan)
      BY <2>1 DEF PlanInv
    <3>2. PICK x \in T : DepSet(x) \cap T = {}
      BY <2>1, <3>1 DEF PlanInv, Grounded
    <3>3. PlanIsSound
      BY <2>1 DEF PlanInv
    <3>4. DepSet(x) \subseteq done
      BY <3>2, <3>3, DependsTypes
    <3>5. PICK i \in DOMAIN plan : x = plan[i].id
      BY DEF StepIds
    <3>6. ToSet(plan[i].deps) = DepSet(x)
      BY <3>3, <3>5, DependsIs DEF DepSet
    <3> QED BY <3>4, <3>5, <3>6 DEF ReadyStep
  <2>2. ASSUME verdict = "cycle" PROVE done # StepIds(plan)
    BY <2>2 DEF PlanInv, Stuck
  <2> QED BY <2>1, <2>2 DEF AcceptedPlansComplete
<1> QED BY <1>1, <1>2, PlanStep, PTL DEF PlanSpec

-----------------------------------------------------------------------------
(* Backups.                                                                *)

Making    == {p \in Operators : op[p].at \in {"copying", "writing", "written", "removing"}}
Filling   == {p \in Operators : op[p].at \in {"reading", "restoring", "restored"}}
Restoring == Filling \cup {p \in Operators : op[p].at \in {"verifying", "mkdir_target"}}

Sums  == [RoleSet -> Nat \cup {Absent}]
Files == [RoleSet -> Nat \cup {Absent, Damaged}]
OpTypes == [at : {"idle", "mkdir", "copying", "writing", "written", "removing",
                  "verifying", "mkdir_target", "reading", "restoring", "restored"},
            next : 1..(Len(Roles) + 1), sums : Sums]
FileTypes ==
    /\ stored \in [RoleSet -> Nat]
    /\ op \in [Operators -> OpTypes]
    /\ out \in [exists : BOOLEAN, files : Files, manifest : {"absent", "partial", "whole"},
                sums : Sums]
    /\ target \in [exists : BOOLEAN, files : Files]
    /\ spent \in [writes : Nat, faults : Nat, damage : Nat]

(* One process makes the backup, and one fills the target; who has not     *)
(* begun knows nothing.                                                    *)
OwnerInv ==
    /\ \A p, q \in Making : p = q
    /\ Making # {} => out.exists
    /\ \A p, q \in Filling : p = q
    /\ Filling # {} => target.exists
    /\ \A p \in Operators : op[p].at \in {"idle", "mkdir"} => op[p].sums = NoFiles
    /\ \A p \in Operators :
          op[p].at \in {"idle", "mkdir", "mkdir_target", "reading"} => op[p].next = 1
    /\ \A p \in Operators : op[p].at \in {"writing", "written", "restored"} => CopiesDone(p)

(* The sums of a manifest, and those a process knows, are of versions the  *)
(* databases have had.                                                     *)
Past(r) == 0..stored[r]
ManifestInv ==
    /\ out.manifest # "whole" => out.sums = NoFiles
    /\ out.manifest = "whole" => \A r \in RoleSet : out.sums[r] \in Past(r)
    /\ \A p \in Operators :
          /\ op[p].at = "copying" => out.manifest = "absent"
          /\ op[p].at = "written" => out.manifest = "whole" /\ out.sums = op[p].sums
          /\ p \in Making => \A i \in 1..(op[p].next - 1) : op[p].sums[Roles[i]] \in Past(Roles[i])
          /\ p \in Restoring => \A r \in RoleSet : op[p].sums[r] \in Past(r)

(* What is known of a database's copy: the file, the manifest's sum and    *)
(* the sum its maker has noted.  Without damage they are one version, and  *)
(* later ones replace earlier ones.  So a restore finds the version it has *)
(* verified or a later one, and after a later one only such.               *)
Known(r) == ({out.files[r], out.sums[r]} \cup {op[q].sums[r] : q \in Making}) \ {Absent}
OneVersion == \A r \in RoleSet : \A x, y \in Known(r) : x = y /\ x \in Past(r)
MakerKnows ==
    \A p \in Operators :
       op[p].at \in {"copying", "writing", "written"} => out.files = op[p].sums
NotOlder == \A p \in Restoring, r \in RoleSet : \A x \in Known(r) : x >= op[p].sums[r]
TargetInv ==
    \A p \in Filling : \A i \in 1..(op[p].next - 1) :
       LET r == Roles[i]
       IN  /\ target.files[r] \in op[p].sums[r]..stored[r]
           /\ target.files[r] # op[p].sums[r] => \A x \in Known(r) : x >= target.files[r]
CopyInv == OneVersion /\ MakerKnows /\ NotOlder /\ TargetInv

BackupInv == FileTypes /\ OwnerInv /\ ManifestInv /\ (spent.damage = 0 => CopyInv)

(* Each step in terms of the four records it may change.                   *)
Others(p) == op' = [q \in Operators |-> IF q = p THEN op'[p] ELSE op[q]]
OpNow(at, next, sums) == [at |-> at, next |-> next, sums |-> sums]

(* A step that moves one operator on and leaves directories alone.         *)
Moved(p) ==
    \/ op[p].at = "idle" /\ ~out.exists /\ op'[p] = OpNow("mkdir", op[p].next, op[p].sums)
    \/ op[p].at = "written" /\ op'[p] = Idle
    \/ op[p].at \in {"copying", "writing", "written"}
          /\ op'[p] = OpNow("removing", op[p].next, op[p].sums)
    \/ op[p].at = "mkdir" /\ out.exists /\ op'[p] = Idle
    \/ op[p].at = "idle" /\ out.manifest = "whole"
          /\ op'[p] = OpNow("verifying", op[p].next, out.sums)
    \/ op[p].at = "verifying" /\ op[p].next <= Len(Roles)
          /\ op'[p] = OpNow("verifying", op[p].next + 1, op[p].sums)
    \/ op[p].at = "verifying" /\ op'[p] = OpNow("mkdir_target", 1, op[p].sums)
    \/ op[p].at = "mkdir_target" /\ op'[p] = Idle
    \/ op[p].at = "reading" /\ out.manifest = "whole"
          /\ op'[p] = OpNow("restoring", op[p].next, op[p].sums)
    \/ op[p].at = "reading" /\ op'[p] = Idle
    \/ op[p].at = "restoring" /\ CopiesDone(p)
          /\ op'[p] = OpNow("restored", op[p].next, op[p].sums)
    \/ op[p].at \notin {"idle", "restored"} /\ op'[p] = Idle

(* The operations that leave both directories alone are such steps.        *)
LEMMA MovedIs ==
    ASSUME FileTypes, NEW p \in Operators,
           \/ BackupChecks(p) \/ BackupReturns(p) \/ BackupFails(p) \/ Killed(p)
           \/ RestoreBegins(p) \/ RestoreVerifies(p) \/ RestoreChecks(p)
           \/ RestoreReads(p) \/ RestoreReturns(p)
           \/ BackupMkdir(p) /\ out.exists
           \/ RestoreMkdir(p) /\ target.exists
    PROVE  Others(p) /\ Moved(p) /\ UNCHANGED <<stored, out, target>>
           /\ spent' \in [writes : Nat, faults : Nat, damage : Nat]
           /\ spent'.damage = spent.damage
<1>0. /\ op \in [Operators -> OpTypes] /\ op[p] \in OpTypes
      /\ op[p] = OpNow(op[p].at, op[p].next, op[p].sums)
      /\ spent \in [writes : Nat, faults : Nat, damage : Nat]
  BY DEF FileTypes, OpTypes, OpNow
<1>s. ASSUME spent' = [spent EXCEPT !.faults = @ + 1]
      PROVE  /\ spent' \in [writes : Nat, faults : Nat, damage : Nat]
             /\ spent'.damage = spent.damage
  BY <1>0, <1>s
<1>1. CASE BackupChecks(p)
  BY <1>0, <1>1 DEF BackupChecks, Others, Moved, At, Goto, OpTypes, OpNow
<1>2. CASE BackupReturns(p)
  BY <1>0, <1>2 DEF BackupReturns, Others, Moved, At
<1>3. CASE BackupFails(p)
  <2>1. op' = [op EXCEPT ![p].at = "removing"] /\ op[p].at \in {"copying", "writing", "written"}
    BY <1>3 DEF BackupFails, Goto
  <2>2. Others(p) /\ Moved(p)
    BY <1>0, <2>1 DEF Others, Moved, OpTypes, OpNow
  <2> QED BY <1>3, <1>s, <2>2 DEF BackupFails
<1>4. CASE Killed(p)
  <2>1. op' = [op EXCEPT ![p] = Idle] /\ op[p].at \notin {"idle", "restored"}
    BY <1>4 DEF Killed
  <2>2. Others(p) /\ Moved(p)
    BY <1>0, <2>1 DEF Others, Moved
  <2> QED BY <1>4, <1>s, <2>2 DEF Killed
<1>5. CASE RestoreBegins(p)
  BY <1>0, <1>5 DEF RestoreBegins, Others, Moved, At, OpTypes, OpNow
<1>v. CASE RestoreVerifies(p)
  <2>1. PICK o : o = op'[p]
    OBVIOUS
  <2>2. /\ op[p].at = "verifying" /\ op[p].next <= Len(Roles) /\ Others(p)
        /\ o = [op[p] EXCEPT !.next = @ + 1] \/ o = Idle
        /\ UNCHANGED <<stored, out, target, spent>>
    <3>1. /\ op[p].at = "verifying" /\ op[p].next <= Len(Roles)
          /\ UNCHANGED <<stored, out, target, spent>>
      BY <1>v DEF RestoreVerifies, At
    <3>2. \/ op' = [op EXCEPT ![p] = [op[p] EXCEPT !.next = op[p].next + 1]]
          \/ op' = [op EXCEPT ![p] = Idle]
      <4> DEFINE r == Roles[op[p].next]
      <4>1. CASE out.files[r] = op[p].sums[r]
        BY <1>0, <1>v, <4>1 DEF RestoreVerifies
      <4>2. CASE out.files[r] # op[p].sums[r]
        BY <1>0, <1>v, <4>2 DEF RestoreVerifies
      <4> QED BY <4>1, <4>2
    <3>3. CASE op' = [op EXCEPT ![p] = [op[p] EXCEPT !.next = op[p].next + 1]]
      <4>1. op'[p] = [op[p] EXCEPT !.next = @ + 1] /\ Others(p)
        BY <1>0, <3>3 DEF Others
      <4> QED BY <2>1, <3>1, <4>1
    <3>4. CASE op' = [op EXCEPT ![p] = Idle]
      <4>1. op'[p] = Idle /\ Others(p)
        BY <1>0, <3>4 DEF Others
      <4> QED BY <2>1, <3>1, <4>1
    <3> QED BY <3>2, <3>3, <3>4
  <2>3. Moved(p)
    BY <1>0, <2>1, <2>2 DEF Moved, OpTypes, OpNow
  <2> QED BY <1>0, <2>2, <2>3
<1>c. CASE RestoreChecks(p)
  <2>1. PICK o : o = op'[p]
    OBVIOUS
  <2>2. /\ op[p].at = "verifying" /\ Others(p)
        /\ o = [op[p] EXCEPT !.at = "mkdir_target", !.next = 1] \/ o = Idle
        /\ UNCHANGED <<stored, out, target, spent>>
    BY <1>0, <1>c, <2>1 DEF RestoreChecks, Others, At
  <2>3. Moved(p)
    BY <1>0, <2>1, <2>2 DEF Moved, OpTypes, OpNow
  <2> QED BY <1>0, <2>2, <2>3
<1>6. CASE RestoreReads(p)
  BY <1>0, <1>6 DEF RestoreReads, Others, Moved, At, Goto, OpTypes, OpNow
<1>7. CASE RestoreReturns(p)
  BY <1>0, <1>7 DEF RestoreReturns, Others, Moved, At, Goto, OpTypes, OpNow
<1>8. CASE BackupMkdir(p) /\ out.exists
  BY <1>0, <1>8 DEF BackupMkdir, MkdirRefused, Others, Moved, At
<1>9. CASE RestoreMkdir(p) /\ target.exists
  BY <1>0, <1>9 DEF RestoreMkdir, Others, Moved, At
<1> QED BY <1>1, <1>2, <1>3, <1>4, <1>5, <1>v, <1>c, <1>6, <1>7, <1>8, <1>9

(* Roles are numbered, and the tables have an entry for each.              *)
LEMMA RolesAre ==
    /\ Len(Roles) \in Nat /\ NoFiles \in Sums /\ Sums \subseteq Files
    /\ \A i \in 1..Len(Roles) : Roles[i] \in RoleSet
    /\ \A r \in RoleSet : \E i \in 1..Len(Roles) : r = Roles[i]
    /\ Idle \in OpTypes
<1>1. Len(Roles) \in Nat
  BY BackupAssumption
<1>2. NoFiles \in Sums /\ Sums \subseteq Files
  BY DEF NoFiles, Sums, Files
<1>3. Idle \in OpTypes
  BY <1>1, <1>2 DEF Idle, OpTypes
<1> QED BY <1>1, <1>2, <1>3 DEF RoleSet

(* A step that only moves one operator on.                                 *)
LEMMA MoveKeeps ==
    ASSUME BackupInv, NEW p \in Operators, Others(p), Moved(p), UNCHANGED <<stored, out, target>>,
           spent' \in [writes : Nat, faults : Nat, damage : Nat], spent'.damage = spent.damage
    PROVE  BackupInv'
<1>1. FileTypes'
  <2>1. op'[p] \in OpTypes
    BY RolesAre DEF BackupInv, FileTypes, Moved, OpTypes, OpNow
  <2> QED BY <2>1 DEF BackupInv, FileTypes, Others
<1>q. /\ op' \in [Operators -> OpTypes] /\ op \in [Operators -> OpTypes]
      /\ \A q \in Operators : q # p => op'[q] = op[q]
  BY <1>1 DEF BackupInv, FileTypes, Others
<1>i. Idle.at = "idle" /\ Idle.next = 1 /\ Idle.sums = NoFiles
  BY DEF Idle
<1>m. /\ Making' \subseteq Making
      /\ Filling' \subseteq Filling
      /\ Restoring' \subseteq Restoring \cup {p}
  BY <1>q, <1>i DEF Moved, OpNow, Making, Filling, Restoring
<1>2. OwnerInv'
  BY <1>q, <1>i, <1>m DEF BackupInv, OwnerInv, Moved, OpNow, CopiesDone
<1>a. /\ p \in Making' => op'[p].next = op[p].next /\ op'[p].sums = op[p].sums
      /\ p \in Filling' => op'[p].next = op[p].next /\ op'[p].sums = op[p].sums
      /\ op'[p].at \notin {"copying", "writing", "written"}
  BY <1>i DEF Moved, OpNow, Making, Filling
<1>b. p \in Restoring' => \/ p \in Restoring /\ op'[p].sums = op[p].sums
                          \/ out.manifest = "whole" /\ op'[p].sums = out.sums
  BY <1>i DEF Moved, OpNow, Restoring, Filling
<1>3. ManifestInv'
  <2>1. /\ out.manifest # "whole" => out.sums = NoFiles
        /\ out.manifest = "whole" => \A r \in RoleSet : out.sums[r] \in Past(r)
    BY DEF BackupInv, ManifestInv
  <2>2. ASSUME NEW q \in Operators
        PROVE  /\ op'[q].at = "copying" => out.manifest = "absent"
               /\ op'[q].at = "written" => out.manifest = "whole" /\ out.sums = op'[q].sums
    BY <1>q, <1>a DEF BackupInv, ManifestInv
  <2>3. ASSUME NEW q \in Making', NEW i \in 1..(op'[q].next - 1)
        PROVE  op'[q].sums[Roles[i]] \in Past(Roles[i])
    <3>1. q \in Making /\ q \in Operators /\ op'[q].next = op[q].next /\ op'[q].sums = op[q].sums
      BY <1>q, <1>a, <1>m DEF Making
    <3> QED BY <3>1 DEF BackupInv, ManifestInv
  <2>4. ASSUME NEW q \in Restoring', NEW r \in RoleSet PROVE op'[q].sums[r] \in Past(r)
    <3>1. CASE q = p
      BY <1>b, <2>1, <3>1 DEF BackupInv, ManifestInv
    <3>2. CASE q # p
      <4>1. q \in Restoring /\ q \in Operators /\ op'[q] = op[q]
        BY <1>q, <1>m, <3>2 DEF Restoring, Filling
      <4> QED BY <4>1 DEF BackupInv, ManifestInv
    <3> QED BY <3>1, <3>2
  <2> QED BY <2>1, <2>2, <2>3, <2>4 DEF ManifestInv, Past
<1>4. ASSUME CopyInv PROVE CopyInv'
  <2>1. \A r \in RoleSet : Known(r)' \subseteq Known(r)
    <3>1. \A q \in Making' : q \in Making /\ op'[q].sums = op[q].sums
      BY <1>q, <1>a, <1>m DEF Making
    <3> QED BY <3>1 DEF Known
  <2>2. \A r \in RoleSet : \A x, y \in Known(r)' : x = y /\ x \in Past(r)'
    BY <1>4, <2>1 DEF CopyInv, OneVersion, Past
  <2>3. ASSUME NEW q \in Operators, op'[q].at \in {"copying", "writing", "written"}
        PROVE  out'.files = op'[q].sums
    BY <1>4, <1>q, <1>a, <2>3 DEF CopyInv, MakerKnows
  <2>4. ASSUME NEW q \in Restoring', NEW r \in RoleSet, NEW x \in Known(r)'
        PROVE  x >= op'[q].sums[r]
    <3>1. CASE q \in Restoring /\ op'[q].sums = op[q].sums
      BY <1>4, <2>1, <3>1 DEF CopyInv, NotOlder
    <3>2. CASE out.manifest = "whole" /\ op'[q].sums = out.sums
      <4>1. out.sums[r] \in Past(r) /\ stored[r] \in Nat
        BY <3>2 DEF BackupInv, ManifestInv, FileTypes
      <4>2. out.sums[r] # Absent /\ out.sums[r] \in Nat
        BY <4>1, BackupAssumption DEF Past
      <4>3. out.sums[r] \in Known(r)
        BY <4>2 DEF Known
      <4>4. x = out.sums[r]
        BY <1>4, <2>1, <4>3 DEF CopyInv, OneVersion
      <4> QED BY <3>2, <4>2, <4>4
    <3> QED BY <1>q, <1>b, <1>m, <3>1, <3>2 DEF Restoring, Filling
  <2>5. ASSUME NEW q \in Filling', NEW i \in 1..(op'[q].next - 1)
        PROVE  LET r == Roles[i]
               IN  /\ target'.files[r] \in op'[q].sums[r]..stored'[r]
                   /\ target'.files[r] # op'[q].sums[r] =>
                         \A x \in Known(r)' : x >= target'.files[r]
    <3>1. q \in Filling /\ op'[q].sums = op[q].sums /\ op'[q].next = op[q].next
      BY <1>q, <1>a, <1>m DEF Filling
    <3>2. Roles[i] \in RoleSet
      BY <1>q, <3>1, RolesAre DEF OpTypes, Filling
    <3> QED BY <1>4, <2>1, <3>1, <3>2 DEF CopyInv, TargetInv
  <2> QED BY <2>2, <2>3, <2>4, <2>5 DEF CopyInv, OneVersion, MakerKnows, NotOlder, TargetInv
<1> QED BY <1>1, <1>2, <1>3, <1>4 DEF BackupInv

(* A step that adds no version of a copy and moves no restore on.          *)
LEMMA CopiesStay ==
    ASSUME FileTypes, CopyInv, stored' \in [RoleSet -> Nat],
           \A r \in RoleSet : Known(r)' \subseteq Known(r) /\ stored'[r] >= stored[r],
           \A q \in Restoring' : q \in Restoring /\ op'[q].sums = op[q].sums,
           \A q \in Filling' : \/ op'[q].next = 1
                               \/ /\ q \in Filling /\ op'[q].next = op[q].next
                                  /\ op'[q].sums = op[q].sums /\ target'.files = target.files
    PROVE  OneVersion' /\ NotOlder' /\ TargetInv'
<1>0. \A r \in RoleSet : stored[r] \in Nat /\ stored'[r] \in Nat
  BY DEF FileTypes
<1>1. OneVersion'
  <2>1. \A r \in RoleSet : Past(r) \subseteq Past(r)'
    BY <1>0 DEF Past
  <2> QED BY <2>1 DEF CopyInv, OneVersion
<1>2. NotOlder'
  BY DEF CopyInv, NotOlder
<1>3. TargetInv'
  <2> SUFFICES ASSUME NEW q \in Filling', NEW i \in 1..(op'[q].next - 1)
               PROVE  /\ target'.files[Roles[i]] \in op'[q].sums[Roles[i]]..stored'[Roles[i]]
                      /\ target'.files[Roles[i]] # op'[q].sums[Roles[i]] =>
                            \A x \in Known(Roles[i])' : x >= target'.files[Roles[i]]
    BY DEF TargetInv
  <2>1. q \in Filling /\ op'[q].next = op[q].next /\ op'[q].sums = op[q].sums
        /\ target'.files = target.files
    OBVIOUS
  <2>2. Roles[i] \in RoleSet
    BY <2>1, RolesAre DEF FileTypes, OpTypes, Filling
  <2>3. /\ target.files[Roles[i]] \in op[q].sums[Roles[i]]..stored[Roles[i]]
        /\ target.files[Roles[i]] # op[q].sums[Roles[i]] =>
              \A x \in Known(Roles[i]) : x >= target.files[Roles[i]]
    BY <2>1 DEF CopyInv, TargetInv
  <2>4. op[q].sums[Roles[i]] \in Nat \cup {Absent}
    BY <2>1, <2>2 DEF FileTypes, OpTypes, Sums, Filling
  <2> QED BY <1>0, <2>1, <2>2, <2>3
<1> QED BY <1>1, <1>2, <1>3

(* The directory is made.                                                  *)
LEMMA MkdirKeeps ==
    ASSUME BackupInv, NEW p \in Operators, BackupMkdir(p), ~out.exists
    PROVE  BackupInv'
<1>0. /\ op \in [Operators -> OpTypes] /\ op[p].at = "mkdir" /\ op[p].next = 1
      /\ op[p].sums = NoFiles /\ Making = {}
  BY DEF BackupInv, FileTypes, OwnerInv, BackupMkdir, At
<1>1. /\ op' = [op EXCEPT ![p].at = "copying"]
      /\ out' = [NoDirectory EXCEPT !.exists = TRUE] /\ UNCHANGED <<stored, target, spent>>
  BY DEF BackupMkdir, Goto
<1>2. /\ op'[p].at = "copying" /\ op'[p].next = 1 /\ op'[p].sums = NoFiles
      /\ \A q \in Operators : q # p => op'[q] = op[q]
      /\ op' \in [Operators -> OpTypes]
  BY <1>0, <1>1 DEF OpTypes
<1>3. /\ out'.exists /\ out'.files = NoFiles /\ out'.manifest = "absent" /\ out'.sums = NoFiles
      /\ FileTypes'
  BY <1>1, <1>2, RolesAre DEF NoDirectory, BackupInv, FileTypes
<1>4. Making' = {p} /\ Filling' = Filling /\ Restoring' = Restoring
  BY <1>0, <1>2 DEF Making, Filling, Restoring
<1>5. OwnerInv'
  BY <1>0, <1>1, <1>2, <1>3, <1>4 DEF BackupInv, OwnerInv, CopiesDone
<1>6. ManifestInv'
  <2>1. \A q \in Operators : q # p => op'[q].at \notin {"copying", "written"}
    BY <1>0, <1>2 DEF Making
  <2>2. \A q \in Restoring : q \in Operators /\ op'[q].sums = op[q].sums
    BY <1>0, <1>2 DEF Restoring, Filling
  <2> QED BY <1>1, <1>2, <1>3, <1>4, <2>1, <2>2 DEF BackupInv, ManifestInv, Past
<1>7. ASSUME CopyInv PROVE CopyInv'
  <2>1. \A r \in RoleSet : Known(r)' \subseteq Known(r)
    BY <1>2, <1>3, <1>4 DEF Known, NoFiles
  <2>2. \A q \in Restoring : op'[q] = op[q]
    BY <1>0, <1>2 DEF Restoring, Filling
  <2>3. Filling \subseteq Restoring /\ \A r \in RoleSet : stored[r] \in Nat
    BY DEF Restoring, BackupInv, FileTypes
  <2>4. OneVersion' /\ NotOlder' /\ TargetInv'
    BY <1>1, <1>4, <1>7, <2>1, <2>2, <2>3, CopiesStay DEF BackupInv, FileTypes
  <2>5. MakerKnows'
    BY <1>0, <1>2, <1>3 DEF MakerKnows, Making
  <2> QED BY <2>4, <2>5 DEF CopyInv
<1> QED BY <1>1, <1>3, <1>5, <1>6, <1>7 DEF BackupInv

(* A database is copied: its newest version replaces every other.          *)
LEMMA CopyKeeps ==
    ASSUME BackupInv, NEW p \in Operators, BackupCopies(p)
    PROVE  BackupInv'
<1> DEFINE r0 == Roles[op[p].next]
<1>0. /\ op \in [Operators -> OpTypes] /\ op[p].at = "copying" /\ p \in Making
      /\ op[p].next \in 1..Len(Roles) /\ op[p].sums \in Sums /\ r0 \in RoleSet
      /\ out.manifest = "absent" /\ out.sums = NoFiles /\ Making = {p} /\ out.exists
  <2>1. op \in [Operators -> OpTypes] /\ op[p].at = "copying" /\ op[p].next <= Len(Roles)
    BY DEF BackupInv, FileTypes, BackupCopies, At
  <2>2. op[p].next \in 1..Len(Roles) /\ op[p].sums \in Sums
    BY <2>1, RolesAre DEF OpTypes
  <2>3. p \in Making /\ Making = {p} /\ out.exists
    BY <2>1 DEF Making, BackupInv, OwnerInv
  <2>4. out.manifest = "absent" /\ out.sums = NoFiles
    BY <2>1 DEF BackupInv, ManifestInv
  <2> QED BY <2>1, <2>2, <2>3, <2>4, RolesAre
<1>1. /\ out' = [out EXCEPT !.files[r0] = stored[r0]]
      /\ op' = [op EXCEPT ![p].next = @ + 1, ![p].sums[r0] = stored[r0]]
      /\ UNCHANGED <<stored, target, spent>>
  BY DEF BackupCopies
<1> HIDE DEF r0
<1>r. PICK k \in 1..Len(Roles), r \in RoleSet : k = op[p].next /\ r = Roles[k] /\ r = r0
  BY <1>0 DEF r0
<1>2. /\ op'[p].at = "copying" /\ op'[p].next = k + 1
      /\ op'[p].sums = [op[p].sums EXCEPT ![r] = stored[r]]
      /\ \A q \in Operators : q # p => op'[q] = op[q]
  BY <1>0, <1>1, <1>r DEF OpTypes
<1>3. /\ out'.exists = out.exists /\ out'.manifest = out.manifest /\ out'.sums = out.sums
      /\ out'.files = [out.files EXCEPT ![r] = stored[r]]
      /\ stored[r] \in Nat /\ k \in Nat /\ Len(Roles) \in Nat
  BY <1>1, <1>r, RolesAre DEF BackupInv, FileTypes
<1>t. FileTypes'
  <2>1. op' \in [Operators -> OpTypes]
    <3>1. op'[p].sums \in Sums /\ op'[p].next \in 1..(Len(Roles) + 1)
      BY <1>0, <1>2, <1>3 DEF Sums
    <3> QED BY <1>0, <1>1, <3>1 DEF OpTypes
  <2>2. out' \in [exists : BOOLEAN, files : Files, manifest : {"absent", "partial", "whole"},
                  sums : Sums]
    <3>1. out'.files \in Files
      BY <1>3 DEF BackupInv, FileTypes, Files
    <3> QED BY <1>1, <3>1 DEF BackupInv, FileTypes
  <2> QED BY <1>1, <2>1, <2>2 DEF BackupInv, FileTypes
<1>4. Making' = {p} /\ Filling' = Filling /\ Restoring' = Restoring
  BY <1>0, <1>2 DEF Making, Filling, Restoring
<1>q. /\ \A q \in Operators : q # p => op[q].at \notin {"copying", "writing", "written"}
      /\ \A q \in Restoring : q # p /\ q \in Operators /\ op'[q] = op[q]
      /\ Filling \subseteq Restoring
  BY <1>0, <1>2 DEF Making, Restoring, Filling
<1>5. OwnerInv'
  BY <1>0, <1>1, <1>2, <1>3, <1>4 DEF BackupInv, OwnerInv, CopiesDone
<1>6. ManifestInv'
  <2>1. ASSUME NEW i \in 1..(op'[p].next - 1)
        PROVE  op'[p].sums[Roles[i]] \in Past(Roles[i])
    <3>1. i \in 1..k /\ Roles[i] \in RoleSet
      BY <1>2, <1>3, <2>1, RolesAre
    <3>2. CASE Roles[i] = r
      BY <1>0, <1>2, <1>3, <3>2 DEF Past, Sums
    <3>3. CASE Roles[i] # r
      <4>0. i # k
        BY <1>r, <3>3
      <4>1. i \in 1..(op[p].next - 1)
        <5>1. i \in 1..(k - 1)
          BY <1>3, <3>1, <4>0
        <5> QED BY <1>r, <5>1
      <4>2. op[p].sums[Roles[i]] \in Past(Roles[i])
        BY <1>0, <4>1 DEF BackupInv, ManifestInv
      <4> QED BY <1>0, <1>2, <3>1, <3>3, <4>2 DEF Sums
    <3> QED BY <3>2, <3>3
  <2> QED BY <1>0, <1>1, <1>2, <1>3, <1>4, <1>q, <2>1 DEF BackupInv, ManifestInv, Past
<1>7. ASSUME CopyInv PROVE CopyInv'
  <2>1. /\ \A s \in RoleSet : s # r => Known(s)' = Known(s)
        /\ \A x \in Known(r)' : x = stored[r]
    <3>1. out.files \in Files /\ op[p].sums \in Sums /\ out.sums[r] = Absent
      BY <1>0 DEF BackupInv, FileTypes, NoFiles
    <3>2. /\ \A s \in RoleSet : s # r =>
                out'.files[s] = out.files[s] /\ op'[p].sums[s] = op[p].sums[s]
          /\ out'.files[r] = stored[r] /\ op'[p].sums[r] = stored[r]
      BY <1>2, <1>3, <3>1 DEF Files, Sums
    <3> QED BY <1>0, <1>3, <1>4, <3>1, <3>2 DEF Known
  <2>2. OneVersion'
    BY <1>1, <1>3, <1>7, <2>1 DEF CopyInv, OneVersion, Past
  <2>3. MakerKnows'
    <3>1. out.files = op[p].sums
      BY <1>0, <1>7 DEF CopyInv, MakerKnows
    <3> QED BY <1>2, <1>3, <1>q, <3>1 DEF MakerKnows
  <2>4. NotOlder'
    <3>1. \A q \in Restoring, s \in RoleSet : op[q].sums[s] \in Past(s)
      BY <1>q DEF BackupInv, ManifestInv
    <3> QED BY <1>3, <1>4, <1>7, <1>q, <2>1, <3>1 DEF CopyInv, NotOlder, Past
  <2>5. TargetInv'
    <3> SUFFICES ASSUME NEW q \in Filling', NEW i \in 1..(op'[q].next - 1)
                 PROVE  /\ target'.files[Roles[i]] \in op'[q].sums[Roles[i]]..stored'[Roles[i]]
                        /\ target'.files[Roles[i]] # op'[q].sums[Roles[i]] =>
                              \A x \in Known(Roles[i])' : x >= target'.files[Roles[i]]
      BY DEF TargetInv
    <3>0. q \in Filling /\ op'[q] = op[q] /\ target' = target /\ stored' = stored
      BY <1>1, <1>4, <1>q
    <3>1. /\ target.files[Roles[i]] \in op[q].sums[Roles[i]]..stored[Roles[i]]
          /\ target.files[Roles[i]] # op[q].sums[Roles[i]] =>
                \A x \in Known(Roles[i]) : x >= target.files[Roles[i]]
      BY <1>7, <3>0 DEF CopyInv, TargetInv
    <3>2. Roles[i] \in RoleSet /\ stored[Roles[i]] \in Nat
      BY <1>q, <3>0, RolesAre DEF BackupInv, FileTypes, OpTypes
    <3>3. op[q].sums[Roles[i]] \in Past(Roles[i])
      BY <1>q, <3>0, <3>2 DEF BackupInv, ManifestInv
    <3> QED BY <2>1, <3>0, <3>1, <3>2, <3>3 DEF Past
  <2> QED BY <2>2, <2>3, <2>4, <2>5 DEF CopyInv
<1> QED BY <1>1, <1>t, <1>5, <1>6, <1>7 DEF BackupInv

(* The manifest is opened and written.                                     *)
LEMMA ManifestKeeps ==
    ASSUME BackupInv, NEW p \in Operators, BackupOpensManifest(p) \/ BackupWritesManifest(p)
    PROVE  BackupInv'
<1>0. /\ op \in [Operators -> OpTypes] /\ op[p].at \in {"copying", "writing"} /\ p \in Making
      /\ op[p].sums \in Sums /\ Making = {p} /\ out.exists /\ CopiesDone(p)
      /\ UNCHANGED <<stored, target, spent>>
  <2>1. op \in [Operators -> OpTypes] /\ op[p].at \in {"copying", "writing"}
        /\ CopiesDone(p) /\ UNCHANGED <<stored, target, spent>>
    BY DEF BackupInv, FileTypes, OwnerInv, BackupOpensManifest, BackupWritesManifest, At
  <2>2. p \in Making /\ Making = {p} /\ out.exists
    BY <2>1 DEF Making, BackupInv, OwnerInv
  <2> QED BY <2>1, <2>2 DEF OpTypes
<1>a. \A r \in RoleSet : op[p].sums[r] \in Past(r)
  <2>1. ASSUME NEW r \in RoleSet PROVE op[p].sums[r] \in Past(r)
    <3>1. PICK i \in 1..Len(Roles) : r = Roles[i]
      BY RolesAre
    <3>2. i \in 1..(op[p].next - 1)
      BY <1>0, RolesAre DEF CopiesDone, OpTypes
    <3> QED BY <1>0, <3>1, <3>2 DEF BackupInv, ManifestInv
  <2> QED BY <2>1
<1>1. /\ op'[p].at \in {"writing", "written"} /\ op'[p].next = op[p].next
      /\ op'[p].sums = op[p].sums /\ op' \in [Operators -> OpTypes]
      /\ \A q \in Operators : q # p => op'[q] = op[q]
  <2>1. PICK step \in {"writing", "written"} : op' = [op EXCEPT ![p].at = step]
    BY DEF BackupOpensManifest, BackupWritesManifest, Goto
  <2>2. op[p] \in OpTypes /\ [op[p] EXCEPT !.at = step] \in OpTypes
    BY <1>0, <2>1 DEF OpTypes
  <2>3. op'[p] = [op[p] EXCEPT !.at = step] /\ op' \in [Operators -> OpTypes]
        /\ \A q \in Operators : q # p => op'[q] = op[q]
    BY <1>0, <2>1, <2>2
  <2> QED BY <2>1, <2>2, <2>3 DEF OpTypes
<1>2. /\ out' \in [exists : BOOLEAN, files : Files, manifest : {"absent", "partial", "whole"},
                   sums : Sums]
      /\ out'.exists = out.exists /\ out'.files = out.files
      /\ \/ op'[p].at = "writing" /\ out'.manifest = "partial" /\ out'.sums = NoFiles
         \/ out'.manifest = "whole" /\ out'.sums = op[p].sums
  <2>1. CASE BackupOpensManifest(p)
    <3>1. /\ op'[p].at = "writing" /\ out' = [out EXCEPT !.manifest = "partial"]
          /\ out.sums = NoFiles
      BY <1>0, <2>1 DEF BackupOpensManifest, Goto, At, OpTypes, BackupInv, ManifestInv
    <3> QED BY <3>1 DEF BackupInv, FileTypes
  <2>2. CASE BackupWritesManifest(p)
    <3>1. out' = [out EXCEPT !.manifest = "whole", !.sums = op[p].sums]
      BY <2>2 DEF BackupWritesManifest
    <3> QED BY <1>0, <3>1 DEF BackupInv, FileTypes
  <2> QED BY <2>1, <2>2
<1>t. FileTypes'
  BY <1>0, <1>1, <1>2 DEF BackupInv, FileTypes
<1>4. Making' = {p} /\ Filling' = Filling /\ Restoring' = Restoring
  BY <1>0, <1>1 DEF Making, Filling, Restoring
<1>q. /\ \A q \in Operators : q # p => op[q].at \notin {"copying", "writing", "written"}
      /\ \A q \in Restoring : q # p /\ q \in Operators /\ op'[q] = op[q]
      /\ Filling \subseteq Restoring
  BY <1>0, <1>1 DEF Making, Restoring, Filling
<1>5. OwnerInv'
  BY <1>0, <1>1, <1>2, <1>4 DEF BackupInv, OwnerInv, CopiesDone
<1>6. ManifestInv'
  <2>1. /\ out'.manifest # "whole" => out'.sums = NoFiles
        /\ out'.manifest = "whole" => \A r \in RoleSet : out'.sums[r] \in Past(r)
    BY <1>2, <1>a
  <2>2. \A q \in Operators : op'[q].at # "copying"
    BY <1>1, <1>q
  <2>3. \A q \in Operators : op'[q].at = "written" => out'.manifest = "whole" /\ out'.sums = op'[q].sums
    BY <1>1, <1>2, <1>q
  <2>4. \A i \in 1..(op[p].next - 1) : op[p].sums[Roles[i]] \in Past(Roles[i])
    BY <1>0 DEF BackupInv, ManifestInv
  <2>5. \A q \in Restoring, r \in RoleSet : op[q].sums[r] \in Past(r)
    BY <1>q DEF BackupInv, ManifestInv
  <2> QED BY <1>0, <1>1, <1>4, <1>q, <2>1, <2>2, <2>3, <2>4, <2>5 DEF ManifestInv, Past
<1>7. ASSUME CopyInv PROVE CopyInv'
  <2>1. \A r \in RoleSet : Known(r)' \subseteq Known(r)
    <3>1. \A r \in RoleSet : out'.sums[r] \in {Absent, op[p].sums[r]}
      BY <1>2 DEF NoFiles
    <3> QED BY <1>0, <1>1, <1>2, <1>4, <3>1 DEF Known
  <2>3. \A r \in RoleSet : stored[r] \in Nat
    BY DEF BackupInv, FileTypes
  <2>4. OneVersion' /\ NotOlder' /\ TargetInv'
    BY <1>0, <1>4, <1>7, <1>q, <2>1, <2>3, CopiesStay DEF BackupInv, FileTypes
  <2>5. MakerKnows'
    BY <1>0, <1>1, <1>2, <1>7, <1>q DEF CopyInv, MakerKnows
  <2> QED BY <2>4, <2>5 DEF CopyInv
<1> QED BY <1>0, <1>t, <1>5, <1>6, <1>7 DEF BackupInv

(* A failed backup is removed, in part or as a whole.                      *)
LEMMA RemoveKeeps ==
    ASSUME BackupInv, NEW p \in Operators, BackupRemoves(p)
    PROVE  BackupInv'
<1>0. /\ op \in [Operators -> OpTypes] /\ op[p].at = "removing" /\ Making = {p}
      /\ op' = [op EXCEPT ![p] = Idle] /\ UNCHANGED <<stored, target, spent>>
  <2>1. op \in [Operators -> OpTypes] /\ op[p].at = "removing"
    BY DEF BackupInv, FileTypes, BackupRemoves, At
  <2>2. Making = {p}
    BY <2>1 DEF Making, BackupInv, OwnerInv
  <2> QED BY <2>1, <2>2 DEF BackupRemoves
<1>1. /\ op'[p] = Idle /\ op' \in [Operators -> OpTypes]
      /\ \A q \in Operators : q # p => op'[q] = op[q]
      /\ Idle.at = "idle" /\ Idle.next = 1 /\ Idle.sums = NoFiles
  BY <1>0, RolesAre DEF Idle
<1>2. /\ out' \in [exists : BOOLEAN, files : Files, manifest : {"absent", "partial", "whole"},
                   sums : Sums]
      /\ \A r \in RoleSet : out'.files[r] \in {out.files[r], Absent}
      /\ \/ out'.manifest = out.manifest /\ out'.sums = out.sums
         \/ out'.manifest = "absent" /\ out'.sums = NoFiles
  <2>0. out \in [exists : BOOLEAN, files : Files, manifest : {"absent", "partial", "whole"},
                 sums : Sums]
    BY DEF BackupInv, FileTypes
  <2>1. PICK left \in {out, [out EXCEPT !.manifest = "absent", !.sums = NoFiles]} :
           out' \in Removed(left, NoDirectory)
    BY DEF BackupRemoves
  <2>2. /\ left \in [exists : BOOLEAN, files : Files, manifest : {"absent", "partial", "whole"},
                     sums : Sums]
        /\ left.files = out.files
        /\ \/ left.manifest = out.manifest /\ left.sums = out.sums
           \/ left.manifest = "absent" /\ left.sums = NoFiles
    BY <2>0, <2>1, RolesAre
  <2>3. CASE out' = NoDirectory
    BY <2>3, RolesAre DEF NoDirectory, NoFiles
  <2>4. ASSUME NEW kept \in SUBSET RoleSet,
               out' = [left EXCEPT !.files = [r \in RoleSet |-> IF r \in kept THEN @[r] ELSE Absent]]
        PROVE  /\ out' \in [exists : BOOLEAN, files : Files,
                            manifest : {"absent", "partial", "whole"}, sums : Sums]
               /\ \A r \in RoleSet : out'.files[r] \in {out.files[r], Absent}
               /\ out'.manifest = left.manifest /\ out'.sums = left.sums
    <3>1. [r \in RoleSet |-> IF r \in kept THEN left.files[r] ELSE Absent] \in Files
      BY <2>2 DEF Files
    <3> QED BY <2>2, <2>4, <3>1
  <2> QED BY <2>1, <2>2, <2>3, <2>4 DEF Removed
<1>t. FileTypes'
  BY <1>0, <1>1, <1>2 DEF BackupInv, FileTypes
<1>4. Making' = {} /\ Filling' = Filling /\ Restoring' = Restoring
  BY <1>0, <1>1 DEF Making, Filling, Restoring
<1>q. /\ \A q \in Operators : op'[q].at \notin {"copying", "writing", "written"}
      /\ \A q \in Restoring : q # p /\ q \in Operators /\ op'[q] = op[q]
      /\ Filling \subseteq Restoring
  BY <1>0, <1>1 DEF Making, Restoring, Filling
<1>5. OwnerInv'
  BY <1>0, <1>1, <1>4 DEF BackupInv, OwnerInv, CopiesDone
<1>6. ManifestInv'
  BY <1>0, <1>2, <1>4, <1>q DEF BackupInv, ManifestInv, Past
<1>7. ASSUME CopyInv PROVE CopyInv'
  <2>1. \A r \in RoleSet : Known(r)' \subseteq Known(r)
    BY <1>2, <1>4 DEF Known, NoFiles
  <2>3. \A r \in RoleSet : stored[r] \in Nat
    BY DEF BackupInv, FileTypes
  <2>4. OneVersion' /\ NotOlder' /\ TargetInv'
    BY <1>0, <1>4, <1>7, <1>q, <2>1, <2>3, CopiesStay DEF BackupInv, FileTypes
  <2> QED BY <1>q, <2>4 DEF CopyInv, MakerKnows
<1> QED BY <1>0, <1>t, <1>5, <1>6, <1>7 DEF BackupInv

(* The restore directory is made.                                          *)
LEMMA MkdirTargetKeeps ==
    ASSUME BackupInv, NEW p \in Operators, RestoreMkdir(p), ~target.exists
    PROVE  BackupInv'
<1>0. /\ op \in [Operators -> OpTypes] /\ op[p].at = "mkdir_target" /\ op[p].next = 1
      /\ Filling = {}
  BY DEF BackupInv, FileTypes, OwnerInv, RestoreMkdir, At
<1>1. /\ op' = [op EXCEPT ![p].at = "reading"]
      /\ target' = [target EXCEPT !.exists = TRUE] /\ UNCHANGED <<stored, out, spent>>
  BY DEF RestoreMkdir, Goto
<1>2. /\ op'[p].at = "reading" /\ op'[p].next = 1 /\ op'[p].sums = op[p].sums
      /\ \A q \in Operators : q # p => op'[q] = op[q]
      /\ op' \in [Operators -> OpTypes]
  BY <1>0, <1>1 DEF OpTypes
<1>t. FileTypes' /\ target'.exists
  BY <1>1, <1>2 DEF BackupInv, FileTypes
<1>4. Making' = Making /\ Filling' = {p} /\ Restoring' = Restoring
  BY <1>0, <1>2 DEF Making, Filling, Restoring
<1>q. /\ \A q \in Operators : op'[q].next = op[q].next /\ op'[q].sums = op[q].sums
      /\ \A q \in Operators : op'[q].at \in {"copying", "writing", "written"} => op'[q] = op[q]
      /\ Making \subseteq Operators /\ Restoring \subseteq Operators
  BY <1>0, <1>2 DEF Making, Restoring, Filling
<1>5. OwnerInv'
  BY <1>0, <1>1, <1>2, <1>4, <1>t DEF BackupInv, OwnerInv, CopiesDone
<1>6. ManifestInv'
  BY <1>1, <1>4, <1>q DEF BackupInv, ManifestInv, Past
<1>7. ASSUME CopyInv PROVE CopyInv'
  <2>1. \A r \in RoleSet : Known(r)' \subseteq Known(r)
    BY <1>1, <1>4, <1>q DEF Known
  <2>3. \A r \in RoleSet : stored[r] \in Nat
    BY DEF BackupInv, FileTypes
  <2>4. OneVersion' /\ NotOlder' /\ TargetInv'
    BY <1>1, <1>2, <1>4, <1>7, <1>q, <2>1, <2>3, CopiesStay DEF BackupInv, FileTypes
  <2> QED BY <1>1, <1>7, <1>q, <2>4 DEF CopyInv, MakerKnows
<1> QED BY <1>1, <1>t, <1>5, <1>6, <1>7 DEF BackupInv

(* A copy is restored: it is the version verified or a later one, and then *)
(* every copy of that database is.                                         *)
LEMMA RestoreCopyKeeps ==
    ASSUME BackupInv, NEW p \in Operators, RestoreCopies(p)
    PROVE  BackupInv'
<1>0. PICK k \in 1..Len(Roles), r \in RoleSet :
         /\ op[p].next = k /\ r = Roles[k] /\ out.files[r] # Absent
         /\ target' = [target EXCEPT !.files[r] = out.files[r]]
         /\ op' = [op EXCEPT ![p].next = @ + 1]
  <2>1. op[p].next \in 1..Len(Roles)
    BY RolesAre DEF BackupInv, FileTypes, OpTypes, RestoreCopies
  <2> QED BY <2>1, RolesAre DEF RestoreCopies
<1>1. /\ op \in [Operators -> OpTypes] /\ op[p].at = "restoring"
      /\ k \in Nat /\ Len(Roles) \in Nat /\ UNCHANGED <<stored, out, spent>>
  BY RolesAre DEF BackupInv, FileTypes, RestoreCopies, At
<1>2. /\ op'[p].at = "restoring" /\ op'[p].next = k + 1 /\ op'[p].sums = op[p].sums
      /\ \A q \in Operators : q # p => op'[q] = op[q]
      /\ op' \in [Operators -> OpTypes]
  BY <1>0, <1>1 DEF OpTypes
<1>3. /\ target'.exists = target.exists /\ target'.files = [target.files EXCEPT ![r] = out.files[r]]
      /\ target.files \in Files /\ target' \in [exists : BOOLEAN, files : Files]
  <2>1. target \in [exists : BOOLEAN, files : Files] /\ out.files[r] \in Nat \cup {Absent, Damaged}
    BY DEF BackupInv, FileTypes, Files
  <2>2. [target.files EXCEPT ![r] = out.files[r]] \in Files
    BY <2>1 DEF Files
  <2> QED BY <1>0, <2>1, <2>2
<1>t. FileTypes'
  BY <1>1, <1>2, <1>3 DEF BackupInv, FileTypes
<1>4. Making' = Making /\ Filling' = Filling /\ Restoring' = Restoring
  BY <1>1, <1>2 DEF Making, Filling, Restoring
<1>q. /\ \A q \in Operators : op'[q].at = op[q].at /\ op'[q].sums = op[q].sums
      /\ \A q \in Making : q # p /\ op'[q] = op[q]
      /\ Making \subseteq Operators /\ Restoring \subseteq Operators
      /\ p \in Filling /\ p \in Restoring /\ Filling \subseteq {p}
  BY <1>1, <1>2 DEF Making, Restoring, Filling, BackupInv, OwnerInv
<1>5. OwnerInv'
  BY <1>1, <1>2, <1>3, <1>4, <1>q DEF BackupInv, OwnerInv, CopiesDone
<1>6. ManifestInv'
  BY <1>1, <1>4, <1>q DEF BackupInv, ManifestInv, Past
<1>7. ASSUME CopyInv PROVE CopyInv'
  <2>1. \A s \in RoleSet : Known(s)' = Known(s)
    BY <1>1, <1>4, <1>q DEF Known
  <2>2. OneVersion' /\ NotOlder' /\ MakerKnows'
    BY <1>1, <1>4, <1>7, <1>q, <2>1 DEF CopyInv, OneVersion, NotOlder, MakerKnows, Past
  <2>3. /\ out.files[r] \in Known(r)
        /\ out.files[r] \in op[p].sums[r]..stored[r]
        /\ \A x \in Known(r) : x >= out.files[r]
    <3>1. out.files[r] \in Known(r)
      BY <1>0 DEF Known
    <3>2. out.files[r] \in Past(r) /\ out.files[r] >= op[p].sums[r] /\ op[p].sums[r] \in Past(r)
      BY <1>7, <1>q, <3>1 DEF CopyInv, OneVersion, NotOlder, BackupInv, ManifestInv
    <3>3. \A x \in Known(r) : x = out.files[r]
      BY <1>7, <3>1 DEF CopyInv, OneVersion
    <3>4. stored[r] \in Nat
      BY DEF BackupInv, FileTypes
    <3> QED BY <3>1, <3>2, <3>3, <3>4 DEF Past
  <2>4. TargetInv'
    <3> SUFFICES ASSUME NEW q \in Filling', NEW i \in 1..(op'[q].next - 1)
                 PROVE  /\ target'.files[Roles[i]] \in op'[q].sums[Roles[i]]..stored'[Roles[i]]
                        /\ target'.files[Roles[i]] # op'[q].sums[Roles[i]] =>
                              \A x \in Known(Roles[i])' : x >= target'.files[Roles[i]]
      BY DEF TargetInv
    <3>0. q = p /\ op'[q].sums = op[p].sums /\ stored' = stored
      BY <1>1, <1>2, <1>4, <1>q
    <3>1. i \in 1..k /\ Roles[i] \in RoleSet
      BY <1>1, <1>2, <3>0, RolesAre
    <3>2. CASE Roles[i] = r
      <4>1. target'.files[r] = out.files[r]
        BY <1>3 DEF Files
      <4> QED BY <2>1, <2>3, <3>0, <3>2, <4>1
    <3>3. CASE Roles[i] # r
      <4>1. i # k
        BY <1>0, <3>3
      <4>2. i \in 1..(k - 1)
        BY <1>1, <3>1, <4>1
      <4>3. target'.files[Roles[i]] = target.files[Roles[i]]
        BY <1>3, <3>1, <3>3 DEF Files
      <4>4. /\ target.files[Roles[i]] \in op[p].sums[Roles[i]]..stored[Roles[i]]
            /\ target.files[Roles[i]] # op[p].sums[Roles[i]] =>
                  \A x \in Known(Roles[i]) : x >= target.files[Roles[i]]
        BY <1>0, <1>7, <1>q, <4>2 DEF CopyInv, TargetInv
      <4> QED BY <2>1, <3>0, <3>1, <4>3, <4>4
    <3> QED BY <3>2, <3>3
  <2> QED BY <2>2, <2>4 DEF CopyInv
<1> QED BY <1>1, <1>t, <1>5, <1>6, <1>7 DEF BackupInv

(* A failed restore leaves the target; what remains of it is nobody's.     *)
LEMMA RestoreFailKeeps ==
    ASSUME BackupInv, NEW p \in Operators, RestoreFails(p)
    PROVE  BackupInv'
<1>0. /\ op \in [Operators -> OpTypes] /\ op[p].at = "restoring" /\ Filling = {p}
      /\ op' = [op EXCEPT ![p] = Idle] /\ UNCHANGED <<stored, out>>
  <2>1. op \in [Operators -> OpTypes] /\ op[p].at = "restoring"
    BY DEF BackupInv, FileTypes, RestoreFails, At
  <2>2. Filling = {p}
    BY <2>1 DEF Filling, BackupInv, OwnerInv
  <2> QED BY <2>1, <2>2 DEF RestoreFails
<1>1. /\ op'[p] = Idle /\ op' \in [Operators -> OpTypes]
      /\ \A q \in Operators : q # p => op'[q] = op[q]
      /\ Idle.at = "idle" /\ Idle.next = 1 /\ Idle.sums = NoFiles
  BY <1>0, RolesAre DEF Idle
<1>2. target' \in [exists : BOOLEAN, files : Files]
  <2>0. target \in [exists : BOOLEAN, files : Files]
    BY DEF BackupInv, FileTypes
  <2>1. target' \in Removed(target, [exists |-> FALSE, files |-> NoFiles])
    BY DEF RestoreFails
  <2>2. CASE target' = [exists |-> FALSE, files |-> NoFiles]
    BY <2>2, RolesAre
  <2>3. ASSUME NEW kept \in SUBSET RoleSet,
               target' = [target EXCEPT !.files =
                             [r \in RoleSet |-> IF r \in kept THEN @[r] ELSE Absent]]
        PROVE  target' \in [exists : BOOLEAN, files : Files]
    <3>1. [r \in RoleSet |-> IF r \in kept THEN target.files[r] ELSE Absent] \in Files
      BY <2>0 DEF Files
    <3> QED BY <2>0, <2>3, <3>1
  <2> QED BY <2>1, <2>2, <2>3 DEF Removed
<1>s. /\ spent' \in [writes : Nat, faults : Nat, damage : Nat]
      /\ spent'.damage = spent.damage
  BY DEF RestoreFails, BackupInv, FileTypes
<1>t. FileTypes'
  BY <1>0, <1>1, <1>2, <1>s DEF BackupInv, FileTypes
<1>4. Making' = Making /\ Filling' = {} /\ Restoring' = Restoring \ {p}
  BY <1>0, <1>1 DEF Making, Filling, Restoring
<1>q. /\ \A q \in Operators : op'[q].at \in {"copying", "writing", "written"} => op'[q] = op[q]
      /\ \A q \in Restoring \ {p} : q \in Operators /\ op'[q] = op[q]
      /\ \A q \in Making : q \in Operators /\ op'[q] = op[q]
  BY <1>0, <1>1 DEF Making, Restoring, Filling
<1>5. OwnerInv'
  BY <1>0, <1>1, <1>4 DEF BackupInv, OwnerInv, CopiesDone
<1>6. ManifestInv'
  BY <1>0, <1>4, <1>q DEF BackupInv, ManifestInv, Past
<1>7. ASSUME CopyInv PROVE CopyInv'
  <2>1. \A r \in RoleSet : Known(r)' \subseteq Known(r)
    BY <1>0, <1>4, <1>q DEF Known
  <2>3. \A r \in RoleSet : stored[r] \in Nat
    BY DEF BackupInv, FileTypes
  <2>4. OneVersion' /\ NotOlder' /\ TargetInv'
    BY <1>0, <1>4, <1>7, <1>q, <2>1, <2>3, CopiesStay DEF BackupInv, FileTypes
  <2> QED BY <1>0, <1>7, <1>q, <2>4 DEF CopyInv, MakerKnows
<1> QED BY <1>s, <1>t, <1>5, <1>6, <1>7 DEF BackupInv

(* A service writes: past versions stay past versions.                     *)
LEMMA WriteKeeps ==
    ASSUME BackupInv, NEW r0 \in RoleSet, Write(r0)
    PROVE  BackupInv'
<1>1. /\ stored' = [stored EXCEPT ![r0] = @ + 1] /\ UNCHANGED <<op, out, target>>
      /\ spent' = [spent EXCEPT !.writes = @ + 1]
  BY DEF Write
<1>2. /\ stored \in [RoleSet -> Nat] /\ stored' \in [RoleSet -> Nat]
      /\ \A r \in RoleSet : stored'[r] >= stored[r]
  BY <1>1 DEF BackupInv, FileTypes
<1>3. \A r \in RoleSet : Past(r) \subseteq Past(r)'
  BY <1>2 DEF Past
<1>t. FileTypes' /\ spent'.damage = spent.damage
  BY <1>1, <1>2 DEF BackupInv, FileTypes
<1>4. /\ Making' = Making /\ Filling' = Filling /\ Restoring' = Restoring
      /\ \A r \in RoleSet : Known(r)' = Known(r)
      /\ Filling \subseteq Restoring
  BY <1>1 DEF Making, Filling, Restoring, Known
<1>5. OwnerInv'
  BY <1>1, <1>4 DEF BackupInv, OwnerInv, CopiesDone
<1>6. ManifestInv'
  <2>1. \A q \in Operators : \A i \in 1..(op[q].next - 1) : Roles[i] \in RoleSet
    BY RolesAre DEF BackupInv, FileTypes, OpTypes
  <2> QED BY <1>1, <1>3, <1>4, <2>1 DEF BackupInv, ManifestInv
<1>7. ASSUME CopyInv PROVE CopyInv'
  <2>1. OneVersion' /\ NotOlder' /\ TargetInv'
    BY <1>1, <1>2, <1>4, <1>7, CopiesStay DEF BackupInv
  <2> QED BY <1>1, <1>7, <2>1 DEF CopyInv, MakerKnows
<1> QED BY <1>t, <1>5, <1>6, <1>7 DEF BackupInv

(* The medium damages a file: from now on copies are not spoken of.        *)
LEMMA DamageKeeps ==
    ASSUME BackupInv, NEW r0 \in RoleSet, Damage(r0)
    PROVE  BackupInv'
<1>1. /\ out' = [out EXCEPT !.files[r0] = Damaged] /\ UNCHANGED <<stored, op, target>>
      /\ spent' = [spent EXCEPT !.damage = @ + 1]
  BY DEF Damage
<1>2. /\ out'.exists = out.exists /\ out'.manifest = out.manifest /\ out'.sums = out.sums
      /\ out' \in [exists : BOOLEAN, files : Files, manifest : {"absent", "partial", "whole"},
                   sums : Sums]
  <2>1. [out.files EXCEPT ![r0] = Damaged] \in Files
    BY DEF BackupInv, FileTypes, Files
  <2> QED BY <1>1, <2>1 DEF BackupInv, FileTypes
<1>t. FileTypes' /\ spent'.damage # 0
  BY <1>1, <1>2 DEF BackupInv, FileTypes
<1>4. Making' = Making /\ Filling' = Filling /\ Restoring' = Restoring
  BY <1>1 DEF Making, Filling, Restoring
<1>5. OwnerInv'
  BY <1>1, <1>2, <1>4 DEF BackupInv, OwnerInv, CopiesDone
<1>6. ManifestInv'
  BY <1>1, <1>2, <1>4 DEF BackupInv, ManifestInv, Past
<1> QED BY <1>t, <1>5, <1>6 DEF BackupInv

(* Nothing happens to the files.                                           *)
LEMMA BackupStutter == BackupInv /\ UNCHANGED backupVars => BackupInv'
<1> SUFFICES ASSUME BackupInv, UNCHANGED backupVars PROVE BackupInv'
  OBVIOUS
<1>1. UNCHANGED stored /\ UNCHANGED op /\ UNCHANGED out /\ UNCHANGED target /\ UNCHANGED spent
  BY DEF backupVars
<1>2. /\ Making' = Making /\ Filling' = Filling /\ Restoring' = Restoring
      /\ \A r \in RoleSet : Known(r)' = Known(r)
  BY <1>1 DEF Making, Filling, Restoring, Known
<1>3. FileTypes' /\ OwnerInv' /\ ManifestInv'
  BY <1>1, <1>2 DEF BackupInv, FileTypes, OwnerInv, ManifestInv, CopiesDone, Past
<1>4. ASSUME CopyInv PROVE CopyInv'
  <2>1. OneVersion' /\ NotOlder' /\ TargetInv'
    BY <1>1, <1>2, <1>4, CopiesStay DEF BackupInv, FileTypes, Restoring
  <2> QED BY <1>1, <1>4, <2>1 DEF CopyInv, MakerKnows
<1> QED BY <1>1, <1>3, <1>4 DEF BackupInv

(* Every step keeps the invariant of backups.                              *)
LEMMA BackupStep == BackupInv /\ [BackupNext]_backupVars => BackupInv'
<1> SUFFICES ASSUME BackupInv, BackupNext PROVE BackupInv'
  BY BackupStutter
<1>1. ASSUME NEW p \in Operators, BackupProcess(p) \/ RestoreProcess(p) \/ Killed(p)
      PROVE  BackupInv'
  <2>1. CASE \/ BackupChecks(p) \/ BackupReturns(p) \/ BackupFails(p) \/ Killed(p)
             \/ RestoreBegins(p) \/ RestoreVerifies(p) \/ RestoreChecks(p)
             \/ RestoreReads(p) \/ RestoreReturns(p)
             \/ BackupMkdir(p) /\ out.exists
             \/ RestoreMkdir(p) /\ target.exists
    <3>1. FileTypes
      BY DEF BackupInv
    <3>2. /\ Others(p) /\ Moved(p) /\ UNCHANGED <<stored, out, target>>
          /\ spent' \in [writes : Nat, faults : Nat, damage : Nat]
          /\ spent'.damage = spent.damage
      BY <2>1, <3>1, MovedIs
    <3> QED BY <3>2, MoveKeeps
  <2>2. CASE BackupMkdir(p) /\ ~out.exists
    BY <2>2, MkdirKeeps
  <2>3. CASE BackupCopies(p)
    BY <2>3, CopyKeeps
  <2>4. CASE BackupOpensManifest(p) \/ BackupWritesManifest(p)
    BY <2>4, ManifestKeeps
  <2>5. CASE BackupRemoves(p)
    BY <2>5, RemoveKeeps
  <2>6. CASE RestoreMkdir(p) /\ ~target.exists
    BY <2>6, MkdirTargetKeeps
  <2>7. CASE RestoreCopies(p)
    BY <2>7, RestoreCopyKeeps
  <2>8. CASE RestoreFails(p)
    BY <2>8, RestoreFailKeeps
  <2> QED BY <1>1, <2>1, <2>2, <2>3, <2>4, <2>5, <2>6, <2>7, <2>8 DEF BackupProcess, RestoreProcess
<1>2. ASSUME NEW r \in RoleSet, Write(r) \/ Damage(r) PROVE BackupInv'
  BY <1>2, WriteKeeps, DamageKeeps
<1> QED BY <1>1, <1>2 DEF BackupNext

(* The invariant of backups says what they promise: a verified file has    *)
(* the manifest's sum, which is of a past version; and a restored file     *)
(* that is not the verified one would be later than the manifest's sum.    *)
LEMMA BackupInvSays == BackupInv => BackupsAreWhole
<1> SUFFICES ASSUME BackupInv PROVE BackupsAreWhole
  OBVIOUS
<1>0. /\ stored \in [RoleSet -> Nat] /\ op \in [Operators -> OpTypes]
      /\ out.files \in Files /\ out.sums \in Sums /\ target.files \in Files
      /\ \A r \in RoleSet : stored[r] \in Nat /\ Absent \notin Past(r)
  BY BackupAssumption DEF BackupInv, FileTypes, Past
<1>1. ASSUME Verifies, NEW r \in RoleSet PROVE out.files[r] \in 0..stored[r]
  BY <1>0, <1>1 DEF Verifies, BackupInv, ManifestInv, Past
<1>2. ASSUME NEW p \in Operators, spent.damage = 0, At(p, "written") PROVE Verifies
  <2>1. out.manifest = "whole" /\ out.sums = op[p].sums /\ out.files = op[p].sums
    BY <1>2 DEF At, BackupInv, ManifestInv, CopyInv, MakerKnows
  <2> QED BY <2>1 DEF Verifies
<1>3. ASSUME NEW p \in Operators, spent.damage = 0, At(p, "restored"), out.sums = op[p].sums
      PROVE  target.files = op[p].sums
  <2>1. p \in Filling /\ p \in Restoring /\ CopiesDone(p)
    BY <1>3 DEF At, Filling, Restoring, BackupInv, OwnerInv
  <2>2. ASSUME NEW r \in RoleSet PROVE target.files[r] = op[p].sums[r]
    <3>1. PICK i \in 1..Len(Roles) : r = Roles[i]
      BY RolesAre
    <3>2. i \in 1..(op[p].next - 1)
      BY <1>0, <2>1, RolesAre DEF CopiesDone, OpTypes
    <3>3. /\ target.files[r] \in op[p].sums[r]..stored[r]
          /\ target.files[r] # op[p].sums[r] => \A x \in Known(r) : x >= target.files[r]
      BY <1>3, <2>1, <3>1, <3>2 DEF BackupInv, CopyInv, TargetInv
    <3>4. op[p].sums[r] \in Past(r)
      BY <2>1 DEF BackupInv, ManifestInv
    <3>5. op[p].sums[r] \in Known(r)
      BY <1>0, <1>3, <3>4 DEF Known
    <3> QED BY <1>0, <3>3, <3>4, <3>5 DEF Past
  <2> QED BY <1>0, <2>2 DEF Files, Sums, OpTypes
<1> QED BY <1>1, <1>2, <1>3 DEF BackupsAreWhole

(* Whatever operators, services, failures, interrupts and kills do to one  *)
(* output and one target: a backup that verifies has every database as it  *)
(* was at some time, one that is reported verifies, and a restore reports  *)
(* only what it has verified, for any number of operators and databases.   *)
THEOREM BackupsWhole == BackupSpec => []BackupsAreWhole
<1>1. BackupInit => BackupInv
  <2> SUFFICES ASSUME BackupInit PROVE BackupInv
    OBVIOUS
  <2>0. Idle.at = "idle" /\ Idle.next = 1 /\ Idle.sums = NoFiles /\ Idle \in OpTypes
    BY RolesAre DEF Idle
  <2>1. FileTypes
    BY <2>0, RolesAre DEF BackupInit, FileTypes, NoDirectory
  <2>2. Making = {} /\ Filling = {} /\ Restoring = {} /\ \A p \in Operators : op[p] = Idle
    BY <2>0 DEF BackupInit, Making, Filling, Restoring
  <2>3. OwnerInv /\ ManifestInv
    BY <2>0, <2>2 DEF BackupInit, OwnerInv, ManifestInv, NoDirectory
  <2>4. \A r \in RoleSet : Known(r) = {}
    BY <2>2 DEF BackupInit, Known, NoDirectory, NoFiles
  <2>5. CopyInv
    BY <2>0, <2>2, <2>4 DEF CopyInv, OneVersion, MakerKnows, NotOlder, TargetInv
  <2> QED BY <2>1, <2>3, <2>5 DEF BackupInv
<1> QED BY <1>1, BackupStep, BackupInvSays, PTL DEF BackupSpec
=============================================================================
