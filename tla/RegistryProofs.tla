--------------------------- MODULE RegistryProofs ---------------------------
(***************************************************************************)
(* Theorems about Registry: a robot with any capabilities and safety       *)
(* conditions, any number of sessions, publications, restarts, faults and  *)
(* submissions, and any clock.                                             *)
(***************************************************************************)
EXTENDS Registry, TLAPS

-----------------------------------------------------------------------------
(* The invariants.                                                         *)

Envelopes ==
    {e \in [type : {"manifest", "state"}, session : Sessions, stream : Streams,
            seq : Nat \ {0}, at : 0..MaxTime, body : Manifests \cup Safeties] :
        IsEnvelope(e)}

Times == 0..MaxTime

Tasks == [pc : {"idle", "manifest", "state", "safety", "stopped"},
          manifest : Manifests \cup {None}, safety : Safeties \cup {None},
          at : Times, force : BOOLEAN]

Views == [session : 0..MaxSessions, manifest : Manifests \cup {None},
          state : Envelopes \cup {None}, at : Times, last : [Streams -> Nat]]

Commands == [pc : {"none", "planning", "proposed", "submitted", "refused"},
             now : Times, capability : Capabilities \cup {None}]

(* A thread inside a publication has read the adapter of a robot that was  *)
(* started, and a state shown is one of the session whose manifest is.     *)
RobotTypes ==
    /\ now \in Times
    /\ robot \in [manifest : Manifests, safety : Safeties]
    /\ session \in 0..MaxSessions
    /\ seq \in [Streams -> Nat]
    /\ last \in [manifest : Manifests \cup {None}, safety : Safeties \cup {None}]
    /\ task \in [Publishers -> Tasks]
    /\ \A t \in Publishers : task[t].pc # "idle" =>
          session # 0 /\ task[t].manifest \in Manifests /\ task[t].safety \in Safeties
    /\ latest \in [Streams -> [at : Times, body : Safeties \cup {None}]]

ObserverTypes ==
    /\ up \in {"up", "stopping", "down"}
    /\ rows \subseteq [session : Sessions, seq : Nat]
    /\ latched \in BOOLEAN
    /\ monitor \in [healthy : BOOLEAN, ready : BOOLEAN]
    /\ active \in BOOLEAN /\ told \in BOOLEAN
    /\ cmd \in Commands

ChanTypes == chan \in [Sessions -> [Streams -> Seq(Envelopes)]]

ViewTypes ==
    /\ view \in Views
    /\ view.state # None => /\ view.manifest \in Manifests
                            /\ view.state.at = view.at /\ view.state.session = view.session

TypeInv == RobotTypes /\ ObserverTypes /\ ChanTypes /\ ViewTypes

(* The queues are numbered, and hold what the view has not yet seen.       *)
QueueInv ==
    /\ \A s \in Sessions, st \in Streams : \A i \in DOMAIN chan[s][st] :
          /\ chan[s][st][i].session = s /\ chan[s][st][i].stream = st
          /\ view.session = s => view.last[st] < chan[s][st][i].seq
          /\ s = session => chan[s][st][i].seq <= seq[st]
          /\ \A j \in DOMAIN chan[s][st] : i < j => chan[s][st][i].seq < chan[s][st][j].seq
    /\ \A s \in Sessions, st \in Streams : session < s => chan[s][st] = <<>>
    /\ view.session <= session
    /\ view.session = session => \A st \in Streams : view.last[st] <= seq[st]

(* No queued state is later than lt, and the last one that is as late is lt. *)
IsState(e, t) == e.type = "state" /\ e.at = t

Waits(C, t) == \E i \in DOMAIN C : IsState(C[i], t)

InOrder(C, lt) ==
    /\ \A i \in DOMAIN C : C[i].type = "state" => C[i].at <= lt.at
    /\ \A i \in DOMAIN C :
          /\ IsState(C[i], lt.at)
          /\ \A j \in DOMAIN C : IsState(C[j], lt.at) => j <= i
          => C[i].body = lt.body

(* What a view v of the running session shows of a stream's latest state.  *)
Shown(v, st) == v.session = session /\ v.state # None /\ v.state.stream = st

Reached(v, st) ==
    /\ latest[st].at <= IF v.session = session THEN v.at ELSE 0
    /\ Shown(v, st) /\ v.at = latest[st].at => v.state.body = latest[st].body

(* The latest state of a stream is on its way, or the view has reached it. *)
LatestInv ==
    session # 0 /\ session \notin gaps =>
        \A st \in Streams :
           /\ InOrder(chan[session][st], latest[st])
           /\ Waits(chan[session][st], latest[st].at) \/ Reached(view, st)
           /\ Shown(view, st) => view.at <= latest[st].at

-----------------------------------------------------------------------------
(* Publications.                                                           *)

(* What one publication puts into the queues.                              *)
PublishesAs(type, streams, refused, at, body) ==
    /\ session \in Sessions /\ streams \subseteq Streams /\ at \in Times
    /\ \/ type = "manifest" /\ streams = {"operational"} /\ body \in Manifests
       \/ type = "state" /\ body \in Safeties
    /\ Send(type, streams, refused, at, body)

Enveloped(type, st, at, body) ==
    [type |-> type, session |-> session, stream |-> st, seq |-> seq[st] + 1,
     at |-> at, body |-> body]

(* Only the queues of the running session grow, by the next number each.   *)
LEMMA SendIs ==
    ASSUME TypeInv, NEW type, NEW streams, NEW refused, NEW at, NEW body,
           PublishesAs(type, streams, refused, at, body)
    PROVE  /\ \A st \in streams : Enveloped(type, st, at, body) \in Envelopes
           /\ \A st \in Streams : st \in streams =>
                 /\ chan'[session][st] = Append(chan[session][st], Enveloped(type, st, at, body))
                 /\ seq'[st] = seq[st] + 1
           /\ \A st \in Streams : st \notin streams =>
                 chan'[session][st] = chan[session][st] /\ seq'[st] >= seq[st]
           /\ \A s \in Sessions : s # session => chan'[s] = chan[s]
           /\ ChanTypes' /\ seq' \in [Streams -> Nat]
           /\ latest' \in [Streams -> [at : Times, body : Safeties \cup {None}]]
           /\ \A st \in Streams : latest'[st] =
                 IF type = "state" /\ st \in streams /\ at >= latest[st].at
                 THEN [at |-> at, body |-> body] ELSE latest[st]
<1>0. chan \in [Sessions -> [Streams -> Seq(Envelopes)]] /\ seq \in [Streams -> Nat]
  BY DEF TypeInv, ChanTypes, RobotTypes
<1>1. ASSUME NEW st \in streams PROVE Enveloped(type, st, at, body) \in Envelopes
  <2>1. seq[st] + 1 \in Nat \ {0} /\ st \in Streams
    BY <1>0 DEF PublishesAs
  <2> QED BY <2>1 DEF PublishesAs, Enveloped, Envelopes, IsEnvelope, Times
<1>2. /\ seq'  = [st \in Streams |->
                    IF st \in streams \cup refused THEN seq[st] + 1 ELSE seq[st]]
      /\ chan' = [chan EXCEPT ![session] = [st \in Streams |->
                    IF st \in streams
                    THEN Append(chan[session][st], Enveloped(type, st, at, body))
                    ELSE chan[session][st]]]
      /\ latest' = [st \in Streams |->
                       IF type = "state" /\ st \in streams /\ at >= latest[st].at
                       THEN [at |-> at, body |-> body] ELSE latest[st]]
  BY DEF PublishesAs, Send, Enveloped
<1>3. session \in Sessions /\ streams \subseteq Streams
  BY DEF PublishesAs
<1>4. /\ \A st \in Streams : st \in streams =>
                 /\ chan'[session][st] = Append(chan[session][st], Enveloped(type, st, at, body))
                 /\ seq'[st] = seq[st] + 1
      /\ \A st \in Streams : st \notin streams =>
                 chan'[session][st] = chan[session][st] /\ seq'[st] >= seq[st]
      /\ \A s \in Sessions : s # session => chan'[s] = chan[s]
  BY <1>0, <1>2, <1>3
<1>5. ChanTypes'
  <2>1. ASSUME NEW st \in Streams
        PROVE  (IF st \in streams
                THEN Append(chan[session][st], Enveloped(type, st, at, body))
                ELSE chan[session][st]) \in Seq(Envelopes)
    BY <1>0, <1>1, <1>3
  <2> QED BY <1>0, <1>2, <1>3, <2>1 DEF ChanTypes
<1>6. seq' \in [Streams -> Nat]
  BY <1>0, <1>2
<1>7. latest' \in [Streams -> [at : Times, body : Safeties \cup {None}]]
  BY <1>2 DEF TypeInv, RobotTypes, PublishesAs
<1>8. \A st \in Streams : latest'[st] =
                 IF type = "state" /\ st \in streams /\ at >= latest[st].at
                 THEN [at |-> at, body |-> body] ELSE latest[st]
  BY <1>2
<1> QED BY <1>1, <1>4, <1>5, <1>6, <1>7, <1>8

(* The part of SendIs on the streams that are sent on.                      *)
LEMMA SendAppends ==
    ASSUME TypeInv, NEW type, NEW streams, NEW refused, NEW at, NEW body,
           PublishesAs(type, streams, refused, at, body)
    PROVE  \A st \in Streams : st \in streams =>
              chan'[session][st] = Append(chan[session][st], Enveloped(type, st, at, body))
<1>1. chan \in [Sessions -> [Streams -> Seq(Envelopes)]] /\ session \in Sessions
  BY DEF TypeInv, ChanTypes, PublishesAs
<1>2. chan' = [chan EXCEPT ![session] = [st \in Streams |->
                 IF st \in streams
                 THEN Append(chan[session][st], Enveloped(type, st, at, body))
                 ELSE chan[session][st]]]
  BY DEF PublishesAs, Send, Enveloped
<1> QED BY <1>1, <1>2

(* And on the others.                                                       *)
LEMMA SendLeaves ==
    ASSUME TypeInv, NEW type, NEW streams, NEW refused, NEW at, NEW body,
           PublishesAs(type, streams, refused, at, body)
    PROVE  \A st \in Streams : st \notin streams =>
              chan'[session][st] = chan[session][st] /\ latest'[st] = latest[st]
<1>1. chan \in [Sessions -> [Streams -> Seq(Envelopes)]] /\ session \in Sessions
  BY DEF TypeInv, ChanTypes, PublishesAs
<1>2. chan' = [chan EXCEPT ![session] = [st \in Streams |->
                 IF st \in streams
                 THEN Append(chan[session][st], Enveloped(type, st, at, body))
                 ELSE chan[session][st]]]
  BY DEF PublishesAs, Send, Enveloped
<1>3. latest' = [st \in Streams |->
                    IF type = "state" /\ st \in streams /\ at >= latest[st].at
                    THEN [at |-> at, body |-> body] ELSE latest[st]]
  BY DEF PublishesAs, Send
<1> QED BY <1>1, <1>2, <1>3

(* The publishing actions publish.                                         *)
Publishes ==
    \E type, streams, refused, at, body : PublishesAs(type, streams, refused, at, body)

(* Each step of the two publishing threads is such a publication or none.  *)
LEMMA PublishSteps ==
    ASSUME TypeInv
    PROVE  /\ PublishManifest => Publishes \/ UNCHANGED <<seq, chan, latest>>
           /\ \A t \in Publishers : PublishState(t) => Publishes
           /\ PublishSafetyState => Publishes
           /\ \A t \in Publishers : PublishRaises(t) => Publishes /\ task[t].pc # "idle"
<1>0. /\ session \in 0..MaxSessions /\ task \in [Publishers -> Tasks] /\ MaxSessions \in Nat
      /\ \A t \in Publishers : task[t].pc # "idle" =>
            session # 0 /\ task[t].manifest \in Manifests /\ task[t].safety \in Safeties
  BY RegistryAssumption DEF TypeInv, RobotTypes
<1>1. ASSUME NEW t \in Publishers, task[t].pc # "idle"
      PROVE  /\ session \in Sessions /\ task[t].at \in Times
             /\ task[t].manifest \in Manifests /\ task[t].safety \in Safeties
  BY <1>0, <1>1 DEF Sessions, Tasks
<1>2. "loop" \in Publishers /\ "exec" \in Publishers
  BY DEF Publishers
<1>3. ASSUME PublishManifest PROVE Publishes \/ UNCHANGED <<seq, chan, latest>>
  <2>1. task["loop"].pc # "idle"
    BY <1>3 DEF PublishManifest
  <2>2. CASE Send("manifest", {"operational"}, {}, task["loop"].at, task["loop"].manifest)
    BY <1>1, <1>2, <2>1, <2>2 DEF Publishes, PublishesAs, Streams
  <2> QED BY <1>3, <2>2 DEF PublishManifest
<1>4. ASSUME NEW t \in Publishers, PublishState(t) PROVE Publishes
  <2>1. task[t].pc # "idle" /\ StateStreams(task[t].safety) \subseteq Streams
    BY <1>4 DEF PublishState, StateStreams, Streams
  <2> QED BY <1>1, <1>4, <2>1 DEF PublishState, Publishes, PublishesAs
<1>5. ASSUME PublishSafetyState PROVE Publishes
  <2>1. task["exec"].pc # "idle"
    BY <1>5 DEF PublishSafetyState
  <2> QED BY <1>1, <1>2, <1>5, <2>1 DEF PublishSafetyState, Publishes, PublishesAs, Streams
<1>6. ASSUME NEW t \in Publishers, PublishRaises(t) PROVE Publishes /\ task[t].pc # "idle"
  <2>1. task[t].pc # "idle" /\ Sending(t) \subseteq Streams
    BY <1>6 DEF PublishRaises, Sending, StateStreams, Streams
  <2>2. PICK st \in Sending(t) :
           Send("state", IF st = "operational" THEN Sending(t) \ {st} ELSE {}, {st},
                task[t].at, task[t].safety)
    BY <1>6 DEF PublishRaises
  <2>3. (IF st = "operational" THEN Sending(t) \ {st} ELSE {}) \subseteq Streams
    BY <2>1
  <2> QED BY <1>1, <2>1, <2>2, <2>3 DEF Publishes, PublishesAs
<1> QED BY <1>3, <1>4, <1>5, <1>6

-----------------------------------------------------------------------------
(* The handlers.                                                           *)

(* The view after a manifest: of the same session, nothing but manifest    *)
(* and number change; of another, everything starts anew.                  *)
LEMMA ManifestViewIs ==
    ASSUME NEW v \in Views, NEW e \in Envelopes, e.type = "manifest", NEW w,
           w = ManifestView(v, e)
    PROVE  /\ w \in Views
           /\ v.session = e.session =>
                 /\ w.session = v.session /\ w.state = v.state /\ w.at = v.at
                 /\ w.manifest \in {v.manifest, e.body}
           /\ v.session # e.session =>
                 /\ w.session = e.session /\ w.state = None /\ w.at = 0
                 /\ w.manifest = e.body
           /\ w.last[e.stream] >= e.seq
           /\ \A st \in Streams : st # e.stream =>
                 w.last[st] = IF v.session = e.session THEN v.last[st] ELSE 0
           /\ v.session = e.session /\ v.last[e.stream] < e.seq => w.last[e.stream] = e.seq
           /\ v.session # e.session => w.last[e.stream] = e.seq
<1>0. /\ e.session \in Sessions /\ e.stream \in Streams /\ e.seq \in Nat /\ e.seq > 0
      /\ e.body \in Manifests /\ e.session \in 0..MaxSessions
  BY RegistryAssumption DEF Envelopes, IsEnvelope, Sessions
<1>1. PICK n \in [Streams -> Nat] : n = v.last
  BY DEF Views
<1>2. CASE v.session = e.session
  <2>1. CASE e.seq <= n[e.stream]
    <3>1. w = v
      BY <1>1, <1>2, <2>1 DEF ManifestView
    <3> QED BY <1>0, <1>1, <1>2, <2>1, <3>1
  <2>2. CASE ~(e.seq <= n[e.stream])
    <3>1. w = [v EXCEPT !.manifest = e.body, !.session = e.session, !.last[e.stream] = e.seq]
      BY <1>1, <1>2, <2>2 DEF ManifestView
    <3>2. /\ w \in Views /\ w.manifest = e.body /\ w.session = v.session /\ w.state = v.state
          /\ w.at = v.at /\ w.last = [n EXCEPT ![e.stream] = e.seq]
      BY <1>0, <1>1, <1>2, <3>1 DEF Views
    <3> QED BY <1>0, <1>1, <1>2, <3>2
  <2> QED BY <2>1, <2>2
<1>3. CASE v.session # e.session
  <2>1. PICK z \in [Streams -> Nat] : z = [st \in Streams |-> 0]
    OBVIOUS
  <2>2. PICK u : u = [v EXCEPT !.state = None, !.at = 0, !.last = z]
    OBVIOUS
  <2>3. u \in Views /\ u.state = None /\ u.at = 0 /\ u.last = z
    <3>1. 0 \in Times
      BY RegistryAssumption DEF Times
    <3> QED BY <2>1, <2>2, <3>1 DEF Views
  <2>4. ~(e.seq <= z[e.stream])
    BY <1>0, <2>1
  <2>5. w = [u EXCEPT !.manifest = e.body, !.session = e.session, !.last[e.stream] = e.seq]
    BY <1>3, <2>1, <2>2, <2>3, <2>4 DEF ManifestView
  <2>6. /\ w \in Views /\ w.manifest = e.body /\ w.session = e.session /\ w.state = None
        /\ w.at = 0 /\ w.last = [z EXCEPT ![e.stream] = e.seq]
    BY <1>0, <2>3, <2>5 DEF Views
  <2> QED BY <1>0, <1>3, <2>1, <2>6
<1> QED BY <1>2, <1>3

(* The view after a state of its session.                                  *)
LEMMA StateViewIs ==
    ASSUME NEW v \in Views, NEW e \in Envelopes, e.type = "state", NEW w,
           w = StateView(v, e)
    PROVE  /\ w \in Views
           /\ w.session = v.session /\ w.manifest = v.manifest
           /\ \/ w.state = v.state /\ w.at = v.at
              \/ w.state = e /\ w.at = e.at /\ e.at >= v.at
           /\ w.last[e.stream] >= e.seq
           /\ \A st \in Streams : st # e.stream => w.last[st] = v.last[st]
           /\ v.last[e.stream] < e.seq =>
                 /\ w.last[e.stream] = e.seq
                 /\ e.at >= v.at => w.state = e /\ w.at = e.at
<1>0. /\ e.session \in Sessions /\ e.stream \in Streams /\ e.seq \in Nat /\ e.at \in Times
      /\ v.at \in Times /\ v.at \in Nat /\ e.at \in Nat
  BY RegistryAssumption DEF Envelopes, IsEnvelope, Times, Views
<1>1. PICK n \in [Streams -> Nat] : n = v.last
  BY DEF Views
<1>2. CASE e.seq <= n[e.stream]
  <2>1. w = v
    BY <1>1, <1>2 DEF StateView
  <2> QED BY <1>0, <1>1, <1>2, <2>1
<1>3. CASE ~(e.seq <= n[e.stream])
  <2>1. PICK u : u = [v EXCEPT !.last[e.stream] = e.seq]
    OBVIOUS
  <2>2. /\ u \in Views /\ u.session = v.session /\ u.manifest = v.manifest
        /\ u.state = v.state /\ u.at = v.at /\ u.last = [n EXCEPT ![e.stream] = e.seq]
    BY <1>0, <1>1, <2>1 DEF Views
  <2>3. w = IF e.at < u.at THEN u ELSE [u EXCEPT !.state = e, !.at = e.at]
    BY <1>1, <1>3, <2>1 DEF StateView
  <2>4. CASE e.at < v.at
    BY <1>0, <1>1, <1>3, <2>2, <2>3, <2>4
  <2>5. CASE ~(e.at < v.at)
    <3>1. /\ w \in Views /\ w.session = v.session /\ w.manifest = v.manifest
          /\ w.state = e /\ w.at = e.at /\ w.last = u.last
      BY <1>0, <2>2, <2>3, <2>5 DEF Views
    <3>2. e.at >= v.at /\ w.last[e.stream] = e.seq
      BY <1>0, <1>1, <2>2, <2>5, <3>1
    <3> QED BY <1>0, <1>1, <2>2, <3>1, <3>2
  <2> QED BY <2>4, <2>5
<1> QED BY <1>2, <1>3

(* The envelope a handler is given, and the queues it leaves.              *)
LEMMA HandleIs ==
    ASSUME TypeInv, NEW s \in Sessions, NEW st \in Streams, Handle(s, st)
    PROVE  /\ chan[s][st] \in Seq(Envelopes) /\ chan[s][st] # <<>>
           /\ Head(chan[s][st]) \in Envelopes
           /\ chan'[s][st] = Tail(chan[s][st])
           /\ \A r \in Sessions, k \in Streams :
                 <<r, k>> # <<s, st>> => chan'[r][k] = chan[r][k]
           /\ ChanTypes'
           /\ UNCHANGED <<session, seq, latest>>
<1>0. chan \in [Sessions -> [Streams -> Seq(Envelopes)]]
  BY DEF TypeInv, ChanTypes
<1>1. PICK f \in [Streams -> Seq(Envelopes)] : f = chan[s]
  BY <1>0
<1>2. f[st] # <<>> /\ chan' = [chan EXCEPT ![s] = [f EXCEPT ![st] = Tail(f[st])]]
  BY <1>0, <1>1 DEF Handle
<1>3. f[st] \in Seq(Envelopes) /\ Head(f[st]) \in Envelopes /\ Tail(f[st]) \in Seq(Envelopes)
  BY <1>1, <1>2
<1>4. chan' \in [Sessions -> [Streams -> Seq(Envelopes)]]
  BY <1>0, <1>1, <1>2, <1>3
<1>5. chan'[s] = [f EXCEPT ![st] = Tail(f[st])] /\ \A r \in Sessions : r # s => chan'[r] = chan[r]
  BY <1>0, <1>2
<1>6. \A r \in Sessions, k \in Streams : <<r, k>> # <<s, st>> => chan'[r][k] = chan[r][k]
  BY <1>1, <1>5
<1> QED BY <1>1, <1>2, <1>3, <1>4, <1>5, <1>6 DEF Handle, robotVars, ChanTypes

(* What the registry shows after the handler.                              *)
LEMMA ViewAfter ==
    ASSUME TypeInv, NEW s \in Sessions, NEW st \in Streams, Handle(s, st)
    PROVE  ViewTypes'
<1>1. PICK e \in Envelopes : e = Head(chan[s][st])
  BY HandleIs
<1>2. view \in Views
  BY DEF TypeInv, ViewTypes
<1>3. CASE Raises(e)
  BY <1>1, <1>3 DEF Handle, TypeInv, ViewTypes
<1>4. CASE ~Raises(e) /\ e.type = "manifest"
  <2>1. view' = ManifestView(view, e)
    BY <1>1, <1>4 DEF Handle
  <2>2. e.body \in Manifests
    BY <1>4 DEF Envelopes, IsEnvelope
  <2> QED BY <1>2, <1>4, <2>1, <2>2, ManifestViewIs DEF TypeInv, ViewTypes
<1>5. CASE ~Raises(e) /\ e.type = "state"
  <2>1. view' = StateView(view, e)
    BY <1>1, <1>5 DEF Handle
  <2>2. view.session = e.session /\ view.manifest \in Manifests
    BY <1>2, <1>5 DEF Raises, Views
  <2> QED BY <1>2, <1>5, <2>1, <2>2, StateViewIs DEF TypeInv, ViewTypes
<1> QED BY <1>3, <1>4, <1>5 DEF Envelopes

-----------------------------------------------------------------------------
(* Type correctness.                                                       *)

(* A robot and an observer that have not started are typed.               *)
LEMMA TypeInit == Init => TypeInv
<1> SUFFICES ASSUME Init PROVE TypeInv
  OBVIOUS
<1>1. 0 \in Times /\ 0 \in 0..MaxSessions /\ "normal" \in Safeties
  BY RegistryAssumption DEF Times
<1>2. RobotTypes
  <2>1. IdleTask \in Tasks /\ IdleTask.pc = "idle"
    BY <1>1 DEF IdleTask, Tasks
  <2>2. Capabilities \in Manifests
    BY DEF Manifests
  <2>3. task \in [Publishers -> Tasks] /\ \A t \in Publishers : task[t].pc = "idle"
    BY <2>1 DEF Init
  <2>4. latest \in [Streams -> [at : Times, body : Safeties \cup {None}]]
    BY <1>1 DEF Init, NothingPublished
  <2>5. seq \in [Streams -> Nat]
    BY DEF Init
  <2> QED BY <1>1, <2>2, <2>3, <2>4, <2>5 DEF Init, RobotTypes
<1>3. ObserverTypes
  BY <1>1 DEF Init, ObserverTypes, NoCommand, Commands
<1>4. ChanTypes
  BY DEF Init, ChanTypes
<1>5. ViewTypes
  <2>1. [st \in Streams |-> 0] \in [Streams -> Nat]
    OBVIOUS
  <2> QED BY <1>1, <2>1 DEF Init, PeerView, ViewTypes, Views
<1> QED BY <1>2, <1>3, <1>4, <1>5 DEF TypeInv

(* What a thread reads is typed.                                           *)
LEMMA ReadingIs ==
    ASSUME RobotTypes, NEW pc \in {"manifest", "state", "safety"}, NEW force \in BOOLEAN
    PROVE  /\ Reading(pc, force) \in Tasks
           /\ Reading(pc, force).manifest \in Manifests /\ Reading(pc, force).safety \in Safeties
BY DEF RobotTypes, Reading, Tasks

(* Both threads of the robot keep its part of the invariant.              *)
LEMMA RobotTypesKept == TypeInv /\ [Next]_vars => RobotTypes'
<1> SUFFICES ASSUME TypeInv, [Next]_vars PROVE RobotTypes'
  OBVIOUS
<1>0. RobotTypes /\ MaxTime \in Nat /\ MaxSessions \in Nat /\ 0 \in Times
  BY RegistryAssumption DEF TypeInv, Times
<1>i. IdleTask \in Tasks /\ IdleTask.pc = "idle"
  BY <1>0 DEF IdleTask, Tasks
<1>p. "loop" \in Publishers /\ "exec" \in Publishers
  BY DEF Publishers
<1>1. CASE UNCHANGED <<now, robotVars>>
  BY <1>0, <1>1 DEF RobotTypes, robotVars
<1>2. CASE Tick
  BY <1>0, <1>2 DEF Tick, RobotTypes, robotVars, Times
<1>3. CASE RobotChanges
  <2>1. robot' \in [manifest : Manifests, safety : Safeties]
    BY <1>0, <1>3 DEF RobotChanges, RobotTypes
  <2> QED BY <1>0, <1>3, <2>1 DEF RobotChanges, RobotTypes
<1>4. CASE RobotStarts
  <2>1. session' \in 0..MaxSessions /\ session' # 0
    BY <1>0, <1>4 DEF RobotStarts, RobotTypes
  <2>2. Reading("manifest", TRUE) \in Tasks /\ Reading("manifest", TRUE).manifest \in Manifests
        /\ Reading("manifest", TRUE).safety \in Safeties
    BY <1>0, ReadingIs
  <2>3. task' \in [Publishers -> Tasks] /\ \A t \in Publishers : task'[t].pc # "idle" =>
            task'[t].manifest \in Manifests /\ task'[t].safety \in Safeties
    BY <1>4, <1>i, <2>2 DEF RobotStarts
  <2>4. latest' \in [Streams -> [at : Times, body : Safeties \cup {None}]]
    BY <1>0, <1>4 DEF RobotStarts, NothingPublished
  <2>5. seq' \in [Streams -> Nat]
    BY <1>4 DEF RobotStarts
  <2> QED BY <1>0, <1>4, <2>1, <2>3, <2>4, <2>5 DEF RobotStarts, RobotTypes
<1>5. ASSUME NEW t \in Publishers, NEW r \in Tasks, task' = [task EXCEPT ![t] = r],
             r.pc # "idle" => session # 0 /\ r.manifest \in Manifests /\ r.safety \in Safeties,
             UNCHANGED <<now, robot, session>>,
             last' \in [manifest : Manifests \cup {None}, safety : Safeties \cup {None}],
             \/ UNCHANGED <<seq, latest>>
             \/ Publishes
      PROVE  RobotTypes'
  <2>1. /\ task' \in [Publishers -> Tasks]
        /\ \A u \in Publishers : task'[u].pc # "idle" =>
              session # 0 /\ task'[u].manifest \in Manifests /\ task'[u].safety \in Safeties
    BY <1>0, <1>5 DEF RobotTypes
  <2>2. /\ seq' \in [Streams -> Nat]
        /\ latest' \in [Streams -> [at : Times, body : Safeties \cup {None}]]
    BY <1>0, <1>5, SendIs DEF RobotTypes, Publishes
  <2> QED BY <1>0, <1>5, <2>1, <2>2 DEF RobotTypes
<1>6. CASE LoopRead
  <2>1. Reading("manifest", FALSE) \in Tasks /\ Reading("manifest", FALSE).manifest \in Manifests
        /\ Reading("manifest", FALSE).safety \in Safeties
    BY <1>0, ReadingIs
  <2> QED BY <1>0, <1>5, <1>6, <1>p, <2>1 DEF LoopRead, RobotTypes
<1>7. CASE ExecRead
  <2>1. PICK pc \in {"state", "safety"} : task' = [task EXCEPT !["exec"] = Reading(pc, FALSE)]
    BY <1>7 DEF ExecRead
  <2>2. Reading(pc, FALSE) \in Tasks /\ Reading(pc, FALSE).manifest \in Manifests
        /\ Reading(pc, FALSE).safety \in Safeties
    BY <1>0, ReadingIs
  <2> QED BY <1>0, <1>5, <1>7, <1>p, <2>1, <2>2 DEF ExecRead, RobotTypes
<1>8. CASE PublishManifest
  <2>1. PICK u \in Tasks : u = task["loop"]
    BY <1>0, <1>p DEF RobotTypes
  <2>2. u.pc = "manifest" /\ session # 0 /\ u.manifest \in Manifests /\ u.safety \in Safeties
    BY <1>0, <1>8, <1>p, <2>1 DEF PublishManifest, RobotTypes
  <2>3. PICK r : r = [u EXCEPT !.pc = "state"]
    OBVIOUS
  <2>4. r \in Tasks /\ r.manifest = u.manifest /\ r.safety = u.safety
    BY <2>3 DEF Tasks
  <2>5. task' = [task EXCEPT !["loop"] = r]
    BY <1>8, <2>1, <2>3 DEF PublishManifest
  <2>6. last' \in [manifest : Manifests \cup {None}, safety : Safeties \cup {None}]
    BY <1>0, <1>8, <2>1, <2>2 DEF PublishManifest, RobotTypes
  <2>7. Publishes \/ UNCHANGED <<seq, latest>>
    BY <1>8, PublishSteps
  <2>8. UNCHANGED <<now, robot, session>>
    BY <1>8 DEF PublishManifest
  <2> QED BY <1>5, <1>p, <2>2, <2>4, <2>5, <2>6, <2>7, <2>8
<1>9. ASSUME NEW t \in Publishers, task[t].pc # "idle", Publishes,
             last' = [last EXCEPT !.safety = task[t].safety],
             task' = [task EXCEPT ![t] = IdleTask], UNCHANGED <<now, robot, session>>
      PROVE  RobotTypes'
  <2>1. task[t].safety \in Safeties
    BY <1>0, <1>9 DEF RobotTypes
  <2>2. last' \in [manifest : Manifests \cup {None}, safety : Safeties \cup {None}]
    BY <1>0, <1>9, <2>1 DEF RobotTypes
  <2> QED BY <1>5, <1>9, <1>i, <2>2
<1>10. CASE Publication
  <2>1. CASE PublishSafetyState
    BY <1>9, <1>p, <2>1, PublishSteps DEF PublishSafetyState
  <2>2. CASE \E t \in Publishers : PublishState(t)
    <3>1. PICK t \in Publishers : PublishState(t)
      BY <2>2
    <3>2. Publishes
      BY <3>1, PublishSteps
    <3> QED BY <1>9, <3>1, <3>2 DEF PublishState
  <2> QED BY <1>6, <1>7, <1>8, <1>10, <2>1, <2>2 DEF Publication
<1>f. CASE PublicationFails
  <2>1. PICK t \in Publishers : PublishRaises(t)
    BY <1>f DEF PublicationFails
  <2>2. Publishes /\ session # 0 /\ task[t] \in Tasks
        /\ task[t].manifest \in Manifests /\ task[t].safety \in Safeties
    BY <1>0, <2>1, PublishSteps DEF RobotTypes
  <2>3. last' \in [manifest : Manifests \cup {None}, safety : Safeties \cup {None}]
    BY <1>0, <2>1, <2>2 DEF PublishRaises, RobotTypes
  <2>4. PICK r : r = IF t = "loop" THEN [task[t] EXCEPT !.pc = "stopped"] ELSE IdleTask
    OBVIOUS
  <2>5. r \in Tasks /\ (r.pc # "idle" => r.manifest \in Manifests /\ r.safety \in Safeties)
    BY <1>i, <2>2, <2>4 DEF Tasks
  <2>6. task' = [task EXCEPT ![t] = r] /\ UNCHANGED <<now, robot, session>>
    BY <2>1, <2>4 DEF PublishRaises
  <2> QED BY <1>5, <2>2, <2>3, <2>5, <2>6
<1>11. CASE Handlers
  <2>1. UNCHANGED <<now, robotVars>>
    BY <1>11 DEF Handlers, Handle
  <2> QED BY <1>1, <2>1
<1>12. CASE Service \/ Watchdog
  BY <1>1, <1>12 DEF Service, ObserverStarts, HealthCheck, ObserverStops, Watchdog,
                     EvaluateRead, EvaluateApply
<1>13. CASE Submission
  BY <1>1, <1>13 DEF Submission, WaitForParticipants, Propose, Validate, SubmissionDone
<1>14. CASE UNCHANGED vars
  BY <1>1, <1>14 DEF vars
<1> QED BY <1>2, <1>3, <1>4, <1>10, <1>f, <1>11, <1>12, <1>13, <1>14 DEF Next, Robot

(* A recorded event is typed.                                              *)
LEMMA RecordedIs ==
    ASSUME TypeInv, NEW e \in Envelopes
    PROVE  Recorded(e) \subseteq [session : Sessions, seq : Nat]
<1>1. e.session \in Sessions /\ e.seq \in Nat
  BY DEF Envelopes, IsEnvelope
<1> QED BY <1>1 DEF TypeInv, ObserverTypes, Recorded

(* So do recorder, watchdog and planner with theirs.                      *)
LEMMA ObserverTypesKept == TypeInv /\ [Next]_vars => ObserverTypes'
<1> SUFFICES ASSUME TypeInv, [Next]_vars PROVE ObserverTypes'
  OBVIOUS
<1>0. ObserverTypes /\ now \in Times /\ 0 \in Times /\ cmd \in Commands
  BY RegistryAssumption DEF TypeInv, RobotTypes, ObserverTypes, Times
<1>1. CASE UNCHANGED <<up, rows, latched, monitor, active, told, cmd>>
  BY <1>0, <1>1 DEF ObserverTypes
<1>2. CASE Robot \/ Publication \/ PublicationFails \/ Tick
  BY <1>1, <1>2 DEF Robot, RobotChanges, RobotStarts, Publication, LoopRead, PublishManifest,
        ExecRead, PublishSafetyState, PublishState, PublicationFails, PublishRaises, Tick,
        observerVars, dogVars
<1>3. ASSUME NEW s \in Sessions, NEW st \in Streams, Handle(s, st) PROVE ObserverTypes'
  <2>1. Recorded(Head(chan[s][st])) \subseteq [session : Sessions, seq : Nat]
    BY <1>3, HandleIs, RecordedIs
  <2>2. rows' \in {rows, Recorded(Head(chan[s][st]))} /\ (latched' = latched \/ latched' = TRUE)
    BY <1>3 DEF Handle, Record
  <2>3. UNCHANGED <<up, monitor, active, told, cmd>>
    BY <1>3 DEF Handle, dogVars
  <2> QED BY <1>0, <2>1, <2>2, <2>3 DEF ObserverTypes
<1>4. CASE ObserverStarts \/ HealthCheck
  <2>1. up' \in {"up", "stopping"} /\ UNCHANGED <<rows, latched, active, told, cmd>>
    BY <1>4 DEF ObserverStarts, HealthCheck, dogVars
  <2>2. \E b \in BOOLEAN : monitor' = [healthy |-> b, ready |-> b]
    BY <1>4 DEF ObserverStarts, HealthCheck
  <2>3. monitor' \in [healthy : BOOLEAN, ready : BOOLEAN]
    BY <2>2
  <2> QED BY <1>0, <2>1, <2>3 DEF ObserverTypes
<1>5. CASE ObserverStops
  <2>1. rows' \subseteq [session : Sessions, seq : Nat]
    <3>1. CASE rows' = rows
      BY <1>0, <3>1 DEF ObserverTypes
    <3>2. ASSUME NEW s \in Sessions, NEW st \in Streams, chan[s][st] # <<>>,
                 rows' = Recorded(Head(chan[s][st]))
          PROVE  rows' \subseteq [session : Sessions, seq : Nat]
      <4>1. chan[s][st] \in Seq(Envelopes)
        BY DEF TypeInv, ChanTypes
      <4>2. Head(chan[s][st]) \in Envelopes
        BY <3>2, <4>1
      <4> QED BY <3>2, <4>2, RecordedIs
    <3> QED BY <1>5, <3>1, <3>2 DEF ObserverStops
  <2>2. cmd' \in Commands
    BY <1>0, <1>5 DEF ObserverStops, MemoryLost, NoCommand, Commands
  <2>3. /\ latched' = FALSE /\ active' = FALSE /\ told' = FALSE /\ up' = "down"
        /\ monitor' \in [healthy : BOOLEAN, ready : BOOLEAN]
    BY <1>0, <1>5 DEF ObserverStops, MemoryLost, ObserverTypes
  <2> QED BY <2>1, <2>2, <2>3 DEF ObserverTypes
<1>6. CASE EvaluateRead
  BY <1>1, <1>6 DEF EvaluateRead, observerVars
<1>7. CASE EvaluateApply
  <2>1. (active' = active \/ active' = (eval = "stale")) /\ (told' = told \/ told' = (eval = "stale"))
    BY <1>7 DEF EvaluateApply, CallbackReturns, CallbackFails
  <2>2. active' \in BOOLEAN /\ told' \in BOOLEAN
    BY <1>0, <2>1 DEF ObserverTypes
  <2>3. UNCHANGED <<up, rows, latched, monitor, cmd>>
    BY <1>7 DEF EvaluateApply, observerVars
  <2> QED BY <1>0, <2>2, <2>3 DEF ObserverTypes
<1>8. CASE Submission
  <2>1. cmd' \in Commands
    <3>1. CASE WaitForParticipants
      BY <1>0, <3>1 DEF WaitForParticipants, Commands
    <3>2. CASE Propose
      BY <1>0, <3>2 DEF Propose, Commands
    <3>3. CASE Validate
      BY <1>0, <3>3 DEF Validate, Commands
    <3>4. CASE SubmissionDone
      BY <1>0, <3>4 DEF SubmissionDone, NoCommand, Commands
    <3> QED BY <1>8, <3>1, <3>2, <3>3, <3>4 DEF Submission
  <2>2. UNCHANGED <<up, rows, latched, monitor, active, told>>
    BY <1>8 DEF Submission, WaitForParticipants, Propose, Validate, SubmissionDone,
                observerVars, dogVars
  <2> QED BY <1>0, <2>1, <2>2 DEF ObserverTypes
<1>9. CASE UNCHANGED vars
  BY <1>1, <1>9 DEF vars, observerVars, dogVars
<1> QED
  BY <1>2, <1>3, <1>4, <1>5, <1>6, <1>7, <1>8, <1>9 DEF Next, Handlers, Service, Watchdog

(* How the queues and the view change.                                     *)
Moves ==
    \/ UNCHANGED <<chan, view, session, seq, latest, gaps>>
    \/ Publishes /\ UNCHANGED <<view, session, gaps>>
    \/ RobotStarts
    \/ \E s \in Sessions, st \in Streams : Handle(s, st)
    \/ ObserverStops

(* Every step is one of these.                                            *)
LEMMA StepMoves == TypeInv /\ [Next]_vars => Moves
<1> SUFFICES ASSUME TypeInv, [Next]_vars PROVE Moves
  OBVIOUS
<1>1. CASE RobotChanges \/ LoopRead \/ ExecRead \/ Tick \/ ObserverStarts \/ HealthCheck \/ Watchdog
  BY <1>1 DEF RobotChanges, LoopRead, ExecRead, Tick, ObserverStarts, HealthCheck, Watchdog,
              EvaluateRead, EvaluateApply, observerVars, robotVars, Moves
<1>2. CASE Submission
  BY <1>2 DEF Submission, WaitForParticipants, Propose, Validate, SubmissionDone,
              observerVars, robotVars, Moves
<1>3. CASE \/ PublishManifest \/ PublishSafetyState
           \/ \E t \in Publishers : PublishState(t) \/ PublishRaises(t)
  <2>1. UNCHANGED <<view, session, gaps>>
    BY <1>3 DEF PublishManifest, PublishSafetyState, PublishState, PublishRaises, observerVars
  <2> QED BY <1>3, <2>1, PublishSteps DEF Moves
<1>4. CASE UNCHANGED vars
  BY <1>4 DEF vars, observerVars, robotVars, Moves
<1> QED
  BY <1>1, <1>2, <1>3, <1>4
     DEF Next, Robot, Publication, PublicationFails, Handlers, Service, Moves

(* Queues and view keep their types too.                                  *)
LEMMA TypeStep == TypeInv /\ [Next]_vars => TypeInv'
<1> SUFFICES ASSUME TypeInv, [Next]_vars PROVE TypeInv'
  OBVIOUS
<1>1. RobotTypes' /\ ObserverTypes'
  BY RobotTypesKept, ObserverTypesKept
<1>2. ChanTypes' /\ ViewTypes'
  <2>0. ChanTypes /\ ViewTypes
    BY DEF TypeInv
  <2>1. CASE UNCHANGED <<chan, view, session, seq, latest, gaps>>
    BY <2>0, <2>1 DEF ChanTypes, ViewTypes
  <2>2. CASE Publishes /\ UNCHANGED <<view, session, gaps>>
    <3>1. ChanTypes'
      BY <2>2, SendIs DEF Publishes
    <3> QED BY <2>0, <2>2, <3>1 DEF ViewTypes
  <2>3. CASE RobotStarts
    BY <2>0, <2>3 DEF RobotStarts, ChanTypes, ViewTypes, observerVars
  <2>4. ASSUME NEW s \in Sessions, NEW st \in Streams, Handle(s, st)
        PROVE  ChanTypes' /\ ViewTypes'
    BY <2>4, HandleIs, ViewAfter
  <2>5. CASE ObserverStops
    <3>1. 0 \in Times /\ 0 \in 0..MaxSessions
      BY RegistryAssumption DEF Times
    <3>2. [st \in Streams |-> 0] \in [Streams -> Nat]
      OBVIOUS
    <3>3. ViewTypes'
      BY <2>5, <3>1, <3>2 DEF ObserverStops, MemoryLost, PeerView, ViewTypes, Views
    <3> QED BY <2>0, <2>5, <3>3 DEF ObserverStops, ChanTypes
  <2> QED BY <2>1, <2>2, <2>3, <2>4, <2>5, StepMoves DEF Moves
<1> QED BY <1>1, <1>2 DEF TypeInv

(* Robot, queues, observer, watchdog and submission keep their forms, and  *)
(* the registry never shows a state beside the manifest of another         *)
(* session, whatever is late, repeated or restarted.                       *)
THEOREM TypeCorrect == Spec => []TypeOK
<1>1. TypeInv => TypeOK
  <2> SUFFICES ASSUME TypeInv PROVE TypeOK
    OBVIOUS
  <2>1. \A e \in Envelopes : IsEnvelope(e)
    BY DEF Envelopes
  <2>2. \A s \in Sessions, st \in Streams :
          \A i \in 1..Len(chan[s][st]) : IsEnvelope(chan[s][st][i])
    <3> SUFFICES ASSUME NEW s \in Sessions, NEW st \in Streams, NEW i \in 1..Len(chan[s][st])
                 PROVE  chan[s][st][i] \in Envelopes
      BY <2>1
    <3>1. chan[s][st] \in Seq(Envelopes)
      BY DEF TypeInv, ChanTypes
    <3> QED BY <3>1
  <2>3. view.state # None => /\ IsEnvelope(view.state) /\ view.manifest \in Manifests
                            /\ view.state.at = view.at /\ view.state.session = view.session
    BY <2>1 DEF TypeInv, ViewTypes, Views
  <2>4. \A x \in {active, told, latched, monitor.healthy, monitor.ready} : x \in BOOLEAN
    BY DEF TypeInv, ObserverTypes
  <2>5. \A t \in Publishers :
          /\ task[t].pc \in {"idle", "manifest", "state", "safety", "stopped"}
          /\ task[t].pc \in {"state", "safety"} => task[t].safety \in Safeties
    BY DEF TypeInv, RobotTypes, Tasks
  <2>6. cmd.pc \in {"none", "planning", "proposed", "submitted", "refused"}
    BY DEF TypeInv, ObserverTypes, Commands
  <2> QED BY <2>2, <2>3, <2>4, <2>5, <2>6 DEF TypeInv, RobotTypes, ObserverTypes, TypeOK, Times
<1> QED BY <1>1, TypeInit, TypeStep, PTL DEF Spec

-----------------------------------------------------------------------------
(* Numbers and views.                                                      *)

(* The head of a queue is one the view has not seen, so that a handler     *)
(* refuses it, starts a new view, or brings the view forward.              *)
Refused(s) == view' = view /\ gaps' = gaps \cup {s}

Started(s, st, e) ==
    /\ view.session # s /\ view'.session = s /\ view'.state = None /\ view'.at = 0
    /\ view'.last[st] = e.seq /\ \A k \in Streams : k # st => view'.last[k] = 0
    /\ gaps' = gaps \cup ({view.session} \ {0})
    /\ e.type = "manifest"

Forwarded(s, st, e) ==
    /\ view.session = s /\ view'.session = s /\ gaps' = gaps
    /\ view'.last[st] = e.seq /\ \A k \in Streams : k # st => view'.last[k] = view.last[k]
    /\ \/ e.type = "manifest" /\ view'.state = view.state /\ view'.at = view.at
       \/ /\ e.type = "state"
          /\ IF e.at >= view.at THEN view'.state = e /\ view'.at = e.at
                                ELSE view'.state = view.state /\ view'.at = view.at

(* The head of a queue has one of the three outcomes.                     *)
LEMMA HandledView ==
    ASSUME TypeInv, QueueInv, NEW s \in Sessions, NEW st \in Streams, Handle(s, st),
           NEW e, e = Head(chan[s][st])
    PROVE  /\ e \in Envelopes /\ e.session = s /\ e.stream = st
           /\ view.session = s => view.last[st] < e.seq
           /\ s = session => e.seq <= seq[st]
           /\ Refused(s) \/ Started(s, st, e) \/ Forwarded(s, st, e)
<1>0. chan[s][st] \in Seq(Envelopes) /\ chan[s][st] # <<>> /\ e \in Envelopes
  BY HandleIs
<1>1. 1 \in DOMAIN chan[s][st] /\ e = chan[s][st][1]
  BY <1>0
<1>2. /\ e.session = s /\ e.stream = st
      /\ view.session = s => view.last[st] < e.seq
      /\ s = session => e.seq <= seq[st]
  BY <1>1 DEF QueueInv
<1>3. view \in Views /\ e.type \in {"manifest", "state"} /\ e.at \in Nat /\ view.at \in Nat
  <2>1. view \in Views /\ e.type \in {"manifest", "state"} /\ e.at \in Times
    BY <1>0 DEF TypeInv, ViewTypes, Envelopes, Times
  <2>2. view.at \in Times
    BY <2>1 DEF Views
  <2> QED BY <2>1, <2>2, RegistryAssumption DEF Times
<1>4. CASE Raises(e)
  <2>1. view' = view
    BY <1>4 DEF Handle
  <2>2. gaps' = gaps \cup {s}
    BY <1>4 DEF Handle
  <2> QED BY <1>0, <1>2, <2>1, <2>2 DEF Refused
<1>5. CASE ~Raises(e) /\ e.type = "manifest"
  <2>1. /\ view' = ManifestView(view, e)
        /\ gaps' = IF view'.session = view.session THEN gaps
                   ELSE gaps \cup ({view.session} \ {0})
    BY <1>5 DEF Handle
  <2>2. CASE view.session = s
    BY <1>0, <1>2, <1>3, <1>5, <2>1, <2>2, ManifestViewIs DEF Forwarded
  <2>3. CASE view.session # s
    BY <1>0, <1>2, <1>3, <1>5, <2>1, <2>3, ManifestViewIs DEF Started
  <2> QED BY <2>2, <2>3
<1>6. CASE ~Raises(e) /\ e.type = "state"
  <2>1. /\ view' = StateView(view, e) /\ view.session = s
        /\ gaps' = IF view'.session = view.session THEN gaps
                   ELSE gaps \cup ({view.session} \ {0})
    BY <1>2, <1>6 DEF Handle, Raises
  <2>2. /\ view'.session = s /\ view'.last[st] = e.seq
        /\ \A k \in Streams : k # st => view'.last[k] = view.last[k]
    BY <1>0, <1>2, <1>3, <1>6, <2>1, StateViewIs
  <2>3. CASE e.at >= view.at
    BY <1>0, <1>2, <1>3, <1>6, <2>1, <2>2, <2>3, StateViewIs DEF Forwarded
  <2>4. CASE ~(e.at >= view.at)
    <3>1. view'.state = view.state /\ view'.at = view.at
      BY <1>0, <1>3, <1>6, <2>1, <2>4, StateViewIs
    <3>2. gaps' = gaps
      BY <2>1, <2>2
    <3> QED BY <1>0, <1>2, <1>6, <2>1, <2>2, <2>4, <3>1, <3>2 DEF Forwarded
  <2> QED BY <2>3, <2>4
<1> QED BY <1>0, <1>2, <1>3, <1>4, <1>5, <1>6

(* QueueInv after a step.                                                  *)
QueuesNext ==
    /\ \A s \in Sessions, st \in Streams : \A i \in DOMAIN chan'[s][st] :
          /\ chan'[s][st][i].session = s /\ chan'[s][st][i].stream = st
          /\ view'.session = s => view'.last[st] < chan'[s][st][i].seq
          /\ s = session' => chan'[s][st][i].seq <= seq'[st]
          /\ \A j \in DOMAIN chan'[s][st] : i < j => chan'[s][st][i].seq < chan'[s][st][j].seq
    /\ \A s \in Sessions, st \in Streams : session' < s => chan'[s][st] = <<>>
    /\ view'.session <= session'
    /\ view'.session = session' => \A st \in Streams : view'.last[st] <= seq'[st]

(* Every step keeps the numbering.                                        *)
LEMMA QueueStep == TypeInv /\ QueueInv /\ [Next]_vars => QueueInv'
<1> SUFFICES ASSUME TypeInv, QueueInv, [Next]_vars PROVE QueuesNext
  BY DEF QueueInv, QueuesNext
<1>0. /\ session \in Nat /\ view.session \in Nat /\ MaxSessions \in Nat
      /\ \A st \in Streams : seq[st] \in Nat /\ view.last[st] \in Nat
      /\ chan \in [Sessions -> [Streams -> Seq(Envelopes)]]
  BY RegistryAssumption DEF TypeInv, RobotTypes, ViewTypes, Views, ChanTypes
<1>e. \A e \in Envelopes : e.seq \in Nat /\ e.seq > 0
  BY DEF Envelopes
<1>c. ASSUME NEW s \in Sessions, NEW st \in Streams, NEW i \in DOMAIN chan[s][st]
      PROVE  chan[s][st][i].seq \in Nat /\ chan[s][st][i].seq > 0 /\ i \in Nat
  <2>1. chan[s][st] \in Seq(Envelopes)
    BY <1>0
  <2>2. chan[s][st][i] \in Envelopes /\ i \in Nat
    BY <2>1
  <2> QED BY <1>e, <2>2
<1>1. CASE UNCHANGED <<chan, view, session, seq, latest, gaps>>
  BY <1>1 DEF QueueInv, QueuesNext
<1>2. CASE Publishes /\ UNCHANGED <<view, session, gaps>>
  <2>0. PICK type, streams, refused, at, body : PublishesAs(type, streams, refused, at, body)
    BY <1>2 DEF Publishes
  <2>s. \A st \in streams : Enveloped(type, st, at, body) \in Envelopes
    BY <2>0, SendIs
  <2>1. /\ \A st \in Streams : st \in streams =>
              /\ chan'[session][st] = Append(chan[session][st], Enveloped(type, st, at, body))
              /\ seq'[st] = seq[st] + 1
        /\ \A st \in Streams : st \notin streams =>
              chan'[session][st] = chan[session][st] /\ seq'[st] >= seq[st]
        /\ \A s \in Sessions : s # session => chan'[s] = chan[s]
    <3>1. seq' = [st \in Streams |->
                    IF st \in streams \cup refused THEN seq[st] + 1 ELSE seq[st]]
      BY <2>0 DEF PublishesAs, Send
    <3>2. \A st \in Streams : /\ st \in streams => seq'[st] = seq[st] + 1
                              /\ st \notin streams => seq'[st] >= seq[st]
      BY <1>0, <3>1
    <3>3. \A s \in Sessions : s # session => chan'[s] = chan[s]
      BY <1>0, <2>0 DEF PublishesAs, Send
    <3> QED BY <2>0, <3>2, <3>3, SendAppends, SendLeaves
  <2>n. seq' \in [Streams -> Nat] /\ seq \in [Streams -> Nat]
    BY <2>0, SendIs DEF TypeInv, RobotTypes
  <2>2. ASSUME NEW s \in Sessions, NEW st \in Streams, NEW i \in DOMAIN chan'[s][st]
        PROVE  /\ chan'[s][st][i].session = s /\ chan'[s][st][i].stream = st
               /\ view.session = s => view.last[st] < chan'[s][st][i].seq
               /\ s = session => chan'[s][st][i].seq <= seq'[st]
               /\ \A j \in DOMAIN chan'[s][st] : i < j => chan'[s][st][i].seq < chan'[s][st][j].seq
    <3>1. CASE s # session
      <4>1. chan'[s][st] = chan[s][st]
        BY <2>1, <3>1
      <4> QED BY <2>2, <3>1, <4>1 DEF QueueInv
    <3>2. CASE s = session /\ st \notin streams
      <4>1. chan'[s][st] = chan[s][st] /\ seq'[st] >= seq[st]
        BY <2>1, <3>2
      <4>2. chan[s][st][i].seq \in Nat /\ chan[s][st][i].seq <= seq[st]
        BY <1>c, <2>2, <3>2, <4>1 DEF QueueInv
      <4>3. chan[s][st][i].seq <= seq'[st]
        BY <2>n, <4>1, <4>2
      <4> QED BY <2>2, <4>1, <4>3 DEF QueueInv
    <3>3. CASE s = session /\ st \in streams
      <4>1. PICK C \in Seq(Envelopes), e \in Envelopes :
               /\ C = chan[s][st] /\ e = Enveloped(type, st, at, body)
        BY <1>0, <2>s, <3>3
      <4>2. /\ chan'[s][st] = Append(C, e) /\ seq'[st] = seq[st] + 1
            /\ e.session = s /\ e.stream = st /\ e.seq = seq[st] + 1
        BY <2>1, <3>3, <4>1 DEF Enveloped
      <4>3. PICK n \in Nat : n = Len(C)
        BY <4>1
      <4>4. /\ DOMAIN C = 1..n /\ DOMAIN chan'[s][st] = 1..n + 1
            /\ \A a \in 1..n : chan'[s][st][a] = C[a]
            /\ chan'[s][st][n + 1] = e
        BY <4>1, <4>2, <4>3
      <4>5. \A a \in 1..n : /\ C[a].session = s /\ C[a].stream = st
                            /\ view.session = s => view.last[st] < C[a].seq
                            /\ C[a].seq <= seq[st] /\ C[a].seq \in Nat
                            /\ \A b \in 1..n : a < b => C[a].seq < C[b].seq
        BY <1>c, <3>3, <4>1, <4>4 DEF QueueInv
      <4>6. view.session = s => view.last[st] < seq[st] + 1
        BY <1>0, <3>3 DEF QueueInv
      <4>7. \A a \in 1..n + 1 : a \in 1..n \/ a = n + 1
        BY <4>3
      <4>8. CASE i = n + 1
        BY <1>0, <2>2, <4>2, <4>3, <4>4, <4>6, <4>8
      <4>9. CASE i \in 1..n
        <5>1. chan'[s][st][i].seq <= seq'[st]
          BY <1>0, <4>2, <4>4, <4>5, <4>9
        <5>2. ASSUME NEW j \in 1..n + 1, i < j PROVE chan'[s][st][i].seq < chan'[s][st][j].seq
          <6>1. CASE j \in 1..n
            BY <4>4, <4>5, <4>9, <5>2, <6>1
          <6>2. CASE j = n + 1
            BY <1>0, <4>2, <4>4, <4>5, <4>9, <6>2
          <6> QED BY <4>7, <6>1, <6>2
        <5> QED BY <4>4, <4>5, <4>9, <5>1, <5>2
      <4> QED BY <4>4, <4>7, <4>8, <4>9
    <3> QED BY <3>1, <3>2, <3>3
  <2>3. \A s \in Sessions, st \in Streams : session < s => chan'[s][st] = <<>>
    BY <1>0, <2>1 DEF QueueInv, Sessions
  <2>4. view.session = session => \A st \in Streams : view.last[st] <= seq'[st]
    <3>1. \A st \in Streams : seq'[st] >= seq[st]
      BY <2>1, <2>n
    <3> QED BY <1>0, <2>n, <3>1 DEF QueueInv
  <2> QED BY <1>2, <2>2, <2>3, <2>4 DEF QueuesNext, QueueInv
<1>3. CASE RobotStarts
  <2>1. session' = session + 1 /\ UNCHANGED <<chan, view>>
    BY <1>3 DEF RobotStarts, observerVars
  <2>2. \A st \in Streams : chan[session + 1][st] = <<>> \/ session + 1 \notin Sessions
    BY <1>0 DEF QueueInv
  <2>3. view.session < session + 1
    BY <1>0 DEF QueueInv
  <2>4. \A s \in Sessions : session + 1 < s => session < s
    BY <1>0 DEF Sessions
  <2> QED BY <1>0, <2>1, <2>2, <2>3, <2>4 DEF QueueInv, QueuesNext
<1>4. ASSUME NEW s \in Sessions, NEW st \in Streams, Handle(s, st) PROVE QueuesNext
  <2>0. PICK e : e = Head(chan[s][st])
    OBVIOUS
  <2>1. /\ e \in Envelopes /\ e.session = s /\ e.stream = st
        /\ view.session = s => view.last[st] < e.seq
        /\ s = session => e.seq <= seq[st]
        /\ Refused(s) \/ Started(s, st, e) \/ Forwarded(s, st, e)
    BY <1>4, <2>0, HandledView
  <2>2. /\ \A r \in Sessions, k \in Streams :
              <<r, k>> # <<s, st>> => chan'[r][k] = chan[r][k]
        /\ chan'[s][st] = Tail(chan[s][st]) /\ chan[s][st] # <<>>
        /\ UNCHANGED <<session, seq>>
    BY <1>4, HandleIs
  <2>c. PICK C \in Seq(Envelopes) : C = chan[s][st]
    BY <1>0
  <2>3. PICK n \in Nat : C = chan[s][st] /\ n = Len(C)
    BY <2>c
  <2>4. /\ DOMAIN C = 1..n /\ n >= 1 /\ DOMAIN Tail(C) = 1..n - 1 /\ C[1] = e
        /\ \A a \in 1..n - 1 : Tail(C)[a] = C[a + 1] /\ a + 1 \in 1..n
    BY <2>0, <2>2, <2>3
  <2>5. s <= session
    <3>1. ~(session < s)
      BY <2>2 DEF QueueInv
    <3> QED BY <1>0, <3>1 DEF Sessions
  (* What the view has seen after the step.                                *)
  <2>6. /\ view'.session \in {view.session, s}
        /\ view'.session = s => view'.last[st] <= e.seq \/ view' = view
        /\ view'.session = s => view'.last[st] < e.seq \/ view'.last[st] = e.seq
        /\ \A r \in Sessions, k \in Streams : view'.session = r /\ <<r, k>> # <<s, st>> =>
              \/ view.session = r /\ view'.last[k] = view.last[k]
              \/ view'.last[k] = 0
    <3>1. CASE Refused(s)
      BY <1>0, <2>1, <3>1 DEF Refused
    <3>2. CASE Started(s, st, e)
      BY <1>e, <2>1, <3>2 DEF Started
    <3>3. CASE Forwarded(s, st, e)
      BY <1>e, <2>1, <3>3 DEF Forwarded
    <3> QED BY <2>1, <3>1, <3>2, <3>3
  <2>7. ASSUME NEW r \in Sessions, NEW k \in Streams, NEW i \in DOMAIN chan'[r][k]
        PROVE  /\ chan'[r][k][i].session = r /\ chan'[r][k][i].stream = k
               /\ view'.session = r => view'.last[k] < chan'[r][k][i].seq
               /\ r = session => chan'[r][k][i].seq <= seq[k]
               /\ \A j \in DOMAIN chan'[r][k] : i < j => chan'[r][k][i].seq < chan'[r][k][j].seq
    <3>1. CASE <<r, k>> # <<s, st>>
      <4>1. chan'[r][k] = chan[r][k]
        BY <2>2, <3>1
      <4>2. view'.session = r => view'.last[k] < chan[r][k][i].seq
        BY <1>c, <2>6, <2>7, <3>1, <4>1 DEF QueueInv
      <4> QED BY <2>7, <4>1, <4>2 DEF QueueInv
    <3>2. CASE r = s /\ k = st
      <4>1. /\ chan'[r][k] = Tail(C) /\ i \in 1..n - 1 /\ i + 1 \in 1..n
            /\ chan'[r][k][i] = C[i + 1]
        BY <2>2, <2>3, <2>4, <2>7, <3>2
      <4>2. \A a \in 1..n : C[a].seq \in Nat
        BY <1>c, <2>3, <2>4
      <4>3. e.seq < C[i + 1].seq
        <5>1. 1 < i + 1 /\ 1 \in 1..n
          BY <2>4, <4>1
        <5> QED BY <2>3, <2>4, <4>1, <5>1 DEF QueueInv
      <4>4. view'.session = r => view'.last[k] < C[i + 1].seq
        <5> SUFFICES ASSUME view'.session = r PROVE view'.last[k] < C[i + 1].seq
          OBVIOUS
        <5>1. CASE view'.last[st] = e.seq
          BY <3>2, <4>3, <5>1
        <5>2. CASE view'.last[st] < e.seq
          <6>1. view'.last[st] \in Nat
            BY <1>4, ViewAfter DEF ViewTypes, Views
          <6> QED BY <1>e, <2>1, <3>2, <4>1, <4>2, <4>3, <5>2, <6>1
        <5> QED BY <2>6, <3>2, <5>1, <5>2
      <4>5. ASSUME NEW j \in 1..n - 1, i < j PROVE C[i + 1].seq < C[j + 1].seq
        <5>1. i + 1 < j + 1 /\ j + 1 \in 1..n
          BY <2>4, <4>1, <4>5
        <5> QED BY <2>3, <2>4, <4>1, <5>1 DEF QueueInv
      <4>6. C[i + 1].session = s /\ C[i + 1].stream = st /\ (s = session => C[i + 1].seq <= seq[st])
        BY <2>3, <2>4, <4>1 DEF QueueInv
      <4> QED BY <2>4, <3>2, <4>1, <4>4, <4>5, <4>6
    <3> QED BY <3>1, <3>2
  <2>8. \A r \in Sessions, k \in Streams : session < r => chan'[r][k] = <<>>
    <3> SUFFICES ASSUME NEW r \in Sessions, NEW k \in Streams, session < r
                 PROVE  chan'[r][k] = <<>>
      OBVIOUS
    <3>1. r # s
      BY <1>0, <2>5 DEF Sessions
    <3> QED BY <2>2, <3>1 DEF QueueInv
  <2>9. view'.session <= session
    BY <1>0, <2>5, <2>6 DEF QueueInv
  <2>10. ASSUME view'.session = session, NEW k \in Streams PROVE view'.last[k] <= seq[k]
    <3>1. CASE Refused(s)
      BY <2>10, <3>1 DEF Refused, QueueInv
    <3>2. CASE Started(s, st, e)
      BY <1>0, <2>1, <2>10, <3>2 DEF Started
    <3>3. CASE Forwarded(s, st, e)
      BY <1>0, <2>1, <2>10, <3>3 DEF Forwarded, QueueInv
    <3> QED BY <2>1, <3>1, <3>2, <3>3
  <2> QED BY <2>2, <2>7, <2>8, <2>9, <2>10 DEF QueuesNext
<1>5. CASE ObserverStops
  <2>1. UNCHANGED <<chan, session, seq>> /\ view' = PeerView
    BY <1>5 DEF ObserverStops, MemoryLost, robotVars
  <2>2. view'.session = 0 /\ \A st \in Streams : view'.last[st] = 0
    BY <2>1 DEF PeerView
  <2>3. \A s \in Sessions : s # 0
    BY DEF Sessions
  <2> QED BY <1>0, <2>1, <2>2, <2>3 DEF QueueInv, QueuesNext
<1> QED BY <1>1, <1>2, <1>3, <1>4, <1>5, StepMoves DEF Moves

(* Nothing is queued at first.                                            *)
LEMMA QueueInit == Init => QueueInv
<1> SUFFICES ASSUME Init PROVE QueueInv
  OBVIOUS
<1>1. \A s \in Sessions, st \in Streams : chan[s][st] = <<>>
  BY DEF Init
<1>2. view.session = 0 /\ session = 0 /\ \A st \in Streams : view.last[st] = 0 /\ seq[st] = 0
  BY DEF Init, PeerView
<1> QED BY <1>1, <1>2 DEF QueueInv

(* Within a session the registry's state never goes back in the robot's    *)
(* time: the number of an envelope exceeds those the view has seen of its  *)
(* stream, so only a new session or a restart clears the view.             *)
THEOREM NeverOlder == Spec => ViewNeverOlder
<1>1. Spec => [](TypeInv /\ QueueInv)
  BY TypeInit, TypeStep, QueueInit, QueueStep, PTL DEF Spec
<1>2. TypeInv /\ QueueInv /\ [Next]_vars =>
        [view'.session = view.session /\ view.state # None => view'.at >= view.at]_view
  <2> SUFFICES ASSUME TypeInv, QueueInv, [Next]_vars,
                      view'.session = view.session, view.state # None, view' # view
               PROVE  view'.at >= view.at
    OBVIOUS
  <2>0. view.at \in Nat /\ view.session \in Sessions /\ \A e \in Envelopes : e.at \in Nat
    BY RegistryAssumption DEF TypeInv, ViewTypes, Views, Envelopes, Times
  <2>1. ASSUME NEW s \in Sessions, NEW st \in Streams, Handle(s, st) PROVE view'.at >= view.at
    <3>1. PICK e : e = Head(chan[s][st])
      OBVIOUS
    <3>2. e \in Envelopes /\ (Refused(s) \/ Started(s, st, e) \/ Forwarded(s, st, e))
      BY <2>1, <3>1, HandledView
    <3>3. Forwarded(s, st, e)
      BY <3>2 DEF Refused, Started
    <3> QED BY <2>0, <3>2, <3>3 DEF Forwarded
  <2>2. CASE ObserverStops
    <3>1. view'.session = 0
      BY <2>2 DEF ObserverStops, MemoryLost, PeerView
    <3> QED BY <2>0, <3>1 DEF Sessions
  <2>3. CASE RobotStarts
    BY <2>3 DEF RobotStarts, observerVars
  <2> QED BY <2>1, <2>2, <2>3, StepMoves DEF Moves
<1> QED BY <1>1, <1>2, PTL DEF Spec, ViewNeverOlder

-----------------------------------------------------------------------------
(* The latest state.                                                       *)

Stamps == [at : Times, body : Safeties \cup {None}]

(* A state that is published is the latest from then on, unless one with a *)
(* greater timestamp was published before it.                              *)
LEMMA InOrderAppend ==
    ASSUME NEW C \in Seq(Envelopes), NEW e \in Envelopes, NEW lt \in Stamps, NEW new,
           InOrder(C, lt),
           new = IF e.type = "state" /\ e.at >= lt.at
                 THEN [at |-> e.at, body |-> e.body] ELSE lt
    PROVE  /\ InOrder(Append(C, e), new)
           /\ Waits(Append(C, e), new.at) \/ new = lt
           /\ Waits(C, lt.at) => Waits(Append(C, e), new.at)
           /\ new.at >= lt.at
<1>1. PICK n \in Nat : n = Len(C)
  OBVIOUS
<1>2. PICK D : D = Append(C, e)
  OBVIOUS
<1>3. /\ DOMAIN C = 1..n /\ DOMAIN D = 1..n + 1
      /\ \A i \in 1..n : D[i] = C[i] /\ i \in 1..n + 1
      /\ D[n + 1] = e /\ n + 1 \in 1..n + 1
      /\ \A i \in 1..n + 1 : i \in 1..n \/ i = n + 1
  BY <1>1, <1>2
<1>4. lt.at \in Nat /\ e.at \in Nat /\ \A i \in 1..n : C[i].at \in Nat
  <2>1. \A x \in Envelopes : x.at \in Nat
    BY RegistryAssumption DEF Envelopes, Times
  <2> QED BY <1>3, <2>1, RegistryAssumption DEF Stamps, Times
<1>5. CASE e.type = "state" /\ e.at >= lt.at
  <2>1. new.at = e.at /\ new.body = e.body
    BY <1>5
  <2>2. IsState(D[n + 1], new.at)
    BY <1>3, <1>5, <2>1 DEF IsState
  <2>3. Waits(D, new.at)
    BY <1>3, <2>2 DEF Waits
  <2>4. ASSUME NEW i \in 1..n + 1, D[i].type = "state" PROVE D[i].at <= new.at
    <3>1. CASE i = n + 1
      BY <1>3, <1>4, <2>1, <3>1
    <3>2. CASE i \in 1..n
      <4>1. C[i].at <= lt.at
        BY <1>3, <2>4, <3>2 DEF InOrder
      <4> QED BY <1>3, <1>4, <1>5, <2>1, <3>2, <4>1
    <3> QED BY <1>3, <3>1, <3>2
  <2>5. ASSUME NEW i \in 1..n + 1, \A j \in 1..n + 1 : IsState(D[j], new.at) => j <= i
        PROVE  D[i].body = new.body
    <3>1. n + 1 <= i
      BY <1>3, <2>2, <2>5
    <3>2. i = n + 1
      BY <1>1, <3>1
    <3> QED BY <1>3, <2>1, <3>2
  <2>6. InOrder(D, new)
    BY <1>3, <2>4, <2>5 DEF InOrder
  <2> QED BY <1>2, <1>4, <1>5, <2>1, <2>3, <2>6
<1>6. CASE ~(e.type = "state" /\ e.at >= lt.at)
  <2>1. new = lt
    BY <1>6
  <2>2. ~IsState(e, lt.at) /\ (e.type = "state" => e.at <= lt.at)
    BY <1>4, <1>6 DEF IsState
  <2>3. ASSUME NEW i \in 1..n + 1, D[i].type = "state" PROVE D[i].at <= lt.at
    <3>1. CASE i = n + 1
      BY <1>3, <2>2, <2>3, <3>1
    <3>2. CASE i \in 1..n
      BY <1>3, <2>3, <3>2 DEF InOrder
    <3> QED BY <1>3, <3>1, <3>2
  <2>4. ASSUME NEW i \in 1..n + 1, IsState(D[i], lt.at),
               \A j \in 1..n + 1 : IsState(D[j], lt.at) => j <= i
        PROVE  D[i].body = lt.body
    <3>1. i \in 1..n
      BY <1>3, <2>2, <2>4
    <3>2. \A j \in 1..n : IsState(C[j], lt.at) => j <= i
      BY <1>3, <2>4
    <3>3. IsState(C[i], lt.at)
      BY <1>3, <2>4, <3>1
    <3>4. C[i].body = lt.body
      BY <1>3, <3>1, <3>2, <3>3 DEF InOrder
    <3> QED BY <1>3, <3>1, <3>4
  <2>5. InOrder(D, lt)
    BY <1>3, <2>3, <2>4 DEF InOrder
  <2>6. Waits(C, lt.at) => Waits(D, lt.at)
    BY <1>3 DEF Waits
  <2> QED BY <1>2, <1>4, <2>1, <2>5, <2>6
<1> QED BY <1>5, <1>6

(* The head of a queue is not later, and the rest still ends in the latest *)
(* unless the head was that.                                               *)
LEMMA InOrderTail ==
    ASSUME NEW C \in Seq(Envelopes), C # <<>>, NEW lt \in Stamps, InOrder(C, lt),
           NEW e, e = Head(C)
    PROVE  /\ InOrder(Tail(C), lt)
           /\ e.type = "state" => e.at <= lt.at
           /\ Waits(C, lt.at) =>
                 Waits(Tail(C), lt.at) \/ (IsState(e, lt.at) /\ e.body = lt.body)
<1>1. PICK n \in Nat : n = Len(C)
  OBVIOUS
<1>2. PICK D : D = Tail(C)
  OBVIOUS
<1>3. /\ DOMAIN C = 1..n /\ n >= 1 /\ 1 \in 1..n /\ e = C[1] /\ DOMAIN D = 1..n - 1
      /\ \A i \in 1..n - 1 : D[i] = C[i + 1] /\ i + 1 \in 1..n
      /\ \A i \in 1..n : i # 1 => i - 1 \in 1..n - 1 /\ D[i - 1] = C[i]
  BY <1>1, <1>2
<1>4. e.type = "state" => e.at <= lt.at
  <2>1. 1 \in DOMAIN C /\ e = C[1]
    BY <1>3
  <2> QED BY <2>1 DEF InOrder
<1>5. InOrder(D, lt)
  <2>1. ASSUME NEW i \in 1..n - 1, D[i].type = "state" PROVE D[i].at <= lt.at
    <3>1. PICK k \in DOMAIN C : D[i] = C[k]
      BY <1>3
    <3> QED BY <2>1, <3>1 DEF InOrder
  <2>2. ASSUME NEW i \in 1..n - 1, IsState(D[i], lt.at),
               \A j \in 1..n - 1 : IsState(D[j], lt.at) => j <= i
        PROVE  D[i].body = lt.body
    <3>1. ASSUME NEW j \in 1..n, IsState(C[j], lt.at) PROVE j <= i + 1
      <4>1. CASE j = 1
        BY <4>1
      <4>2. CASE j # 1
        <5>1. j - 1 \in 1..n - 1 /\ j - 1 <= i
          BY <1>3, <2>2, <3>1, <4>2
        <5> QED BY <5>1
      <4> QED BY <4>1, <4>2
    <3>2. i + 1 \in 1..n /\ IsState(C[i + 1], lt.at) /\ D[i] = C[i + 1]
      BY <1>3, <2>2
    <3> QED BY <1>3, <3>1, <3>2 DEF InOrder
  <2> QED BY <1>3, <2>1, <2>2 DEF InOrder
<1>6. ASSUME Waits(C, lt.at), ~Waits(D, lt.at) PROVE IsState(e, lt.at) /\ e.body = lt.body
  <2>1. ASSUME NEW i \in 1..n, IsState(C[i], lt.at) PROVE i = 1
    <3> SUFFICES ASSUME i # 1 PROVE FALSE
      OBVIOUS
    <3>1. i - 1 \in DOMAIN D /\ IsState(D[i - 1], lt.at)
      BY <1>3, <2>1
    <3> QED BY <1>6, <3>1 DEF Waits
  <2>2. IsState(C[1], lt.at)
    BY <1>3, <1>6, <2>1 DEF Waits
  <2>3. \A j \in DOMAIN C : IsState(C[j], lt.at) => j <= 1
    BY <1>3, <2>1
  <2> QED BY <1>3, <2>2, <2>3 DEF InOrder
<1> QED BY <1>2, <1>4, <1>5, <1>6

(* LatestInv after a step, for one stream.                                 *)
LatestNext(st) ==
    /\ InOrder(chan'[session'][st], latest'[st])
    /\ \/ Waits(chan'[session'][st], latest'[st].at)
       \/ /\ latest'[st].at <= IF view'.session = session' THEN view'.at ELSE 0
          /\ view'.session = session' /\ view'.state # None /\ view'.state.stream = st
                /\ view'.at = latest'[st].at => view'.state.body = latest'[st].body
    /\ view'.session = session' /\ view'.state # None /\ view'.state.stream = st
          => view'.at <= latest'[st].at

(* Every step keeps the latest state within reach.                        *)
LEMMA LatestStep == TypeInv /\ QueueInv /\ LatestInv /\ [Next]_vars => LatestInv'
<1> SUFFICES ASSUME TypeInv, QueueInv, LatestInv, [Next]_vars, session' # 0, session' \notin gaps',
                    NEW st \in Streams
             PROVE  LatestNext(st)
  BY DEF LatestInv, LatestNext, Reached, Shown
<1>0. /\ session \in Nat /\ view.session \in Nat /\ view.at \in Nat /\ MaxSessions \in Nat
      /\ session \in 0..MaxSessions
      /\ \A k \in Streams : latest[k] \in Stamps /\ latest[k].at \in Nat
      /\ chan \in [Sessions -> [Streams -> Seq(Envelopes)]]
  BY RegistryAssumption DEF TypeInv, RobotTypes, ViewTypes, Views, ChanTypes, Stamps, Times
<1>s. ASSUME session # 0 PROVE session \in Sessions
  BY <1>0, <1>s DEF Sessions
<1>b. ASSUME session # 0, session \notin gaps, NEW k \in Streams
      PROVE  /\ InOrder(chan[session][k], latest[k])
             /\ Waits(chan[session][k], latest[k].at) \/ Reached(view, k)
             /\ Shown(view, k) => view.at <= latest[k].at
  BY <1>b DEF LatestInv
<1>1. CASE UNCHANGED <<chan, view, session, seq, latest, gaps>>
  BY <1>1, <1>b DEF LatestNext, Reached, Shown
<1>2. CASE Publishes /\ UNCHANGED <<view, session, gaps>>
  <2>0. PICK type, streams, refused, at, body : PublishesAs(type, streams, refused, at, body)
    BY <1>2 DEF Publishes
  <2>c. \A k \in Streams : k \in streams =>
           chan'[session][k] = Append(chan[session][k], Enveloped(type, k, at, body))
    BY <2>0, SendAppends
  <2>1. session \in Sessions /\ session # 0 /\ session \notin gaps
    BY <1>2, <2>0 DEF PublishesAs, Sessions
  <2>2. CASE st \notin streams
    <3>1. chan'[session][st] = chan[session][st] /\ latest'[st] = latest[st]
      BY <2>0, <2>2, SendLeaves
    <3> QED BY <1>2, <1>b, <2>1, <3>1 DEF LatestNext, Reached, Shown
  <2>3. CASE st \in streams
    <3>1. Enveloped(type, st, at, body) \in Envelopes
      BY <2>0, <2>3, SendIs
    <3>2. PICK e \in Envelopes, C \in Seq(Envelopes) :
             e = Enveloped(type, st, at, body) /\ C = chan[session][st]
      BY <1>0, <2>1, <3>1
    <3>3. chan'[session][st] = Append(C, e)
      <4>1. chan'[session][st] = Append(chan[session][st], Enveloped(type, st, at, body))
        BY <2>3, <2>c
      <4> QED BY <3>2, <4>1
    <3>4. e.type = type /\ e.at = at /\ e.body = body
      BY <3>2 DEF Enveloped
    <3>5. latest'[st] = IF e.type = "state" /\ e.at >= latest[st].at
                        THEN [at |-> e.at, body |-> e.body] ELSE latest[st]
      <4>1. latest'[st] = IF type = "state" /\ st \in streams /\ at >= latest[st].at
                          THEN [at |-> at, body |-> body] ELSE latest[st]
        BY <2>0, SendIs
      <4> QED BY <2>3, <3>4, <4>1
    <3>6. InOrder(C, latest[st])
      BY <1>b, <2>1, <3>2
    <3>7. /\ InOrder(Append(C, e), latest'[st])
          /\ Waits(Append(C, e), latest'[st].at) \/ latest'[st] = latest[st]
          /\ Waits(C, latest[st].at) => Waits(Append(C, e), latest'[st].at)
          /\ latest'[st].at >= latest[st].at
      BY <1>0, <3>5, <3>6, InOrderAppend
    <3>8. latest'[st].at \in Nat
      <4>1. latest'[st].at \in Times
        BY <2>0, SendIs
      <4> QED BY <4>1, RegistryAssumption DEF Times
    <3>9. Shown(view, st) => view.at <= latest'[st].at
      BY <1>0, <1>b, <2>1, <3>7, <3>8
    <3>10. Waits(Append(C, e), latest'[st].at) \/ (latest'[st] = latest[st] /\ Reached(view, st))
      BY <1>b, <2>1, <3>2, <3>7
    <3> QED BY <1>2, <3>3, <3>7, <3>9, <3>10 DEF LatestNext, Reached, Shown
  <2> QED BY <2>2, <2>3
<1>3. CASE RobotStarts
  <2>1. /\ session' = session + 1 /\ session + 1 \in Sessions /\ UNCHANGED <<chan, view>>
        /\ latest'[st] = [at |-> 0, body |-> None]
    BY <1>0, <1>3 DEF RobotStarts, observerVars, NothingPublished, Sessions
  <2>2. chan[session + 1][st] = <<>> /\ view.session # session + 1
    BY <1>0, <2>1 DEF QueueInv
  <2>3. InOrder(<<>>, latest'[st])
    BY DEF InOrder
  <2> QED BY <2>1, <2>2, <2>3 DEF LatestNext
<1>4. ASSUME NEW s \in Sessions, NEW k \in Streams, Handle(s, k) PROVE LatestNext(st)
  <2>0. PICK e : e = Head(chan[s][k])
    OBVIOUS
  <2>1. /\ e \in Envelopes /\ e.session = s /\ e.stream = k
        /\ Refused(s) \/ Started(s, k, e) \/ Forwarded(s, k, e)
    BY <1>4, <2>0, HandledView
  <2>2. /\ \A r \in Sessions, q \in Streams : <<r, q>> # <<s, k>> => chan'[r][q] = chan[r][q]
        /\ chan'[s][k] = Tail(chan[s][k]) /\ chan[s][k] # <<>>
        /\ UNCHANGED <<session, seq, latest>>
    BY <1>4, HandleIs
  <2>3. session # 0 /\ session \in Sessions
    BY <1>s, <2>2
  <2>4. session \notin gaps
    BY <2>1, <2>2 DEF Refused, Started, Forwarded
  <2>5. CASE s # session
    <3>1. chan'[session][st] = chan[session][st] /\ latest'[st] = latest[st] /\ session' = session
      BY <2>2, <2>3, <2>5
    <3>2. CASE Refused(s)
      BY <1>b, <2>3, <2>4, <3>1, <3>2 DEF Refused, LatestNext, Reached, Shown
    <3>3. CASE Started(s, k, e)
      <4>1. view.session # session /\ view'.session # session
        BY <2>2, <2>3, <2>5, <3>3 DEF Started
      <4> QED BY <1>b, <2>3, <2>4, <3>1, <4>1 DEF LatestNext, Reached, Shown
    <3>4. CASE Forwarded(s, k, e)
      <4>1. view.session # session /\ view'.session # session
        BY <2>5, <3>4 DEF Forwarded
      <4> QED BY <1>b, <2>3, <2>4, <3>1, <4>1 DEF LatestNext, Reached, Shown
    <3> QED BY <2>1, <3>2, <3>3, <3>4
  <2>6. CASE s = session /\ st # k
    <3>1. chan'[session][st] = chan[session][st] /\ latest'[st] = latest[st] /\ session' = session
      BY <2>2, <2>3, <2>6
    <3>2. ~Refused(s)
      BY <2>2, <2>6 DEF Refused
    <3>3. CASE Started(s, k, e)
      BY <1>b, <2>3, <2>4, <2>6, <3>1, <3>3 DEF Started, LatestNext, Reached, Shown
    <3>4. CASE Forwarded(s, k, e)
      <4>1. view.session = session /\ view'.session = session
        BY <2>6, <3>4 DEF Forwarded
      <4>2. CASE view'.state = view.state /\ view'.at = view.at
        BY <1>b, <2>3, <2>4, <3>1, <4>1, <4>2 DEF LatestNext, Reached, Shown
      <4>3. CASE view'.state = e /\ view'.at = e.at /\ e.at >= view.at
        <5>1. e.at \in Nat
          BY <2>1, RegistryAssumption DEF Envelopes, Times
        <5>2. ~(view'.state.stream = st)
          BY <2>1, <2>6, <4>3
        <5>3. Waits(chan[session][st], latest[st].at) \/ latest[st].at <= view'.at
          BY <1>0, <1>b, <2>3, <2>4, <4>1, <4>3, <5>1 DEF Reached
        <5> QED BY <1>b, <2>3, <2>4, <3>1, <4>1, <5>2, <5>3 DEF LatestNext
      <4> QED BY <3>4, <4>2, <4>3 DEF Forwarded
    <3> QED BY <2>1, <3>2, <3>3, <3>4
  <2>7. CASE s = session /\ st = k
    <3>1. PICK C \in Seq(Envelopes) : C = chan[session][st]
      BY <1>0, <2>3
    <3>2. /\ chan'[session][st] = Tail(C) /\ C # <<>> /\ e = Head(C)
          /\ latest'[st] = latest[st] /\ session' = session
      BY <2>0, <2>2, <2>7, <3>1
    <3>3. /\ InOrder(Tail(C), latest[st])
          /\ e.type = "state" => e.at <= latest[st].at
          /\ Waits(C, latest[st].at) => \/ Waits(Tail(C), latest[st].at)
                                        \/ IsState(e, latest[st].at) /\ e.body = latest[st].body
      BY <1>0, <1>b, <2>3, <2>4, <3>1, <3>2, InOrderTail
    <3>4. ~Refused(s)
      BY <2>2, <2>7 DEF Refused
    <3>5. CASE e.type = "manifest"
      <4>1. Waits(Tail(C), latest[st].at) \/ Reached(view, st)
        BY <1>b, <2>3, <2>4, <3>1, <3>3, <3>5 DEF IsState
      <4>2. CASE Started(s, k, e)
        BY <2>7, <3>2, <3>3, <4>1, <4>2 DEF Started, LatestNext, Reached, Shown
      <4>3. CASE Forwarded(s, k, e)
        <5>1. /\ view.session = session /\ view'.session = session
              /\ view'.state = view.state /\ view'.at = view.at
          BY <2>7, <3>5, <4>3 DEF Forwarded
        <5>2. Shown(view, st) => view.at <= latest[st].at
          BY <1>b, <2>3, <2>4
        <5> QED BY <3>2, <3>3, <4>1, <5>1, <5>2 DEF LatestNext, Reached, Shown
      <4> QED BY <2>1, <3>4, <4>2, <4>3
    <3>6. CASE e.type = "state"
      <4>0. e.at \in Nat /\ e.at <= latest[st].at /\ latest[st].at \in Nat
        <5>1. e.at \in Nat
          BY <2>1, RegistryAssumption DEF Envelopes, Times
        <5> QED BY <1>0, <3>3, <3>6, <5>1
      <4>1. Forwarded(s, k, e)
        BY <2>1, <3>4, <3>6 DEF Started
      <4>2. view.session = session /\ view'.session = session
        BY <2>7, <4>1 DEF Forwarded
      <4>3. CASE e.at >= view.at
        <5>1. view'.state = e /\ view'.at = e.at
          BY <3>6, <4>1, <4>3 DEF Forwarded
        <5>2. ASSUME ~Waits(Tail(C), latest[st].at)
              PROVE  latest[st].at <= e.at /\ e.body = latest[st].body
          <6>1. CASE Waits(C, latest[st].at)
            BY <3>3, <4>0, <5>2, <6>1 DEF IsState
          <6>2. CASE ~Waits(C, latest[st].at)
            <7>1. latest[st].at <= view.at
              BY <1>b, <2>3, <2>4, <3>1, <4>2, <6>2 DEF Reached
            <7>2. e.at = latest[st].at
              BY <1>0, <4>0, <4>3, <7>1
            <7>3. 1 \in DOMAIN C /\ C[1] = e
              BY <3>1, <3>2
            <7>4. Waits(C, latest[st].at)
              BY <3>6, <7>2, <7>3 DEF Waits, IsState
            <7> QED BY <6>2, <7>4
          <6> QED BY <6>1, <6>2
        <5> QED BY <3>2, <3>3, <4>0, <4>2, <5>1, <5>2 DEF LatestNext
      <4>4. CASE ~(e.at >= view.at)
        <5>1. view'.state = view.state /\ view'.at = view.at
          BY <3>6, <4>1, <4>4 DEF Forwarded
        <5>2. Shown(view, st) => view.at <= latest[st].at
          BY <1>b, <2>3, <2>4
        <5>3. CASE Waits(Tail(C), latest[st].at)
          BY <3>2, <3>3, <4>2, <5>1, <5>2, <5>3 DEF LatestNext, Shown
        <5>4. CASE Reached(view, st)
          BY <3>2, <3>3, <4>2, <5>1, <5>2, <5>4 DEF LatestNext, Shown, Reached
        <5>5. CASE IsState(e, latest[st].at)
          <6>1. latest[st].at < view.at
            BY <1>0, <4>0, <4>4, <5>5 DEF IsState
          <6>2. latest[st].at <= view.at /\ view.at # latest[st].at
            BY <1>0, <4>0, <6>1
          <6> QED BY <3>2, <3>3, <4>2, <5>1, <5>2, <6>2 DEF LatestNext, Shown
        <5> QED BY <1>b, <2>3, <2>4, <3>1, <3>3, <5>3, <5>4, <5>5
      <4> QED BY <4>3, <4>4
    <3> QED BY <2>1, <3>5, <3>6 DEF Envelopes
  <2> QED BY <2>5, <2>6, <2>7
<1>5. CASE ObserverStops
  <2>1. session' = session /\ gaps' = 1..session
    BY <1>5 DEF ObserverStops, robotVars
  <2>2. session \in 1..session
    BY <1>0, <2>1
  <2> QED BY <2>1, <2>2
<1> QED BY <1>1, <1>2, <1>3, <1>4, <1>5, StepMoves DEF Moves

(* When all that the running robot published has been handled, the view    *)
(* shows the latest state of its stream and none of the other is later,    *)
(* for any number of publications by either thread, any order of the two   *)
(* streams, and equal timestamps.                                          *)
THEOREM QuietIsLatest == Spec => []QuietViewIsLatest
<1>1. Init => LatestInv
  BY DEF Init, LatestInv
<1>2. TypeInv /\ LatestInv => QuietViewIsLatest
  <2> SUFFICES ASSUME TypeInv, LatestInv, Quiet, view.session = session, view.state # None,
                      session \notin gaps
               PROVE  /\ [at |-> view.at, body |-> view.state.body] = latest[view.state.stream]
                      /\ \A st \in Streams : view.at >= latest[st].at
    BY DEF QuietViewIsLatest
  <2>1. ASSUME NEW st \in Streams
        PROVE  Reached(view, st) /\ (Shown(view, st) => view.at <= latest[st].at)
    <3>1. chan[session][st] = <<>>
      BY DEF Quiet
    <3>2. ~Waits(<<>>, latest[st].at)
      BY DEF Waits
    <3> QED BY <3>1, <3>2 DEF LatestInv, Quiet
  <2>2. /\ view.state.stream \in Streams /\ view.at \in Nat
        /\ \A st \in Streams : latest[st] \in Stamps /\ latest[st].at \in Nat
    BY RegistryAssumption DEF TypeInv, RobotTypes, ViewTypes, Views, Envelopes, Stamps, Times
  <2>3. \A st \in Streams : latest[st].at <= view.at
    BY <2>1 DEF Reached
  <2>4. PICK k \in Streams : k = view.state.stream
    BY <2>2
  <2>5. Shown(view, k)
    BY <2>4 DEF Shown
  <2>6. view.at = latest[k].at
    BY <2>1, <2>2, <2>3, <2>5
  <2>7. view.state.body = latest[k].body
    BY <2>1, <2>5, <2>6 DEF Reached
  <2>8. latest[k] = [at |-> latest[k].at, body |-> latest[k].body]
    BY <2>2 DEF Stamps
  <2>9. \A st \in Streams : view.at >= latest[st].at
    BY <2>2, <2>3
  <2> QED BY <2>4, <2>6, <2>7, <2>8, <2>9
<1> QED BY <1>1, <1>2, TypeInit, TypeStep, QueueInit, QueueStep, LatestStep, PTL DEF Spec
=============================================================================
