------------------------ MODULE LoopbackStreamProofs ------------------------
(***************************************************************************)
(* Theorems about the streams of the loopback service: which are open, what *)
(* the handles name, and how they play.  Every step of the service is one   *)
(* of a few kinds of step of the streams (StreamStep); the invariants are   *)
(* shown kind by kind, and so is the refinement of LoopbackCalls.           *)
(***************************************************************************)
EXTENDS LoopbackProofs

USE DEF Usecases, Legs, Rates

(* PAL refuses to stop or to close no stream.                               *)
ClosesAll == Failures \cap {"stop", "close"} = {}

(* No use case runs that has no data.                                       *)
RunningExists == \A u \in Usecases : running[u] => exists[u]

(* The kinds of step.  Nothing happens to the streams;                      *)
Quiet ==
  /\ running' = running /\ leg' = leg
  /\ pal'.live = pal.live /\ pal'.volume = pal.volume /\ pal'.muted = pal.muted
  /\ pal'.speech = pal.speech /\ pal'.rate = pal.rate

(* use cases end, and the streams of the legs in closed are closed;         *)
EndsUsecases(us, closed) ==
  /\ \A l \in closed : UsecaseOf(l) \in us /\ leg'[l].handle = NoStream
  /\ \A u \in Usecases : running'[u] <=> (running[u] /\ u \notin us)
  /\ \A l \in Legs :
       leg'[l] = leg[l] \/ (UsecaseOf(l) \in us /\ leg'[l].handle = NoStream)
  /\ pal'.live = pal.live \ Handles(closed)
  /\ ClosesAll => \A l \in Legs : running[UsecaseOf(l)] /\ UsecaseOf(l) \in us
                                  => l \in closed
  /\ pal'.volume = pal.volume /\ pal'.muted = pal.muted
  /\ "btsco" \notin us => pal'.speech = pal.speech /\ pal'.rate = pal.rate

(* a use case fails to start;                                               *)
FailsToStart(u) ==
  /\ ~running[u] /\ running' = running
  /\ \A l \in Legs : UsecaseOf(l) # u => leg'[l] = leg[l]
  /\ \A l \in Legs : leg'[l].volume = leg[l].volume
  /\ "a2dp_start" \notin Failures =>
       \A l \in Legs : leg'[l].handle \in {leg[l].handle, NoStream}
  /\ pal.live \subseteq pal'.live
  /\ ClosesAll => pal'.live = pal.live
  /\ \A s \in pal.live : /\ pal'.volume[s] = pal.volume[s]
                         /\ s \in pal'.muted <=> s \in pal.muted
  /\ pal'.rate = pal.rate
  /\ u # "btsco" => pal'.speech = pal.speech
  /\ pal'.connected = pal.connected /\ pal'.sco = pal.sco

(* it starts, with the new streams;                                         *)
Starts(u, new) ==
  /\ ~running[u]
  /\ \A l \in LegsOf(u) : new[l] \in Streams \ pal.live
  /\ \A k, l \in LegsOf(u) : k # l => new[k] # new[l]
  /\ \A v \in Usecases : running'[v] <=> (running[v] \/ v = u)
  /\ \A l \in Legs :
       IF l \in LegsOf(u)
       THEN /\ leg'[l].handle = new[l] /\ leg'[l].volume = leg[l].volume
            /\ new[l] \notin pal'.muted
            /\ "volume" \notin Failures => pal'.volume[new[l]] = Gain(leg[l].volume)
       ELSE leg'[l] = leg[l]
  /\ pal'.live = pal.live \union {new[l] : l \in LegsOf(u)}
  /\ \A s \in pal.live : /\ pal'.volume[s] = pal.volume[s]
                         /\ s \in pal'.muted <=> s \in pal.muted
  /\ IF u = "btsco"
     THEN pal'.rate = rate /\ (rate # PortRate => pal'.speech = Speech(rate))
     ELSE pal'.rate = pal.rate /\ pal'.speech = pal.speech
  /\ pal'.connected = pal.connected /\ pal'.sco = pal.sco

(* the module is loaded again.                                              *)
Forgets ==
  /\ pal'.live = {}
  /\ \A u \in Usecases : ~running'[u]
  /\ \A l \in Legs : leg'[l].handle = NoStream

-----------------------------------------------------------------------------
(* The fields of PAL's side that the helpers of the handlers change.        *)

LEMMA OpenedFields ==
  ASSUME NEW side \in Sides, NEW streams \in SUBSET Streams
  PROVE  LET o == Opened(side, streams)
         IN /\ o.live = side.live \union streams
            /\ o.muted = side.muted \ streams
            /\ o.volume = [s \in Streams |-> IF s \in streams THEN PalOwn
                                                              ELSE side.volume[s]]
            /\ o.connected = side.connected /\ o.sco = side.sco
            /\ o.speech = side.speech /\ o.rate = side.rate
  BY DEF Opened, Sides

LEMMA LouderVolumes ==
  ASSUME NEW side \in Sides, NEW sent, NEW legs \in SUBSET Legs
  PROVE  Louder(side, sent, legs).volume =
           [s \in Streams |-> IF \E l \in legs : sent[l] = s
                              THEN Gain(leg[CHOOSE l \in legs : sent[l] = s].volume)
                              ELSE side.volume[s]]
  BY DEF Louder, Sides

LEMMA LouderFields ==
  ASSUME NEW side \in Sides, NEW sent, NEW legs \in SUBSET Legs
  PROVE  LET o == Louder(side, sent, legs)
         IN /\ o.live = side.live /\ o.muted = side.muted
            /\ o.connected = side.connected /\ o.sco = side.sco
            /\ o.speech = side.speech /\ o.rate = side.rate
  BY DEF Louder, Sides

LEMMA WidebandFields ==
  ASSUME NEW side \in Sides
  PROVE  LET o == Wideband(side)
         IN /\ o.volume = side.volume
            /\ o.live = side.live /\ o.muted = side.muted
            /\ o.connected = side.connected /\ o.sco = side.sco
            /\ o.speech = (IF rate # PortRate THEN Speech(rate) ELSE side.speech)
            /\ o.rate = side.rate
  BY DEF Wideband, Sides

LEMMA RateFields ==
  ASSUME NEW side \in Sides, NEW r \in Rates
  PROVE  LET o == [side EXCEPT !.rate = r]
         IN /\ o.volume = side.volume /\ o.live = side.live /\ o.muted = side.muted
            /\ o.speech = side.speech /\ o.rate = r
            /\ o.connected = side.connected /\ o.sco = side.sco
  BY DEF Sides

LEMMA DeinitFields ==
  ASSUME NEW side \in Sides, NEW u \in Usecases, NEW out \in DeinitOutcomes(u)
  PROVE  LET o == AfterDeinit(side, u, out)
         IN /\ o.volume = side.volume /\ o.muted = side.muted
            /\ o.live = (IF exists[u] THEN side.live \ Handles(out.closed) ELSE side.live)
            /\ o.connected = (IF exists[u] THEN side.connected \ (DevicesOf(u) \ out.kept)
                             ELSE side.connected)
            /\ o.sco = (IF exists[u] THEN side.sco /\ ~(u = "btsco" /\ out.off) ELSE side.sco)
            /\ o.speech = side.speech /\ o.rate = side.rate
  BY DEF AfterDeinit, Sides

LEMMA InitFields ==
  ASSUME pal \in Sides, NEW u \in Usecases, NEW out
  PROVE  LET o == PalAfterInit(u, out)
         IN /\ o.volume = pal.volume /\ o.muted = pal.muted /\ o.live = pal.live
            /\ o.connected = pal.connected \union
                 (CASE out = "connect_in"  -> {}
                   [] out = "connect_out" -> {"sco_in"}
                   [] OTHER               -> DevicesOf(u))
            /\ o.sco = (pal.sco \/ (u = "btsco" /\ out \in {"wb", "ok"}))
            /\ o.speech = (IF u = "btsco" /\ out = "ok" THEN Speech(PortRate) ELSE pal.speech)
            /\ o.rate = pal.rate
  BY DEF PalAfterInit, Sides

-----------------------------------------------------------------------------
(* Each handler is a step of one of these kinds.                            *)

LEMMA BtConnectStep ==
  ASSUME StreamInv, SessionInv, RunningExists, ~aborted,
         NEW c \in Clients, NEW u \in Usecases, BtConnect(c, u)
  PROVE  Quiet \/ EndsUsecases({u}, {})
<1>1. PICK out \in InitOutcomes(u) :
        /\ pal' = PalAfterInit(u, out)
        /\ IF out = "ok"
           THEN /\ running' = [running EXCEPT ![u] = FALSE]
                /\ leg' = [l \in Legs |-> IF l \in LegsOf(u) THEN FreshLeg ELSE leg[l]]
           ELSE UNCHANGED <<running, leg>>
  BY DEF BtConnect
<1>2. pal \in Sides /\ running \in [Usecases -> BOOLEAN] /\ leg \in LegTypes
  BY DEF StreamInv, StreamTypes
<1>3. /\ pal'.volume = pal.volume /\ pal'.muted = pal.muted /\ pal'.live = pal.live
      /\ pal'.speech = (IF u = "btsco" /\ out = "ok" THEN Speech(PortRate)
                        ELSE pal.speech)
      /\ pal'.rate = pal.rate
  BY <1>1, <1>2, InitFields
<1>4. ~running[u]
  BY DEF BtConnect, SessionInv, SessionHasUsecase, RunningExists
<1>5. CASE out = "ok"
  <2>1. pal'.live = pal.live \ Handles({})
    BY <1>3 DEF Handles
  <2>2. \A l \in Legs : running[UsecaseOf(l)] => UsecaseOf(l) # u
    BY <1>4
  <2>3. \A l \in Legs :
          leg'[l] = leg[l] \/ (UsecaseOf(l) \in {u} /\ leg'[l].handle = NoStream)
    <3>1. \A l \in Legs : leg'[l] = IF l \in LegsOf(u) THEN FreshLeg ELSE leg[l]
      BY <1>1, <1>5
    <3>2. FreshLeg.handle = NoStream
      BY DEF FreshLeg
    <3>3. \A l \in LegsOf(u) : UsecaseOf(l) = u
      BY DEF LegsOf, UsecaseOf
    <3>4. QED
      BY <3>1, <3>2, <3>3
  <2>4. \A v \in Usecases : running'[v] <=> (running[v] /\ v \notin {u})
    BY <1>1, <1>2, <1>5
  <2>5. "btsco" \notin {u} => pal'.speech = pal.speech /\ pal'.rate = pal.rate
    BY <1>3
  <2>6. QED
    BY <1>3, <2>1, <2>2, <2>3, <2>4, <2>5 DEF EndsUsecases
<1>6. CASE out # "ok"
  BY <1>1, <1>3, <1>6 DEF Quiet
<1>7. QED
  BY <1>5, <1>6

LEMMA DestroyStep ==
  ASSUME StreamInv, NEW u \in Usecases, DestroyLoopback(u)
  PROVE  \E closed \in SUBSET Legs : EndsUsecases({u}, closed)
<1>1. PICK closed \in StopOutcomes(u) :
        /\ leg' = Closed(closed)
        /\ pal' = [pal EXCEPT !.live = @ \ Handles(closed)]
  BY DEF DestroyLoopback
<1>2. closed \in SUBSET LegsOf(u) /\ LegsOf(u) \subseteq Legs
  BY StoppedLegs
<1>3. running' = [running EXCEPT ![u] = FALSE]
  BY DEF DestroyLoopback
<1>4. pal \in Sides /\ running \in [Usecases -> BOOLEAN] /\ leg \in LegTypes
  BY DEF StreamInv, StreamTypes
<1>5. /\ pal'.live = pal.live \ Handles(closed)
      /\ pal'.volume = pal.volume /\ pal'.muted = pal.muted
      /\ pal'.speech = pal.speech /\ pal'.rate = pal.rate
  BY <1>1, <1>4 DEF Sides
<1>6. \A l \in closed : UsecaseOf(l) \in {u} /\ leg'[l].handle = NoStream
  BY <1>1, <1>2, <1>4 DEF Closed, LegTypes, LegsOf, UsecaseOf
<1>7. \A l \in Legs : leg'[l] = leg[l] \/ (UsecaseOf(l) \in {u} /\ leg'[l].handle = NoStream)
  BY <1>1, <1>6 DEF Closed
<1>8. ClosesAll => \A l \in Legs : running[UsecaseOf(l)] /\ UsecaseOf(l) \in {u}
                                  => l \in closed
  BY <1>1 DEF ClosesAll, StopOutcomes, LegsOf, UsecaseOf
<1>9. \A v \in Usecases : running'[v] <=> (running[v] /\ v \notin {u})
  BY <1>3, <1>4
<1>10. EndsUsecases({u}, closed)
  BY <1>5, <1>6, <1>7, <1>8, <1>9 DEF EndsUsecases
<1>11. QED
  BY <1>2, <1>10

(* A use case that is shut down closes the streams of a call that runs.     *)
LEMMA DeinitCloses ==
  ASSUME RunningExists, NEW side \in Sides, NEW u \in Usecases,
         NEW out \in DeinitOutcomes(u)
  PROVE  \E closed \in SUBSET LegsOf(u) :
           /\ AfterDeinit(side, u, out).live = side.live \ Handles(closed)
           /\ ClosesAll /\ running[u] => closed = LegsOf(u)
<1>1. out.closed \in SUBSET LegsOf(u)
  BY StoppedLegs DEF DeinitOutcomes
<1>2. ClosesAll /\ running[u] => out.closed = LegsOf(u)
  BY DEF ClosesAll, DeinitOutcomes, StopOutcomes
<1>3. CASE exists[u]
  <2>1. AfterDeinit(side, u, out).live = side.live \ Handles(out.closed)
    BY <1>3 DEF AfterDeinit, Sides
  <2>2. QED
    BY <1>1, <1>2, <2>1
<1>4. CASE ~exists[u]
  <2>1. AfterDeinit(side, u, out).live = side.live \ Handles({})
    BY <1>4 DEF AfterDeinit, Handles
  <2>2. {} \in SUBSET LegsOf(u) /\ ~running[u]
    BY <1>4 DEF RunningExists
  <2>3. QED
    BY <2>1, <2>2
<1>5. QED
  BY <1>3, <1>4

LEMMA BtDisconnectStep ==
  ASSUME StreamInv, RunningExists, NEW c \in Clients, NEW u \in Usecases,
         BtDisconnect(c, u)
  PROVE  \E closed \in SUBSET Legs : EndsUsecases({u}, closed)
<1>1. PICK out \in DeinitOutcomes(u) : pal' = AfterDeinit(pal, u, out)
  BY DEF BtDisconnect
<1>2. pal \in Sides /\ running \in [Usecases -> BOOLEAN] /\ leg \in LegTypes
  BY DEF StreamInv, StreamTypes
<1>3. /\ pal'.volume = pal.volume /\ pal'.muted = pal.muted
      /\ pal'.speech = pal.speech /\ pal'.rate = pal.rate
  BY <1>1, <1>2, DeinitFields
<1>4. PICK closed \in SUBSET LegsOf(u) :
        /\ pal'.live = pal.live \ Handles(closed)
        /\ ClosesAll /\ running[u] => closed = LegsOf(u)
  BY <1>1, <1>2, DeinitCloses
<1>5. EndSessions({u})
  BY DEF BtDisconnect
<1>6. /\ closed \in SUBSET Legs
      /\ \A l \in closed : UsecaseOf(l) \in {u} /\ leg'[l].handle = NoStream
  BY <1>5 DEF EndSessions, FreshLeg, LegsOf, UsecaseOf
<1>7. \A l \in Legs : leg'[l] = leg[l] \/ (UsecaseOf(l) \in {u} /\ leg'[l].handle = NoStream)
  BY <1>5 DEF EndSessions, FreshLeg
<1>8. \A v \in Usecases : running'[v] <=> (running[v] /\ v \notin {u})
  BY <1>5 DEF EndSessions
<1>9. ClosesAll => \A l \in Legs : running[UsecaseOf(l)] /\ UsecaseOf(l) \in {u}
                                  => l \in closed
  BY <1>4 DEF LegsOf, UsecaseOf
<1>10. EndsUsecases({u}, closed)
  BY <1>3, <1>4, <1>6, <1>7, <1>8, <1>9 DEF EndsUsecases
<1>11. QED
  BY <1>6, <1>10

LEMMA DisconnectedStep ==
  ASSUME StreamInv, RunningExists, NEW c \in Clients, Disconnected(c)
  PROVE  IF filters[c] > 0
         THEN \E closed \in SUBSET Legs : EndsUsecases(Usecases, closed)
         ELSE Quiet
<1>1. CASE filters[c] > 0
  <2>1. PICK a \in DeinitOutcomes("bta2dp"), h \in DeinitOutcomes("btsco") :
          pal' = AfterDeinit(AfterDeinit(pal, "bta2dp", a), "btsco", h)
    BY <1>1 DEF Disconnected
  <2> DEFINE side == AfterDeinit(pal, "bta2dp", a)
  <2>2. pal \in Sides /\ running \in [Usecases -> BOOLEAN] /\ leg \in LegTypes
    BY DEF StreamInv, StreamTypes
  <2>3. side \in Sides /\ side.volume = pal.volume /\ side.muted = pal.muted
    BY <2>2, DeinitSide, DeinitFields
  <2>4. PICK sink \in SUBSET LegsOf("bta2dp") :
          /\ side.live = pal.live \ Handles(sink)
          /\ ClosesAll /\ running["bta2dp"] => sink = LegsOf("bta2dp")
    BY <2>2, DeinitCloses
  <2> HIDE DEF side
  <2>5. pal'.volume = pal.volume /\ pal'.muted = pal.muted
    BY <2>1, <2>3, DeinitFields DEF side
  <2>6. PICK call \in SUBSET LegsOf("btsco") :
          /\ pal'.live = side.live \ Handles(call)
          /\ ClosesAll /\ running["btsco"] => call = LegsOf("btsco")
    <3>1. pal' = AfterDeinit(side, "btsco", h)
      BY <2>1 DEF side
    <3>2. QED
      BY <2>3, <3>1, DeinitCloses
  <2>7. pal'.live = pal.live \ Handles(sink \union call)
    BY <2>4, <2>6 DEF Handles
  <2>8. EndSessions(Usecases)
    BY <1>1 DEF Disconnected
  <2>9. /\ sink \union call \in SUBSET Legs
        /\ \A l \in Legs : UsecaseOf(l) \in Usecases /\ leg'[l].handle = NoStream
    BY <2>8 DEF EndSessions, FreshLeg, LegsOf, UsecaseOf
  <2>10. \A v \in Usecases : running'[v] <=> (running[v] /\ v \notin Usecases)
    BY <2>8 DEF EndSessions
  <2>11. ClosesAll => \A l \in Legs : running[UsecaseOf(l)] => l \in sink \union call
    BY <2>4, <2>6 DEF LegsOf, UsecaseOf
  <2>12. EndsUsecases(Usecases, sink \union call)
    BY <2>5, <2>7, <2>9, <2>10, <2>11 DEF EndsUsecases
  <2>13. QED
    BY <1>1, <2>9, <2>12
<1>2. CASE ~(filters[c] > 0)
  BY <1>2 DEF Disconnected, Quiet
<1>3. QED
  BY <1>1, <1>2

LEMMA StartBtsinkStep ==
  ASSUME StreamInv, ~running["bta2dp"], StartBtsink
  PROVE  FailsToStart("bta2dp") \/ \E new \in [LegsOf("bta2dp") -> Streams] :
                                    Starts("bta2dp", new)
<1>1. pal \in Sides /\ running \in [Usecases -> BOOLEAN] /\ leg \in LegTypes
  BY DEF StreamInv, StreamTypes
<1>2. CASE UNCHANGED <<leg, running, pal>>
  BY <1>2 DEF FailsToStart
<1>3. ASSUME NEW s \in Streams \ pal.live, leg' = [leg EXCEPT !["a2dp"].handle = s],
             "a2dp_start" \in Failures,
             NEW left \in LeftOpen({s}), pal' = Opened(pal, left), UNCHANGED running
      PROVE  FailsToStart("bta2dp")
  <2>1. left \in SUBSET {s} /\ (ClosesAll => left = {})
    BY <1>3 DEF LeftOpen, ClosesAll
  <2>2. /\ pal'.live = pal.live \union left /\ pal'.muted = pal.muted \ left
        /\ pal'.volume = [x \in Streams |-> IF x \in left THEN PalOwn ELSE pal.volume[x]]
        /\ pal'.speech = pal.speech /\ pal'.rate = pal.rate
        /\ pal'.connected = pal.connected /\ pal'.sco = pal.sco
    BY <1>1, <1>3, <2>1, OpenedFields
  <2>3. pal.live \subseteq Streams
    BY <1>1 DEF Sides
  <2>4. \A x \in pal.live : pal'.volume[x] = pal.volume[x]
    BY <1>3, <2>1, <2>2, <2>3
  <2>5. \A l \in Legs : UsecaseOf(l) # "bta2dp" => leg'[l] = leg[l]
    BY <1>1, <1>3 DEF UsecaseOf, LegTypes
  <2>6. QED
    BY <1>3, <2>1, <2>2, <2>4, <2>5 DEF FailsToStart
<1>4. ASSUME NEW s \in Streams \ pal.live, leg' = [leg EXCEPT !["a2dp"].handle = s],
             running' = [running EXCEPT !["bta2dp"] = TRUE],
             NEW set \in VolumesSet({"a2dp"}),
             pal' = Louder(Opened(pal, {s}), [a2dp |-> s], set)
      PROVE  Starts("bta2dp", [l \in LegsOf("bta2dp") |-> s])
  <2> DEFINE side == Opened(pal, {s})
             sent == [a2dp |-> s]
  <2>1. set \in SUBSET {"a2dp"} /\ ("volume" \notin Failures => set = {"a2dp"})
    BY <1>4 DEF VolumesSet
  <2>2. /\ side \in Sides
        /\ side.live = pal.live \union {s} /\ side.muted = pal.muted \ {s}
        /\ side.volume = [x \in Streams |-> IF x \in {s} THEN PalOwn ELSE pal.volume[x]]
        /\ side.speech = pal.speech /\ side.rate = pal.rate
        /\ side.connected = pal.connected /\ side.sco = pal.sco
    BY <1>1, <1>4, OpenedFields, OpenedSide
  <2>3. sent["a2dp"] = s
    OBVIOUS
  <2>4. pal' = Louder(side, sent, set) /\ set \in SUBSET Legs
    BY <1>4, <2>1
  <2> HIDE DEF side, sent
  <2>5. /\ pal'.volume = [x \in Streams |-> IF \E l \in set : sent[l] = x
                        THEN Gain(leg[CHOOSE l \in set : sent[l] = x].volume)
                        ELSE side.volume[x]]
        /\ pal'.live = side.live /\ pal'.muted = side.muted
        /\ pal'.speech = side.speech /\ pal'.rate = side.rate
        /\ pal'.connected = side.connected /\ pal'.sco = side.sco
    <3> DEFINE o == Louder(side, sent, set)
    <3>1. side \in Sides /\ set \in SUBSET Legs
      BY <2>2, <2>4
    <3>2. o.volume = [x \in Streams |-> IF \E l \in set : sent[l] = x
                        THEN Gain(leg[CHOOSE l \in set : sent[l] = x].volume)
                        ELSE side.volume[x]]
      BY <3>1, LouderVolumes
    <3>3. /\ o.live = side.live /\ o.muted = side.muted
          /\ o.speech = side.speech /\ o.rate = side.rate
          /\ o.connected = side.connected /\ o.sco = side.sco
      BY <3>1 DEF Louder, Sides
    <3>4. pal' = o
      BY <2>4
    <3> HIDE DEF o
    <3>5. QED
      BY <3>2, <3>3, <3>4
  <2>6. pal.live \subseteq Streams
    BY <1>1 DEF Sides
  <2>7. \A x \in pal.live : pal'.volume[x] = pal.volume[x] /\ x # s
    BY <1>4, <2>1, <2>2, <2>3, <2>5, <2>6
  <2>8. "volume" \notin Failures => pal'.volume[s] = Gain(leg["a2dp"].volume)
    <3>1. SUFFICES ASSUME "volume" \notin Failures
                   PROVE  pal'.volume[s] = Gain(leg["a2dp"].volume)
      OBVIOUS
    <3>2. set = {"a2dp"}
      BY <2>1, <3>1
    <3>3. (CHOOSE l \in set : sent[l] = s) = "a2dp"
      BY <2>3, <3>2
    <3>4. QED
      BY <1>4, <2>3, <2>5, <3>2, <3>3
  <2>9. \A l \in Legs : IF l = "a2dp" THEN leg'[l] = [leg[l] EXCEPT !.handle = s]
                        ELSE leg'[l] = leg[l]
    BY <1>1, <1>4 DEF LegTypes
  <2>10. leg'["a2dp"].handle = s /\ leg'["a2dp"].volume = leg["a2dp"].volume
    BY <1>1, <2>9 DEF LegTypes
  <2>11. \A v \in Usecases : running'[v] <=> (running[v] \/ v = "bta2dp")
    BY <1>1, <1>4
  <2>12. LegsOf("bta2dp") = {"a2dp"}
    BY DEF LegsOf
  <2> DEFINE new == [l \in LegsOf("bta2dp") |-> s]
  <2>13. new["a2dp"] = s /\ {new[l] : l \in LegsOf("bta2dp")} = {s}
    BY <2>12
  <2> HIDE DEF new
  <2>14. \A l \in Legs :
          IF l \in LegsOf("bta2dp")
          THEN /\ leg'[l].handle = new[l] /\ leg'[l].volume = leg[l].volume
               /\ new[l] \notin pal'.muted
               /\ "volume" \notin Failures => pal'.volume[new[l]] = Gain(leg[l].volume)
          ELSE leg'[l] = leg[l]
    <3>1. new["a2dp"] \notin pal'.muted
      BY <2>2, <2>5, <2>13
    <3>2. "volume" \notin Failures => pal'.volume[new["a2dp"]] = Gain(leg["a2dp"].volume)
      BY <2>8, <2>13
    <3>3. QED
      BY <2>9, <2>10, <2>12, <2>13, <3>1, <3>2
  <2>15. /\ \A x \in pal.live : x \in pal'.muted <=> x \in pal.muted
         /\ pal'.live = pal.live \union {s}
         /\ pal'.rate = pal.rate /\ pal'.speech = pal.speech
         /\ pal'.connected = pal.connected /\ pal'.sco = pal.sco
    BY <2>2, <2>5, <2>7
  <2>16. Starts("bta2dp", new)
    BY <1>4, <2>7, <2>11, <2>12, <2>13, <2>14, <2>15 DEF Starts
  <2>17. QED
    BY <2>16 DEF new
<1>5. ASSUME NEW s \in Streams
      PROVE  [l \in LegsOf("bta2dp") |-> s] \in [LegsOf("bta2dp") -> Streams]
  OBVIOUS
<1>6. QED
  BY <1>2, <1>3, <1>4, <1>5 DEF StartBtsink

LEMMA HandsFreeFailsStep ==
  ASSUME StreamInv, ~running["btsco"], NEW opened,
         \A l \in DOMAIN opened : opened[l] \in Streams \ pal.live,
         NEW nulled \in SUBSET {"rx", "tx"}, HandsFreeFails(opened, nulled)
  PROVE  FailsToStart("btsco")
<1> DEFINE streams == {opened[l] : l \in DOMAIN opened}
<1>1. PICK left \in LeftOpen(streams) : pal' = Wideband(Opened(pal, left))
  BY DEF HandsFreeFails
<1>2. left \in SUBSET (Streams \ pal.live) /\ (ClosesAll => left = {})
  <2>1. streams \in SUBSET (Streams \ pal.live)
    OBVIOUS
  <2> HIDE DEF streams
  <2>2. QED
    BY <1>1, <2>1 DEF LeftOpen, ClosesAll
<1>3. pal \in Sides /\ leg \in LegTypes
  BY DEF StreamInv, StreamTypes
<1> DEFINE side == Opened(pal, left)
<1>4. /\ side \in Sides
      /\ side.live = pal.live \union left /\ side.muted = pal.muted \ left
      /\ side.volume = [x \in Streams |-> IF x \in left THEN PalOwn ELSE pal.volume[x]]
      /\ side.rate = pal.rate
      /\ side.connected = pal.connected /\ side.sco = pal.sco
  BY <1>2, <1>3, OpenedFields, OpenedSide
<1> HIDE DEF side
<1>5. /\ pal'.live = side.live /\ pal'.muted = side.muted /\ pal'.volume = side.volume
      /\ pal'.rate = side.rate
      /\ pal'.connected = side.connected /\ pal'.sco = side.sco
  BY <1>1, <1>4, WidebandFields DEF side
<1>6. pal.live \subseteq Streams
  BY <1>3 DEF Sides
<1>7. \A x \in pal.live : pal'.volume[x] = pal.volume[x]
  BY <1>2, <1>4, <1>5, <1>6
<1>8. \A l \in Legs : /\ UsecaseOf(l) # "btsco" => leg'[l] = leg[l]
                      /\ leg'[l].volume = leg[l].volume
                      /\ leg'[l].handle \in {leg[l].handle, NoStream}
  <2>1. \A l \in Legs :
          leg'[l] = IF l \in nulled THEN [leg[l] EXCEPT !.handle = NoStream] ELSE leg[l]
    BY DEF HandsFreeFails
  <2>2. \A l \in nulled : UsecaseOf(l) = "btsco"
    BY DEF UsecaseOf
  <2>3. QED
    BY <1>3, <2>1, <2>2 DEF LegTypes
<1>9. running' = running
  BY DEF HandsFreeFails
<1>10. QED
  BY <1>2, <1>4, <1>5, <1>7, <1>8, <1>9 DEF FailsToStart

LEMMA HandsFreeStartsStep ==
  ASSUME StreamInv, ~running["btsco"],
         NEW s \in Streams \ pal.live, NEW t \in Streams \ (pal.live \union {s}),
         running' = [running EXCEPT !["btsco"] = TRUE],
         leg' = [leg EXCEPT !["rx"].handle = s, !["tx"].handle = t],
         NEW set \in VolumesSet({"rx", "tx"}),
         pal' = [Wideband(Louder(Opened(pal, {s, t}), [rx |-> s, tx |-> t], set))
                 EXCEPT !.rate = rate]
  PROVE  \E new \in [LegsOf("btsco") -> Streams] : Starts("btsco", new)
<1> DEFINE opened == Opened(pal, {s, t})
           sent == [rx |-> s, tx |-> t]
           side == Louder(opened, sent, set)
           wide == Wideband(side)
<1>1. pal \in Sides /\ running \in [Usecases -> BOOLEAN] /\ leg \in LegTypes /\ rate \in Rates
  BY DEF StreamInv, StreamTypes
<1>2. set \in SUBSET {"rx", "tx"} /\ ("volume" \notin Failures => set = {"rx", "tx"})
  BY DEF VolumesSet
<1>3. /\ opened \in Sides
      /\ opened.live = pal.live \union {s, t} /\ opened.muted = pal.muted \ {s, t}
      /\ opened.volume = [x \in Streams |-> IF x \in {s, t} THEN PalOwn ELSE pal.volume[x]]
      /\ opened.connected = pal.connected /\ opened.sco = pal.sco
  BY <1>1, OpenedFields, OpenedSide
<1>4. sent["rx"] = s /\ sent["tx"] = t /\ sent \in [{"rx", "tx"} -> Streams]
  OBVIOUS
<1>5. pal' = [wide EXCEPT !.rate = rate]
  OBVIOUS
<1> HIDE DEF opened, sent
<1>6. /\ side \in Sides
      /\ side.volume = [x \in Streams |-> IF \E l \in set : sent[l] = x
                        THEN Gain(leg[CHOOSE l \in set : sent[l] = x].volume)
                        ELSE opened.volume[x]]
      /\ side.live = opened.live /\ side.muted = opened.muted
      /\ side.connected = opened.connected /\ side.sco = opened.sco
  <2>1. set \in SUBSET Legs
    BY <1>2
  <2>2. side \in Sides
    BY <1>1, <1>3, <2>1, LouderSide
  <2>3. side.volume = [x \in Streams |-> IF \E l \in set : sent[l] = x
                        THEN Gain(leg[CHOOSE l \in set : sent[l] = x].volume)
                        ELSE opened.volume[x]]
    BY <1>3, <2>1, LouderVolumes
  <2>4. /\ side.live = opened.live /\ side.muted = opened.muted
        /\ side.connected = opened.connected /\ side.sco = opened.sco
    BY <1>3, <2>1, LouderFields
  <2>5. QED
    BY <2>2, <2>3, <2>4
<1> HIDE DEF side
<1>7. /\ wide \in Sides /\ wide.volume = side.volume
      /\ wide.live = side.live /\ wide.muted = side.muted
      /\ rate # PortRate => wide.speech = Speech(rate)
      /\ wide.connected = side.connected /\ wide.sco = side.sco
  BY <1>6, WidebandFields, WidebandSide
<1> HIDE DEF wide
<1>8. /\ pal'.live = wide.live /\ pal'.volume = wide.volume /\ pal'.muted = wide.muted
      /\ pal'.rate = rate /\ pal'.speech = wide.speech
      /\ pal'.connected = wide.connected /\ pal'.sco = wide.sco
  <2> DEFINE last == [wide EXCEPT !.rate = rate]
  <2>1. /\ last.volume = wide.volume /\ last.live = wide.live /\ last.muted = wide.muted
        /\ last.speech = wide.speech /\ last.rate = rate
        /\ last.connected = wide.connected /\ last.sco = wide.sco
    BY <1>1, <1>7, RateFields
  <2>2. pal' = last
    BY <1>5
  <2> HIDE DEF last
  <2>3. QED
    BY <2>1, <2>2
<1>side. /\ pal'.live = pal.live \union {s, t} /\ pal'.muted = pal.muted \ {s, t}
        /\ pal'.volume = side.volume
        /\ pal'.connected = pal.connected /\ pal'.sco = pal.sco
  BY <1>3, <1>6, <1>7, <1>8, Zenon
<1>9. pal.live \subseteq Streams
  BY <1>1 DEF Sides
<1>10. \A x \in pal.live : /\ pal'.volume[x] = pal.volume[x] /\ x # s /\ x # t
                           /\ x \in pal'.muted <=> x \in pal.muted
  <2>1. TAKE x \in pal.live
  <2>2. x \in Streams /\ x # s /\ x # t
    BY <1>9
  <2>3. side.volume[x] = opened.volume[x]
    BY <1>2, <1>4, <1>6, <2>2
  <2>4. opened.volume[x] = pal.volume[x]
    BY <1>3, <2>2
  <2>5. QED
    BY <1>side, <2>2, <2>3, <2>4
<1>11. "volume" \notin Failures => /\ pal'.volume[s] = Gain(leg["rx"].volume)
                                   /\ pal'.volume[t] = Gain(leg["tx"].volume)
  <2>1. SUFFICES ASSUME "volume" \notin Failures
                 PROVE  /\ pal'.volume[s] = Gain(leg["rx"].volume)
                        /\ pal'.volume[t] = Gain(leg["tx"].volume)
    OBVIOUS
  <2>2. set = {"rx", "tx"}
    BY <1>2, <2>1
  <2>3. (CHOOSE l \in set : sent[l] = s) = "rx" /\ (CHOOSE l \in set : sent[l] = t) = "tx"
    BY <1>4, <2>2
  <2>4. (\E l \in set : sent[l] = s) /\ (\E l \in set : sent[l] = t)
    BY <1>4, <2>2
  <2>5. /\ side.volume[s] = Gain(leg[CHOOSE l \in set : sent[l] = s].volume)
        /\ side.volume[t] = Gain(leg[CHOOSE l \in set : sent[l] = t].volume)
    BY <1>6, <2>4
  <2>6. /\ side.volume[s] = Gain(leg["rx"].volume)
        /\ side.volume[t] = Gain(leg["tx"].volume)
    BY <2>3, <2>5
  <2>7. QED
    BY <1>7, <1>8, <2>6
<1>12. /\ leg'["rx"] = [leg["rx"] EXCEPT !.handle = s]
       /\ leg'["tx"] = [leg["tx"] EXCEPT !.handle = t]
       /\ leg'["a2dp"] = leg["a2dp"]
  BY <1>1 DEF LegTypes
<1>13. /\ leg'["rx"].handle = s /\ leg'["rx"].volume = leg["rx"].volume
       /\ leg'["tx"].handle = t /\ leg'["tx"].volume = leg["tx"].volume
  BY <1>1, <1>12 DEF LegTypes
<1>14. \A v \in Usecases : running'[v] <=> (running[v] \/ v = "btsco")
  BY <1>1
<1>15. LegsOf("btsco") = {"rx", "tx"}
  BY DEF LegsOf
<1>16. /\ s \notin pal'.muted /\ t \notin pal'.muted /\ pal'.live = pal.live \union {s, t}
       /\ pal'.connected = pal.connected /\ pal'.sco = pal.sco
  BY <1>side
<1>17. Starts("btsco", sent)
  <2>1. {sent[l] : l \in LegsOf("btsco")} = {s, t}
    BY <1>4, <1>15
  <2>2. \A l \in Legs :
          IF l \in LegsOf("btsco")
          THEN /\ leg'[l].handle = sent[l] /\ leg'[l].volume = leg[l].volume
               /\ sent[l] \notin pal'.muted
               /\ "volume" \notin Failures => pal'.volume[sent[l]] = Gain(leg[l].volume)
          ELSE leg'[l] = leg[l]
    BY <1>4, <1>11, <1>12, <1>13, <1>15, <1>16
  <2>3. /\ \A l \in LegsOf("btsco") : sent[l] \in Streams \ pal.live
        /\ \A k, l \in LegsOf("btsco") : k # l => sent[k] # sent[l]
    BY <1>4, <1>15
  <2>4. QED
    BY <1>7, <1>8, <1>10, <1>14, <1>16, <2>1, <2>2, <2>3 DEF Starts
<1>18. QED
  BY <1>4, <1>15, <1>17

LEMMA StartHfpStep ==
  ASSUME StreamInv, ~running["btsco"], StartHfp
  PROVE  FailsToStart("btsco") \/ \E new \in [LegsOf("btsco") -> Streams] :
                                   Starts("btsco", new)
<1>1. CASE UNCHANGED <<leg, running, pal>>
  BY <1>1 DEF FailsToStart
<1>2. CASE HandsFreeFails(NothingOpened, {"rx"})
  BY <1>2, HandsFreeFailsStep DEF NothingOpened
<1>3. ASSUME NEW s \in Streams \ pal.live,
             HandsFreeFails([rx |-> s], {"rx"}) \/ HandsFreeFails([rx |-> s], {"rx", "tx"})
      PROVE  FailsToStart("btsco")
  <2>1. \A l \in DOMAIN [rx |-> s] : [rx |-> s][l] \in Streams \ pal.live
    OBVIOUS
  <2>2. QED
    BY <1>3, <2>1, HandsFreeFailsStep
<1>4. ASSUME NEW s \in Streams \ pal.live, NEW t \in Streams \ (pal.live \union {s}),
             HandsFreeFails([rx |-> s, tx |-> t], {"rx", "tx"})
      PROVE  FailsToStart("btsco")
  <2>1. \A l \in DOMAIN [rx |-> s, tx |-> t] :
          [rx |-> s, tx |-> t][l] \in Streams \ pal.live
    OBVIOUS
  <2>2. QED
    BY <1>4, <2>1, HandsFreeFailsStep
<1>5. QED
  BY <1>1, <1>2, <1>3, <1>4, HandsFreeStartsStep DEF StartHfp

LEMMA CreateStep ==
  ASSUME StreamInv, NEW u \in Usecases, CreateLoopback(u)
  PROVE  FailsToStart(u) \/ \E new \in [LegsOf(u) -> Streams] : Starts(u, new)
  BY StartBtsinkStep, StartHfpStep DEF CreateLoopback

LEMMA ReloadStep == Reload => Forgets
  BY DEF Reload, Forgets, SilentPal, FreshLeg

(* Every step of the service is one of these.                               *)
LEMMA StreamStep ==
  ASSUME StreamInv, SessionInv, RunningExists, [Next]_vars
  PROVE  \/ Quiet \/ Forgets
         \/ \E l \in Legs, v \in Volumes : SetVolume(l, v)
         \/ \E l \in Legs, m \in BOOLEAN : SetMute(l, m)
         \/ \E u \in Usecases : FailsToStart(u)
         \/ \E u \in Usecases : \E new \in [LegsOf(u) -> Streams] : Starts(u, new)
         \/ \E us \in SUBSET Usecases, closed \in SUBSET Legs : EndsUsecases(us, closed)
<1>1. CASE UNCHANGED vars
  BY <1>1 DEF vars, Quiet
<1>2. ASSUME ~aborted, NEW c \in Clients, NEW u \in Usecases, BtConnect(c, u)
      PROVE  Quiet \/ EndsUsecases({u}, {})
  BY <1>2, BtConnectStep
<1>3. ASSUME NEW u \in Usecases, CreateLoopback(u)
      PROVE  FailsToStart(u) \/ \E new \in [LegsOf(u) -> Streams] : Starts(u, new)
  BY <1>3, CreateStep
<1>4. ASSUME NEW u \in Usecases, DestroyLoopback(u)
      PROVE  \E closed \in SUBSET Legs : EndsUsecases({u}, closed)
  BY <1>4, DestroyStep
<1>5. ASSUME NEW c \in Clients, NEW u \in Usecases, BtDisconnect(c, u)
      PROVE  \E closed \in SUBSET Legs : EndsUsecases({u}, closed)
  BY <1>5, BtDisconnectStep
<1>6. ASSUME NEW c \in Clients, Disconnected(c)
      PROVE  Quiet \/ \E closed \in SUBSET Legs : EndsUsecases(Usecases, closed)
  BY <1>6, DisconnectedStep
<1>7. ASSUME NEW c \in Clients, Reconnect(c)
      PROVE  Quiet
  BY <1>7 DEF Reconnect, Quiet
<1>8. ASSUME NEW r \in Rates, SetSampleRate(r)
      PROVE  Quiet
  BY <1>8 DEF SetSampleRate, Quiet
<1>9. CASE ReachLeft
  BY <1>9 DEF ReachLeft, Quiet
<1>10. {} \in SUBSET Legs /\ \A u \in Usecases : {u} \in SUBSET Usecases
  OBVIOUS
<1>11. QED
  BY <1>1, <1>2, <1>3, <1>4, <1>5, <1>6, <1>7, <1>8, <1>9, <1>10, ReloadStep
     DEF Next, Handler

-----------------------------------------------------------------------------
(* A use case that runs has its data: the handlers of a session are the     *)
(* only ones to start it.                                                   *)

LEMMA NextRunningExists ==
  ASSUME StreamInv, SessionInv, RunningExists, [Next]_vars
  PROVE  RunningExists'
<1>1. running \in [Usecases -> BOOLEAN] /\ exists \in [Usecases -> BOOLEAN]
  BY DEF StreamInv, StreamTypes, SessionInv, SessionTypes
<1>2. CASE UNCHANGED <<running, exists>>
  BY <1>2 DEF RunningExists
<1>3. ASSUME NEW c \in Clients, NEW u \in Usecases, BtConnect(c, u)
      PROVE  RunningExists'
  BY <1>1, <1>3 DEF BtConnect, RunningExists
<1>4. ASSUME ~aborted, NEW u \in Usecases, CreateLoopback(u)
      PROVE  RunningExists'
  <2>1. exists[u] /\ exists' = exists
    BY <1>1, <1>4 DEF CreateLoopback, Called, SessionInv, SessionHasUsecase
  <2>2. \A v \in Usecases : running'[v] => running[v] \/ v = u
    BY <1>4, CreateStep DEF FailsToStart, Starts
  <2>3. QED
    BY <2>1, <2>2 DEF RunningExists
<1>5. ASSUME NEW u \in Usecases, DestroyLoopback(u)
      PROVE  RunningExists'
  BY <1>1, <1>5 DEF DestroyLoopback, RunningExists
<1>6. ASSUME NEW us \in SUBSET Usecases, EndSessions(us)
      PROVE  RunningExists'
  BY <1>1, <1>6 DEF EndSessions, RunningExists
<1>7. CASE Reload
  BY <1>7 DEF Reload, RunningExists
<1>8. \A u \in Usecases : {u} \in SUBSET Usecases
  OBVIOUS
<1>9. QED
  BY <1>2, <1>3, <1>4, <1>5, <1>6, <1>7, <1>8
     DEF Next, Handler, vars, BtDisconnect, Disconnected, Reconnect, SetVolume,
         SetMute, SetSampleRate, ReachLeft

LEMMA RunningInvariant == Spec => []RunningExists
<1>1. Init => RunningExists
  BY DEF Init, RunningExists
<1>2. StreamInv /\ SessionInv /\ RunningExists /\ [Next]_vars => RunningExists'
  BY NextRunningExists
<1>3. QED
  BY <1>1, <1>2, StreamInvariant, SessionInvariant, PTL DEF Spec

(* What every step can rely on.                                             *)
Known == StreamInv /\ SessionInv /\ RunningExists

LEMMA KnownInvariant == Spec => []Known
  BY StreamInvariant, SessionInvariant, RunningInvariant, PTL DEF Known

-----------------------------------------------------------------------------
(* No stream is lost                                                        *)

(* StreamsOwned is not inductive: a leg of a use case that does not run may *)
(* name a stream too, but then its use case loses it at the next start.     *)
Owned ==
  \A s \in pal.live : \E l \in Legs : running[UsecaseOf(l)] /\ leg[l].handle = s

LEMMA NextOwned ==
  ASSUME ClosesAll, Known, Owned, [Next]_vars
  PROVE  Owned'
<1>1. pal.live \subseteq Streams /\ NoStream \notin Streams
  BY LoopbackConstants DEF Known, StreamInv, StreamTypes, Sides
<1>2. CASE Quiet \/ Forgets
  BY <1>2 DEF Quiet, Forgets, Owned, UsecaseOf
<1>3. ASSUME NEW l \in Legs, NEW v \in Volumes, SetVolume(l, v)
      PROVE  Owned'
  <2>1. running' = running /\ \A k \in Legs : leg'[k].handle = leg[k].handle
    BY <1>3 DEF SetVolume, Known, StreamInv, StreamTypes, LegTypes
  <2>2. pal'.live = pal.live
    BY <1>3 DEF SetVolume, Known, StreamInv, StreamTypes, Sides
  <2>3. QED
    BY <2>1, <2>2 DEF Owned, UsecaseOf
<1>4. ASSUME NEW l \in Legs, NEW m \in BOOLEAN, SetMute(l, m)
      PROVE  Owned'
  <2>1. running' = running /\ \A k \in Legs : leg'[k].handle = leg[k].handle
    BY <1>4 DEF SetMute, MuteCached, Known, StreamInv, StreamTypes, LegTypes
  <2>2. pal'.live = pal.live
    BY <1>4 DEF SetMute, Known, StreamInv, StreamTypes, Sides
  <2>3. QED
    BY <2>1, <2>2 DEF Owned, UsecaseOf
<1>5. ASSUME NEW u \in Usecases, FailsToStart(u)
      PROVE  Owned'
  <2>1. pal'.live = pal.live
    BY <1>5 DEF FailsToStart
  <2>2. \A l \in Legs : running[UsecaseOf(l)] => running'[UsecaseOf(l)] /\ leg'[l] = leg[l]
    BY <1>5 DEF FailsToStart
  <2>3. QED
    BY <2>1, <2>2 DEF Owned, UsecaseOf
<1>6. ASSUME NEW u \in Usecases, NEW new \in [LegsOf(u) -> Streams],
             Starts(u, new)
      PROVE  Owned'
  <2>1. \A l \in LegsOf(u) : running'[UsecaseOf(l)] /\ leg'[l].handle = new[l]
    BY <1>6 DEF Starts, LegsOf, UsecaseOf
  <2>2. \A l \in Legs : running[UsecaseOf(l)] => running'[UsecaseOf(l)] /\ leg'[l] = leg[l]
    BY <1>6 DEF Starts, LegsOf, UsecaseOf
  <2>3. LegsOf(u) \subseteq Legs /\ pal'.live = pal.live \union {new[l] : l \in LegsOf(u)}
    BY <1>6 DEF Starts, LegsOf
  <2>4. QED
    BY <2>1, <2>2, <2>3 DEF Owned, UsecaseOf
<1>7. ASSUME NEW us \in SUBSET Usecases, NEW closed \in SUBSET Legs,
             EndsUsecases(us, closed)
      PROVE  Owned'
  <2>1. SUFFICES ASSUME NEW s \in pal'.live
                 PROVE  \E l \in Legs : running'[UsecaseOf(l)] /\ leg'[l].handle = s
    BY DEF Owned, UsecaseOf
  <2>2. s \in pal.live /\ s \notin Handles(closed) /\ s # NoStream
    BY <1>1, <1>7, <2>1 DEF EndsUsecases
  <2>3. PICK l \in Legs : running[UsecaseOf(l)] /\ leg[l].handle = s
    BY <2>2 DEF Owned
  <2>4. l \notin closed
    BY <2>2, <2>3 DEF Handles
  <2>5. UsecaseOf(l) \notin us /\ UsecaseOf(l) \in Usecases
    BY <1>7, <2>3, <2>4 DEF EndsUsecases, UsecaseOf
  <2>6. leg'[l] = leg[l] /\ running'[UsecaseOf(l)]
    BY <1>7, <2>3, <2>5 DEF EndsUsecases
  <2>7. QED
    BY <2>3, <2>6
<1>8. QED
  BY <1>2, <1>3, <1>4, <1>5, <1>6, <1>7, StreamStep DEF Known

(* Every open stream is the one of a leg, where PAL refuses no close: no    *)
(* half failed start_hfp or start_btsink, no stop and no death of a client  *)
(* loses one.                                                               *)
THEOREM NoStreamIsLost ==
  ASSUME ClosesAll
  PROVE  Spec => []StreamsOwned
<1>1. Init => Owned
  BY DEF Init, SilentPal, Owned
<1>2. Known /\ Owned /\ [Next]_vars => Owned'
  BY NextOwned
<1>3. Known /\ Owned => StreamsOwned
  <2>1. Known => pal.live \subseteq Streams
    BY DEF Known, StreamInv, StreamTypes, Sides
  <2>2. QED
    BY <2>1, LoopbackConstants DEF Owned, StreamsOwned, Handles
<1>4. QED
  BY <1>1, <1>2, <1>3, KnownInvariant, PTL DEF Spec

-----------------------------------------------------------------------------
(* No call for a closed stream                                              *)

(* Every handle names an open stream, and no two legs name the same one:    *)
(* what one use case closes is not the other's.                             *)
HandlesLive ==
  \A l \in Legs :
    /\ leg[l].handle \in pal.live \union {NoStream}
    /\ \A k \in Legs \ {l} : leg[k].handle = leg[l].handle => leg[l].handle = NoStream

LEMMA NextHandlesLive ==
  ASSUME "a2dp_start" \notin Failures, Known, HandlesLive, [Next]_vars
  PROVE  HandlesLive'
<1>1. pal.live \subseteq Streams /\ NoStream \notin Streams
  BY LoopbackConstants DEF Known, StreamInv, StreamTypes, Sides
<1>2. CASE Quiet \/ Forgets
  BY <1>2 DEF Quiet, Forgets, HandlesLive
<1>3. ASSUME NEW l \in Legs, NEW v \in Volumes, SetVolume(l, v)
      PROVE  HandlesLive'
  <2>1. \A k \in Legs : leg'[k].handle = leg[k].handle
    BY <1>3 DEF SetVolume, Known, StreamInv, StreamTypes, LegTypes
  <2>2. pal'.live = pal.live
    BY <1>3 DEF SetVolume, Known, StreamInv, StreamTypes, Sides
  <2>3. QED
    BY <2>1, <2>2 DEF HandlesLive
<1>4. ASSUME NEW l \in Legs, NEW m \in BOOLEAN, SetMute(l, m)
      PROVE  HandlesLive'
  <2>1. \A k \in Legs : leg'[k].handle = leg[k].handle
    BY <1>4 DEF SetMute, MuteCached, Known, StreamInv, StreamTypes, LegTypes
  <2>2. pal'.live = pal.live
    BY <1>4 DEF SetMute, Known, StreamInv, StreamTypes, Sides
  <2>3. QED
    BY <2>1, <2>2 DEF HandlesLive
<1>5. ASSUME NEW u \in Usecases, FailsToStart(u)
      PROVE  HandlesLive'
  BY <1>5 DEF FailsToStart, HandlesLive
<1>6. ASSUME NEW u \in Usecases, NEW new \in [LegsOf(u) -> Streams], Starts(u, new)
      PROVE  HandlesLive'
  <2>1. LegsOf(u) \subseteq Legs /\ pal'.live = pal.live \union {new[l] : l \in LegsOf(u)}
    BY <1>6 DEF Starts, LegsOf
  <2>2. \A l \in LegsOf(u) : leg'[l].handle = new[l] /\ new[l] \in Streams \ pal.live
    BY <1>6 DEF Starts, LegsOf
  <2>3. \A l \in Legs \ LegsOf(u) : leg'[l] = leg[l]
    BY <1>6 DEF Starts
  <2>4. \A k, l \in LegsOf(u) : k # l => new[k] # new[l]
    BY <1>6 DEF Starts
  <2>5. \A l \in Legs : leg'[l].handle \in pal'.live \union {NoStream}
    BY <2>1, <2>2, <2>3 DEF HandlesLive
  <2>6. ASSUME NEW l \in Legs, NEW k \in Legs \ {l}, leg'[k].handle = leg'[l].handle
        PROVE  leg'[l].handle = NoStream
    BY <1>1, <2>2, <2>3, <2>4, <2>6 DEF HandlesLive
  <2>7. QED
    BY <2>5, <2>6 DEF HandlesLive
<1>7. ASSUME NEW us \in SUBSET Usecases, NEW closed \in SUBSET Legs,
             EndsUsecases(us, closed)
      PROVE  HandlesLive'
  <2>1. \A l \in Legs : leg'[l].handle \in {leg[l].handle, NoStream}
    BY <1>7 DEF EndsUsecases
  <2>2. ASSUME NEW l \in Legs, leg'[l].handle # NoStream
        PROVE  leg'[l].handle \in pal'.live
    <3>1. l \notin closed /\ leg'[l].handle = leg[l].handle
      BY <1>7, <2>1, <2>2 DEF EndsUsecases
    <3>2. leg[l].handle \notin Handles(closed)
      BY <2>2, <3>1 DEF HandlesLive, Handles
    <3>3. QED
      BY <1>7, <2>2, <3>1, <3>2 DEF EndsUsecases, HandlesLive
  <2>3. QED
    BY <2>1, <2>2 DEF HandlesLive
<1>8. QED
  BY <1>2, <1>3, <1>4, <1>5, <1>6, <1>7, StreamStep DEF Known

LEMMA NextNoStaleCall ==
  ASSUME HandlesLive, NoStaleCall, [Next]_vars
  PROVE  NoStaleCall'
<1>1. CASE UNCHANGED stale
  BY <1>1 DEF NoStaleCall
<1>2. ASSUME NEW u \in Usecases, DestroyLoopback(u)
      PROVE  NoStaleCall'
  <2>1. Handles(LegsOf(u)) \subseteq pal.live
    BY DEF HandlesLive, Handles, LegsOf
  <2>2. QED
    BY <1>2, <2>1 DEF DestroyLoopback, NoStaleCall
<1>3. ASSUME NEW l \in Legs, NEW v \in Volumes, SetVolume(l, v)
      PROVE  NoStaleCall'
  BY <1>3 DEF SetVolume, HandlesLive, NoStaleCall
<1>4. ASSUME NEW l \in Legs, NEW m \in BOOLEAN, SetMute(l, m)
      PROVE  NoStaleCall'
  BY <1>4 DEF SetMute, HandlesLive, NoStaleCall
<1>5. QED
  BY <1>1, <1>2, <1>3, <1>4
     DEF Next, Handler, vars, BtConnect, CreateLoopback, BtDisconnect, Disconnected,
         Reconnect, SetSampleRate, Reload, ReachLeft

LEMMA HandlesInvariant ==
  ASSUME "a2dp_start" \notin Failures
  PROVE  Spec => []HandlesLive
<1>1. Init => HandlesLive
  BY DEF Init, FreshLeg, HandlesLive
<1>2. Known /\ HandlesLive /\ [Next]_vars => HandlesLive'
  BY NextHandlesLive
<1>3. QED
  BY <1>1, <1>2, KnownInvariant, PTL DEF Spec

(* PAL never gets the handle of a closed stream: start_hfp resets the       *)
(* handles that it gives up; start_btsink does not when its stream does not *)
(* start, which the assumption leaves out.                                  *)
THEOREM HandlesAreNotStale ==
  ASSUME "a2dp_start" \notin Failures
  PROVE  Spec => []NoStaleCall
<1>1. Init => NoStaleCall
  BY DEF Init, NoStaleCall
<1>2. HandlesLive /\ NoStaleCall /\ [Next]_vars => NoStaleCall'
  BY NextNoStaleCall
<1>3. QED
  BY <1>1, <1>2, HandlesInvariant, PTL DEF Spec

-----------------------------------------------------------------------------
(* What runs plays as it was told                                           *)

LEMMA NextPlaysAsTold ==
  ASSUME "volume" \notin Failures, Known, HandlesLive, PlaysAsTold, [Next]_vars
  PROVE  PlaysAsTold'
<1>1. /\ pal \in Sides /\ leg \in LegTypes /\ running \in [Usecases -> BOOLEAN]
      /\ pal.live \subseteq Streams /\ NoStream \notin Streams
  BY LoopbackConstants DEF Known, StreamInv, StreamTypes, Sides
<1>2. \A l \in Legs : running[UsecaseOf(l)] => leg[l].handle \in pal.live
  BY DEF Known, StreamInv, RunningOwnsStreams
<1>3. CASE Quiet
  BY <1>3 DEF Quiet, PlaysAsTold
<1>4. CASE Forgets
  BY <1>4 DEF Forgets, PlaysAsTold, UsecaseOf
<1>5. ASSUME NEW l \in Legs, NEW v \in Volumes, SetVolume(l, v)
      PROVE  PlaysAsTold'
  <2>1. /\ running' = running
        /\ \A k \in Legs : /\ leg'[k].handle = leg[k].handle /\ leg'[k].mute = leg[k].mute
                           /\ leg'[k].volume = IF k = l THEN v ELSE leg[k].volume
    BY <1>1, <1>5 DEF SetVolume, LegTypes
  <2>2. /\ pal'.muted = pal.muted /\ pal'.speech = pal.speech /\ pal'.rate = pal.rate
        /\ \A s \in Streams : pal'.volume[s] =
             IF s = leg[l].handle /\ s \in pal.live THEN Gain(v) ELSE pal.volume[s]
    BY <1>1, <1>5 DEF SetVolume, MayFail, Sides
  <2>3. ASSUME NEW k \in Legs, running[UsecaseOf(k)]
        PROVE  pal'.volume[leg[k].handle] = Gain(leg'[k].volume)
    <3>1. leg[k].handle \in pal.live /\ pal.volume[leg[k].handle] = Gain(leg[k].volume)
      BY <1>2, <2>3 DEF PlaysAsTold
    <3>2. CASE k = l
      BY <1>1, <2>1, <2>2, <3>1, <3>2
    <3>3. CASE k # l
      <4>1. leg[k].handle # leg[l].handle
        BY <1>1, <3>1, <3>3 DEF HandlesLive
      <4>2. QED
        BY <1>1, <2>1, <2>2, <3>1, <3>3, <4>1
    <3>4. QED
      BY <3>2, <3>3
  <2>4. QED
    BY <2>1, <2>2, <2>3 DEF PlaysAsTold
<1>6. ASSUME NEW l \in Legs, NEW m \in BOOLEAN, SetMute(l, m)
      PROVE  PlaysAsTold'
  <2>1. /\ running' = running
        /\ \A k \in Legs : /\ leg'[k].handle = leg[k].handle
                           /\ leg'[k].volume = leg[k].volume
                           /\ k # l => leg'[k] = leg[k]
    BY <1>1, <1>6 DEF SetMute, MuteCached, LegTypes
  <2>2. /\ pal'.volume = pal.volume /\ pal'.speech = pal.speech /\ pal'.rate = pal.rate
        /\ \A s \in Streams \ {leg[l].handle} : s \in pal'.muted => s \in pal.muted
    BY <1>1, <1>6 DEF SetMute, Sides
  <2>3. leg[l].handle \in pal'.muted =>
          leg'[l].mute \/ (leg[l].handle \in pal.muted /\ leg'[l].mute = leg[l].mute)
    BY <1>1, <1>6 DEF SetMute, MuteCached, Sides, LegTypes
  <2>4. ASSUME NEW k \in Legs, running[UsecaseOf(k)], leg[k].handle \in pal'.muted
        PROVE  leg'[k].mute
    <3>1. leg[k].handle \in pal.live /\ (leg[k].handle \in pal.muted => leg[k].mute)
      BY <1>2, <2>4 DEF PlaysAsTold
    <3>2. CASE k = l
      BY <2>3, <2>4, <3>1, <3>2
    <3>3. CASE k # l
      <4>1. leg[k].handle # leg[l].handle
        BY <1>1, <3>1, <3>3 DEF HandlesLive
      <4>2. leg[k].handle \in pal.muted
        BY <1>1, <2>2, <2>4, <3>1, <4>1
      <4>3. leg[k].mute
        BY <3>1, <4>2
      <4>4. QED
        BY <2>1, <3>3, <4>3
    <3>4. QED
      BY <3>2, <3>3
  <2>5. QED
    <3>1. ASSUME NEW k \in Legs, running'[UsecaseOf(k)]
          PROVE  /\ pal'.volume[leg'[k].handle] = Gain(leg'[k].volume)
                 /\ leg'[k].handle \in pal'.muted => leg'[k].mute
      <4>1. running[UsecaseOf(k)] /\ leg'[k].handle = leg[k].handle
            /\ leg'[k].volume = leg[k].volume
        BY <2>1, <3>1
      <4>2. pal'.volume[leg'[k].handle] = Gain(leg'[k].volume)
        BY <2>2, <4>1 DEF PlaysAsTold
      <4>3. leg'[k].handle \in pal'.muted => leg'[k].mute
        BY <2>4, <4>1
      <4>4. QED
        BY <4>2, <4>3
    <3>2. running'["btsco"] /\ pal'.rate # PortRate => pal'.speech = Speech(pal'.rate)
      BY <2>1, <2>2 DEF PlaysAsTold
    <3>3. QED
      BY <3>1, <3>2 DEF PlaysAsTold
<1>7. ASSUME NEW u \in Usecases, FailsToStart(u)
      PROVE  PlaysAsTold'
  <2>1. \A l \in Legs : running'[UsecaseOf(l)] =>
          /\ running[UsecaseOf(l)] /\ leg'[l] = leg[l]
          /\ pal'.volume[leg[l].handle] = pal.volume[leg[l].handle]
          /\ leg[l].handle \in pal'.muted => leg[l].handle \in pal.muted
    BY <1>2, <1>7 DEF FailsToStart
  <2>2. running'["btsco"] => /\ running["btsco"] /\ pal'.rate = pal.rate
                             /\ pal'.speech = pal.speech
    BY <1>7 DEF FailsToStart
  <2>3. QED
    BY <2>1, <2>2 DEF PlaysAsTold
<1>8. ASSUME NEW u \in Usecases, NEW new \in [LegsOf(u) -> Streams], Starts(u, new)
      PROVE  PlaysAsTold'
  <2>1. ASSUME NEW l \in Legs, running'[UsecaseOf(l)]
        PROVE  /\ pal'.volume[leg'[l].handle] = Gain(leg'[l].volume)
               /\ leg'[l].handle \in pal'.muted => leg'[l].mute
    <3>1. CASE l \in LegsOf(u)
      BY <1>8, <3>1 DEF Starts
    <3>2. CASE l \notin LegsOf(u)
      <4>1. leg'[l] = leg[l] /\ running[UsecaseOf(l)]
        BY <1>8, <2>1, <3>2 DEF Starts, LegsOf, UsecaseOf
      <4>2. /\ pal'.volume[leg[l].handle] = pal.volume[leg[l].handle]
            /\ leg[l].handle \in pal'.muted => leg[l].handle \in pal.muted
        BY <1>2, <1>8, <4>1 DEF Starts
      <4>3. QED
        BY <4>1, <4>2 DEF PlaysAsTold
    <3>3. QED
      BY <3>1, <3>2
  <2>2. running'["btsco"] /\ pal'.rate # PortRate => pal'.speech = Speech(pal'.rate)
    BY <1>8 DEF Starts, PlaysAsTold
  <2>3. QED
    BY <2>1, <2>2 DEF PlaysAsTold
<1>9. ASSUME NEW us \in SUBSET Usecases, NEW closed \in SUBSET Legs,
             EndsUsecases(us, closed)
      PROVE  PlaysAsTold'
  <2>1. \A l \in Legs : running'[UsecaseOf(l)] =>
          running[UsecaseOf(l)] /\ leg'[l] = leg[l]
    BY <1>9 DEF EndsUsecases, UsecaseOf
  <2>2. running'["btsco"] => /\ running["btsco"] /\ pal'.rate = pal.rate
                             /\ pal'.speech = pal.speech
    BY <1>9 DEF EndsUsecases
  <2>3. pal'.volume = pal.volume /\ pal'.muted = pal.muted
    BY <1>9 DEF EndsUsecases
  <2>4. QED
    BY <2>1, <2>2, <2>3 DEF PlaysAsTold
<1>10. QED
  BY <1>3, <1>4, <1>5, <1>6, <1>7, <1>8, <1>9, StreamStep DEF Known

(* What runs has the volume, mute and speech mode that its session was told *)
(* before the start or after, where PAL takes every volume and the A2DP     *)
(* stream always starts.                                                    *)
THEOREM SessionsPlayAsTold ==
  ASSUME "volume" \notin Failures, "a2dp_start" \notin Failures
  PROVE  Spec => []PlaysAsTold
<1>1. Init => PlaysAsTold
  BY DEF Init, PlaysAsTold, UsecaseOf
<1>2. Known /\ HandlesLive /\ PlaysAsTold /\ [Next]_vars => PlaysAsTold'
  BY NextPlaysAsTold
<1>3. QED
  BY <1>1, <1>2, KnownInvariant, HandlesInvariant, PTL DEF Spec

-----------------------------------------------------------------------------
(* Without sessions nothing is left in PAL                                  *)

(* Nothing that is done for a use case fails half way.                      *)
CompletesAll ==
  ClosesAll /\ Failures \cap {"disconnect", "sco", "connect_out", "wb"} = {}

(* What is connected is a use case's that has its data.                     *)
DevicesOwned ==
  /\ \A u \in Usecases : ~exists[u] => pal.connected \cap DevicesOf(u) = {}
  /\ pal.sco => exists["btsco"]

LEMMA DeinitDisconnects ==
  ASSUME CompletesAll, NEW side \in Sides, NEW u \in Usecases,
         NEW out \in DeinitOutcomes(u)
  PROVE  LET o == AfterDeinit(side, u, out)
         IN /\ o.connected = (IF exists[u] THEN side.connected \ DevicesOf(u)
                             ELSE side.connected)
            /\ o.sco = (side.sco /\ ~(u = "btsco" /\ exists[u]))
<1>1. out.kept = {} /\ out.off = TRUE
  BY DEF CompletesAll, DeinitOutcomes, MayFail
<1>2. side.sco \in BOOLEAN
  BY DEF Sides
<1> DEFINE o == AfterDeinit(side, u, out)
<1>3. /\ o.connected = (IF exists[u] THEN side.connected \ (DevicesOf(u) \ out.kept)
                      ELSE side.connected)
      /\ o.sco = (IF exists[u] THEN side.sco /\ ~(u = "btsco" /\ out.off) ELSE side.sco)
  BY DeinitFields
<1> HIDE DEF o
<1>4. o.connected = (IF exists[u] THEN side.connected \ DevicesOf(u) ELSE side.connected)
  BY <1>1, <1>3
<1>5. o.sco = (side.sco /\ ~(u = "btsco" /\ exists[u]))
  <2>1. CASE exists[u]
    BY <1>1, <1>2, <1>3, <2>1
  <2>2. CASE ~exists[u]
    BY <1>2, <1>3, <2>2
  <2>3. QED
    BY <2>1, <2>2
<1>6. QED
  BY <1>4, <1>5 DEF o

LEMMA NextDevicesOwned ==
  ASSUME CompletesAll, Known, DevicesOwned, [Next]_vars
  PROVE  DevicesOwned'
<1>1. /\ pal \in Sides /\ leg \in LegTypes /\ running \in [Usecases -> BOOLEAN]
      /\ exists \in [Usecases -> BOOLEAN]
  BY DEF Known, StreamInv, StreamTypes, SessionInv, SessionTypes
<1>2. CASE pal'.connected = pal.connected /\ pal'.sco = pal.sco /\ exists' = exists
  BY <1>2 DEF DevicesOwned
<1>3. ASSUME NEW c \in Clients, NEW u \in Usecases, BtConnect(c, u)
      PROVE  DevicesOwned'
  <2>1. PICK out \in InitOutcomes(u) :
          /\ pal' = PalAfterInit(u, out)
          /\ exists' = IF out = "ok" THEN [exists EXCEPT ![u] = TRUE] ELSE exists
    BY <1>3 DEF BtConnect
  <2>2. out \in {"ok", "connect_in"}
    BY DEF InitOutcomes, CompletesAll
  <2>3. /\ pal'.connected = pal.connected \union
             (CASE out = "connect_in"  -> {}
               [] out = "connect_out" -> {"sco_in"}
               [] OTHER               -> DevicesOf(u))
        /\ pal'.sco = (pal.sco \/ (u = "btsco" /\ out \in {"wb", "ok"}))
    BY <1>1, <2>1, InitFields
  <2>4. CASE out = "ok"
    <3>1. pal'.connected = pal.connected \union DevicesOf(u)
      BY <2>3, <2>4
    <3>2. \A v \in Usecases : ~exists'[v] => v # u /\ ~exists[v]
      BY <1>1, <2>1, <2>4
    <3>3. \A v \in Usecases : v # u => DevicesOf(u) \cap DevicesOf(v) = {}
      BY DEF DevicesOf
    <3>4. pal'.sco => exists'["btsco"]
      BY <1>1, <2>1, <2>3, <2>4 DEF DevicesOwned
    <3>5. QED
      BY <3>1, <3>2, <3>3, <3>4 DEF DevicesOwned
  <2>5. CASE out = "connect_in"
    <3>1. pal'.connected = pal.connected /\ exists' = exists
      BY <2>1, <2>3, <2>5
    <3>2. pal'.sco = pal.sco
      BY <1>1, <2>3, <2>5 DEF Sides
    <3>3. QED
      BY <1>2, <3>1, <3>2
  <2>6. QED
    BY <2>2, <2>4, <2>5
<1>4. ASSUME NEW u \in Usecases, CreateLoopback(u)
      PROVE  DevicesOwned'
  BY <1>2, <1>4, CreateStep DEF CreateLoopback, FailsToStart, Starts, Known
<1>5. ASSUME NEW u \in Usecases, DestroyLoopback(u)
      PROVE  DevicesOwned'
  <2>1. \E x : pal' = [pal EXCEPT !.live = x]
    BY <1>5 DEF DestroyLoopback
  <2>2. pal'.connected = pal.connected /\ pal'.sco = pal.sco
    BY <1>1, <2>1 DEF Sides
  <2>3. QED
    BY <1>2, <1>5, <2>2 DEF DestroyLoopback
<1>6. ASSUME NEW c \in Clients, NEW u \in Usecases, BtDisconnect(c, u)
      PROVE  DevicesOwned'
  <2>1. PICK out \in DeinitOutcomes(u) : pal' = AfterDeinit(pal, u, out)
    BY <1>6 DEF BtDisconnect
  <2>2. \A v \in Usecases : exists'[v] <=> (exists[v] /\ v # u)
    BY <1>6 DEF BtDisconnect, EndSessions
  <2>3. /\ pal'.connected = (IF exists[u] THEN pal.connected \ DevicesOf(u)
                            ELSE pal.connected)
        /\ pal'.sco = (pal.sco /\ ~(u = "btsco" /\ exists[u]))
    BY <1>1, <2>1, DeinitDisconnects
  <2>4. QED
    BY <2>2, <2>3 DEF DevicesOwned
<1>7. ASSUME NEW c \in Clients, Disconnected(c)
      PROVE  DevicesOwned'
  <2>1. CASE filters[c] > 0
    <3>1. PICK a \in DeinitOutcomes("bta2dp"), h \in DeinitOutcomes("btsco") :
            pal' = AfterDeinit(AfterDeinit(pal, "bta2dp", a), "btsco", h)
      BY <1>7, <2>1 DEF Disconnected
    <3> DEFINE side == AfterDeinit(pal, "bta2dp", a)
    <3>2. /\ side \in Sides
          /\ side.connected = (IF exists["bta2dp"]
                              THEN pal.connected \ DevicesOf("bta2dp")
                              ELSE pal.connected)
          /\ side.sco = pal.sco
      <4>1. pal.sco \in BOOLEAN
        BY <1>1 DEF Sides
      <4>2. QED
        BY <1>1, <4>1, DeinitDisconnects, DeinitSide
    <3>3. pal' = AfterDeinit(side, "btsco", h)
      BY <3>1
    <3> HIDE DEF side
    <3>4. /\ pal'.connected = (IF exists["btsco"]
                              THEN side.connected \ DevicesOf("btsco")
                              ELSE side.connected)
          /\ pal'.sco = (side.sco /\ ~exists["btsco"])
      BY <3>2, <3>3, DeinitDisconnects
    <3>5. \A v \in Usecases : pal'.connected \cap DevicesOf(v) = {}
      BY <3>2, <3>4 DEF DevicesOwned
    <3>6. ~pal'.sco
      BY <3>2, <3>4 DEF DevicesOwned
    <3>7. QED
      BY <3>5, <3>6 DEF DevicesOwned
  <2>2. CASE ~(filters[c] > 0)
    BY <1>2, <1>7, <2>2 DEF Disconnected
  <2>3. QED
    BY <2>1, <2>2
<1>8. ASSUME NEW l \in Legs, NEW v \in Volumes, SetVolume(l, v)
      PROVE  DevicesOwned'
  <2>1. pal'.connected = pal.connected /\ pal'.sco = pal.sco
    BY <1>1, <1>8 DEF SetVolume, Sides
  <2>2. QED
    BY <1>2, <1>8, <2>1 DEF SetVolume
<1>9. ASSUME NEW l \in Legs, NEW m \in BOOLEAN, SetMute(l, m)
      PROVE  DevicesOwned'
  <2>1. pal'.connected = pal.connected /\ pal'.sco = pal.sco
    BY <1>1, <1>9 DEF SetMute, Sides
  <2>2. QED
    BY <1>2, <1>9, <2>1 DEF SetMute
<1>10. CASE Reload
  BY <1>10 DEF Reload, SilentPal, DevicesOwned
<1>11. QED
  BY <1>2, <1>3, <1>4, <1>5, <1>6, <1>7, <1>8, <1>9, <1>10
     DEF Next, Handler, vars, Reconnect, SetSampleRate, ReachLeft

(* When the last session has ended, however the sessions ended, every       *)
(* device is disconnected, SCO is off and no stream is open, where PAL      *)
(* refuses nothing of it.                                                   *)
THEOREM SessionsLeaveNothing ==
  ASSUME CompletesAll
  PROVE  Spec => []NoSessionIsClean
<1>1. Init => Owned /\ DevicesOwned
  BY DEF Init, SilentPal, Owned, DevicesOwned
<1>2. Known /\ Owned /\ [Next]_vars => Owned'
  BY NextOwned DEF CompletesAll
<1>3. Known /\ DevicesOwned /\ [Next]_vars => DevicesOwned'
  BY NextDevicesOwned
<1>4. Known /\ Owned /\ DevicesOwned => NoSessionIsClean
  <2>1. SUFFICES ASSUME Known, Owned, DevicesOwned, Sessions = {}, ~aborted
                 PROVE  pal.connected = {} /\ ~pal.sco /\ pal.live = {}
    BY DEF NoSessionIsClean
  <2>2. \A u \in Usecases : ~exists[u] /\ ~running[u]
    BY <2>1 DEF Known, SessionInv, SessionHasUsecase, RunningExists, Sessions
  <2>3. pal.live = {}
    BY <2>1, <2>2 DEF Owned, UsecaseOf
  <2>4. pal.connected = {}
    <3>1. pal.connected \subseteq DevicesOf("bta2dp") \union DevicesOf("btsco")
      BY <2>1 DEF Known, StreamInv, StreamTypes, Sides, Devices, DevicesOf
    <3>2. QED
      BY <2>1, <2>2, <3>1 DEF DevicesOwned
  <2>5. QED
    BY <2>1, <2>2, <2>3, <2>4 DEF DevicesOwned
<1>5. QED
  BY <1>1, <1>2, <1>3, <1>4, KnownInvariant, PTL DEF Spec

-----------------------------------------------------------------------------
(* The use cases keep apart                                                 *)

(* A use case that does not run has no stream: with HandlesLive, its calls  *)
(* reach none.                                                              *)
HandlesRun == \A l \in Legs : running[UsecaseOf(l)] \/ leg[l].handle = NoStream

LEMMA NextHandlesRun ==
  ASSUME ClosesAll, "a2dp_start" \notin Failures, Known, HandlesRun, [Next]_vars
  PROVE  HandlesRun'
<1>1. CASE Quiet \/ Forgets
  BY <1>1 DEF Quiet, Forgets, HandlesRun
<1>2. ASSUME NEW l \in Legs, NEW v \in Volumes, SetVolume(l, v)
      PROVE  HandlesRun'
  BY <1>2 DEF SetVolume, Known, StreamInv, StreamTypes, LegTypes, HandlesRun
<1>3. ASSUME NEW l \in Legs, NEW m \in BOOLEAN, SetMute(l, m)
      PROVE  HandlesRun'
  BY <1>3 DEF SetMute, MuteCached, Known, StreamInv, StreamTypes, LegTypes, HandlesRun
<1>4. ASSUME NEW u \in Usecases, FailsToStart(u)
      PROVE  HandlesRun'
  BY <1>4 DEF FailsToStart, HandlesRun
<1>5. ASSUME NEW u \in Usecases, NEW new \in [LegsOf(u) -> Streams], Starts(u, new)
      PROVE  HandlesRun'
  BY <1>5 DEF Starts, HandlesRun, LegsOf, UsecaseOf
<1>6. ASSUME NEW us \in SUBSET Usecases, NEW closed \in SUBSET Legs,
             EndsUsecases(us, closed)
      PROVE  HandlesRun'
  <2>1. SUFFICES ASSUME NEW l \in Legs, leg'[l].handle # NoStream
                 PROVE  running'[UsecaseOf(l)]
    BY DEF HandlesRun
  <2>2. leg'[l] = leg[l] /\ l \notin closed
    BY <1>6, <2>1 DEF EndsUsecases
  <2>3. running[UsecaseOf(l)] /\ UsecaseOf(l) \in Usecases
    BY <2>1, <2>2 DEF HandlesRun, UsecaseOf
  <2>4. UsecaseOf(l) \notin us
    BY <1>6, <2>2, <2>3 DEF EndsUsecases
  <2>5. QED
    BY <1>6, <2>3, <2>4 DEF EndsUsecases
<1>7. QED
  BY <1>1, <1>2, <1>3, <1>4, <1>5, <1>6, StreamStep DEF Known

(* What every step of the mapping can rely on.                              *)
Apart == Known /\ HandlesLive /\ HandlesRun

(* The calls that PAL does not refuse.                                      *)
PalObeys == ClosesAll /\ Failures \cap {"a2dp_start", "volume"} = {}

LEMMA ApartInvariant ==
  ASSUME PalObeys
  PROVE  Spec => []Apart
<1>1. ClosesAll /\ "a2dp_start" \notin Failures
  BY DEF PalObeys
<1>2. Init => HandlesRun
  BY DEF Init, FreshLeg, HandlesRun
<1>3. Known /\ HandlesRun /\ [Next]_vars => HandlesRun'
  BY <1>1, NextHandlesRun
<1>4. Spec => []HandlesLive
  BY <1>1, HandlesInvariant
<1>5. QED
  BY <1>2, <1>3, <1>4, KnownInvariant, PTL DEF Spec, Apart

(* What is heard on a leg stays as it is, or ends.                          *)
SoundKept(l) ==
  HeardGain'[l] = HeardGain[l] /\ (l \in HeardMuted' <=> l \in HeardMuted)
Silenced(l) == HeardGain'[l] = NoStream /\ l \notin HeardMuted'

LEMMA SameLeg ==
  ASSUME NEW l \in Legs, leg'[l].handle = leg[l].handle,
         leg[l].handle \in pal'.live <=> leg[l].handle \in pal.live,
         leg[l].handle \in pal.live =>
           /\ pal'.volume[leg[l].handle] = pal.volume[leg[l].handle]
           /\ leg[l].handle \in pal'.muted <=> leg[l].handle \in pal.muted
  PROVE  SoundKept(l)
<1>1. HeardGain'[l] = HeardGain[l]
  <2>1. HeardGain'[l] = IF leg[l].handle \in pal'.live THEN pal'.volume[leg[l].handle]
                     ELSE NoStream
    BY DEF HeardGain
  <2>2. QED
    BY <2>1 DEF HeardGain
<1>2. l \in HeardMuted' <=> l \in HeardMuted
  <2>1. l \in HeardMuted' <=> leg[l].handle \in pal'.live /\ leg[l].handle \in pal'.muted
    BY DEF HeardMuted
  <2>2. QED
    BY <2>1 DEF HeardMuted
<1>3. QED
  BY <1>1, <1>2 DEF SoundKept

(* After each kind of step, what is heard on the legs of other use cases is *)
(* what it was;                                                             *)
LEMMA QuietLegs ==
  ASSUME Quiet, NEW l \in Legs
  PROVE  SoundKept(l)
  BY DEF Quiet, HeardGain, HeardMuted, SoundKept

LEMMA FailedLegs ==
  ASSUME PalObeys, Apart, NEW u \in Usecases, FailsToStart(u), NEW l \in Legs
  PROVE  SoundKept(l)
<1>1. pal'.live = pal.live /\ NoStream \notin pal.live
  BY LoopbackConstants
     DEF PalObeys, FailsToStart, Apart, Known, StreamInv, StreamTypes, Sides
<1>2. \A s \in pal.live : /\ pal'.volume[s] = pal.volume[s]
                          /\ s \in pal'.muted <=> s \in pal.muted
  BY DEF FailsToStart
<1>3. leg'[l].handle = leg[l].handle
  BY DEF PalObeys, FailsToStart, Apart, HandlesRun
<1>4. leg[l].handle \in pal'.live <=> leg[l].handle \in pal.live
  BY <1>1
<1>5. leg[l].handle \in pal.live =>
        /\ pal'.volume[leg[l].handle] = pal.volume[leg[l].handle]
        /\ leg[l].handle \in pal'.muted <=> leg[l].handle \in pal.muted
  BY <1>2
<1>6. QED
  BY <1>3, <1>4, <1>5, SameLeg

(* those of a use case that starts are heard as it was told;                *)
LEMMA StartedLegs ==
  ASSUME PalObeys, Apart, NEW u \in Usecases, NEW new \in [LegsOf(u) -> Streams],
         Starts(u, new), NEW l \in Legs
  PROVE  IF UsecaseOf(l) = u
         THEN HeardGain'[l] = Gain(leg[l].volume) /\ l \notin HeardMuted'
         ELSE SoundKept(l)
<1>1. l \in LegsOf(u) <=> UsecaseOf(l) = u
  BY DEF LegsOf, UsecaseOf
<1>2. CASE l \in LegsOf(u)
  <2>1. leg'[l].handle = new[l] /\ new[l] \notin pal'.muted /\ new[l] \in pal'.live
    BY <1>2 DEF Starts
  <2>2. pal'.volume[new[l]] = Gain(leg[l].volume)
    BY <1>2 DEF Starts, PalObeys
  <2>3. QED
    BY <1>1, <1>2, <2>1, <2>2 DEF HeardGain, HeardMuted
<1>3. CASE l \notin LegsOf(u)
  <2>1. leg'[l] = leg[l] /\ leg[l].handle \in pal.live \union {NoStream}
    BY <1>3 DEF Starts, Apart, HandlesLive
  <2>2. NoStream \notin pal.live /\ NoStream \notin pal'.live /\ pal.live \subseteq pal'.live
    <3>1. \A k \in LegsOf(u) : new[k] \in Streams
      BY DEF Starts
    <3>2. pal'.live = pal.live \union {new[k] : k \in LegsOf(u)} /\ pal.live \subseteq Streams
      BY DEF Starts, Apart, Known, StreamInv, StreamTypes, Sides
    <3>3. QED
      BY <3>1, <3>2, LoopbackConstants
  <2>3. \A s \in pal.live : /\ pal'.volume[s] = pal.volume[s]
                            /\ s \in pal'.muted <=> s \in pal.muted
    BY DEF Starts
  <2>4. SoundKept(l)
    <3>1. leg'[l].handle = leg[l].handle
      BY <2>1
    <3>2. leg[l].handle \in pal'.live <=> leg[l].handle \in pal.live
      BY <2>1, <2>2
    <3>3. leg[l].handle \in pal.live =>
            /\ pal'.volume[leg[l].handle] = pal.volume[leg[l].handle]
            /\ leg[l].handle \in pal'.muted <=> leg[l].handle \in pal.muted
      BY <2>3
    <3>4. QED
      BY <3>1, <3>2, <3>3, SameLeg
  <2>5. QED
    BY <1>1, <1>3, <2>4
<1>4. QED
  BY <1>2, <1>3

(* and those of use cases that end are silent.                              *)
LEMMA EndedLegs ==
  ASSUME PalObeys, Apart, NEW us \in SUBSET Usecases, NEW closed \in SUBSET Legs,
         EndsUsecases(us, closed), NEW l \in Legs
  PROVE  IF UsecaseOf(l) \in us THEN Silenced(l)
                                ELSE SoundKept(l)
<1>1. /\ pal'.live = pal.live \ Handles(closed) /\ NoStream \notin pal.live
      /\ pal'.volume = pal.volume /\ pal'.muted = pal.muted
  BY LoopbackConstants DEF EndsUsecases, Apart, Known, StreamInv, StreamTypes, Sides
<1>2. CASE UsecaseOf(l) \in us
  <2>1. running[UsecaseOf(l)] => leg'[l].handle = NoStream
    BY <1>2 DEF EndsUsecases, PalObeys
  <2>2. ~running[UsecaseOf(l)] => leg'[l].handle = NoStream
    BY DEF EndsUsecases, Apart, HandlesRun
  <2>3. QED
    BY <1>1, <1>2, <2>1, <2>2 DEF HeardGain, HeardMuted, Silenced
<1>3. CASE UsecaseOf(l) \notin us
  <2>1. leg'[l] = leg[l] /\ l \notin closed
    BY <1>3 DEF EndsUsecases
  <2>2. leg[l].handle \notin Handles(closed)
    BY <2>1 DEF Handles, Apart, HandlesLive
  <2>3. QED
    BY <1>1, <1>3, <2>1, <2>2, SameLeg
<1>4. QED
  BY <1>2, <1>3

(* The names that the contract and the service share.                       *)
LEMMA CallsNames ==
  /\ Calls!Usecases = Usecases /\ Calls!Legs = Legs
  /\ Calls!DefaultVolume = DefaultVolume
  /\ \A l \in Legs : Calls!Owner(l) = UsecaseOf(l) /\ UsecaseOf(l) \in Usecases
  /\ \A v : Calls!Loudness(v) = Gain(v)
  BY DEF Calls!Usecases, Calls!Legs, Calls!DefaultVolume, DefaultVolume, Calls!Owner,
         UsecaseOf, Calls!Loudness, Gain

CallsSame == Calls!callVars' = Calls!callVars

(* The values of the mapping before and after a step, leg by leg.           *)
LEMMA SoundSame ==
  ASSUME \A l \in Legs : SoundKept(l)
  PROVE  HeardGain' = HeardGain /\ HeardMuted' = HeardMuted
  BY DEF SoundKept, HeardGain, HeardMuted

LEMMA SoundEnds ==
  ASSUME NEW us \in SUBSET Usecases,
         \A l \in Legs : IF UsecaseOf(l) \in us THEN Silenced(l) ELSE SoundKept(l),
         CallRate' = IF "btsco" \in us THEN 0 ELSE CallRate
  PROVE  Calls!Silence(us)
<1>1. HeardGain' = [l \in Legs |-> IF UsecaseOf(l) \in us THEN NoStream ELSE HeardGain[l]]
  BY DEF Silenced, SoundKept, HeardGain
<1>2. HeardMuted' = {l \in HeardMuted : UsecaseOf(l) \notin us}
  BY DEF Silenced, SoundKept, HeardMuted
<1>3. HeardMuted \subseteq Legs
  BY DEF HeardMuted
<1>4. QED
  BY <1>1, <1>2, <1>3, CallsNames DEF Calls!Silence

LEMMA ConnectCalls ==
  ASSUME PalObeys, Apart, ~aborted, NEW c \in Clients, NEW u \in Usecases,
         BtConnect(c, u)
  PROVE  Calls!Connect(u) \/ CallsSame
<1>1. /\ path \in [Usecases -> 0..2] /\ count \in 0..2
      /\ running \in [Usecases -> BOOLEAN] /\ leg \in LegTypes
  BY DEF Apart, Known, SessionInv, SessionTypes, StreamInv, StreamTypes
<1>2. path[u] = 0 /\ ~running[u]
  BY DEF BtConnect, Apart, Known, SessionInv, SessionHasUsecase, RunningExists
<1>3. Quiet \/ EndsUsecases({u}, {})
  BY BtConnectStep DEF Apart, Known
<1>4. \A l \in Legs : SoundKept(l)
  <2>1. SUFFICES ASSUME NEW l \in Legs PROVE SoundKept(l)
    OBVIOUS
  <2>2. CASE Quiet
    BY <2>2, QuietLegs
  <2>3. CASE EndsUsecases({u}, {})
    <3>1. IF UsecaseOf(l) \in {u} THEN Silenced(l) ELSE SoundKept(l)
      BY <2>3, EndedLegs
    <3>2. UsecaseOf(l) = u => HeardGain[l] = NoStream /\ l \notin HeardMuted
      <4>1. UsecaseOf(l) = u => leg[l].handle = NoStream
        BY <1>2 DEF Apart, HandlesRun
      <4>2. NoStream \notin pal.live
        BY LoopbackConstants DEF Apart, Known, StreamInv, StreamTypes, Sides
      <4>3. QED
        BY <4>1, <4>2 DEF HeardGain, HeardMuted
    <3>3. QED
      BY <3>1, <3>2 DEF Silenced, SoundKept
  <2>4. QED
    BY <1>3, <2>2, <2>3
<1>5. HeardGain' = HeardGain /\ HeardMuted' = HeardMuted
  BY <1>4, SoundSame
<1>6. ToldVolume' = ToldVolume
  <2>1. \A l \in Legs : path'[UsecaseOf(l)] = path[UsecaseOf(l)] \/ UsecaseOf(l) = u
    BY <1>1 DEF BtConnect, AddSession, UsecaseOf
  <2>2. \A l \in Legs : UsecaseOf(l) # u => leg'[l] = leg[l]
    BY DEF BtConnect, LegsOf, UsecaseOf
  <2>3. \A l \in Legs : UsecaseOf(l) = u =>
          leg'[l].volume = DefaultVolume \/ path'[u] = 0
    BY <1>2 DEF BtConnect, LegsOf, UsecaseOf, FreshLeg
  <2>4. QED
    BY <1>2, <2>1, <2>2, <2>3 DEF ToldVolume
<1>7. ToldRate' = ToldRate
  BY <1>1, <1>2 DEF BtConnect, AddSession, ToldRate
<1>8. Session' = Session \/ Session' = [Session EXCEPT ![u] = "idle"]
  <2>1. CASE path' = path
    <3>1. \A v \in Usecases : path[v] # 0 => running'[v] = running[v]
      BY <1>1, <1>2 DEF BtConnect
    <3>2. QED
      BY <2>1, <3>1 DEF Session
  <2>2. CASE path' = [path EXCEPT ![u] = count + 1]
                /\ running' = [running EXCEPT ![u] = FALSE]
    <3>1. count + 1 # 0
      BY <1>1
    <3>2. \A v \in Usecases : Session'[v] = IF v = u THEN "idle" ELSE Session[v]
      BY <1>1, <2>2, <3>1 DEF Session
    <3>3. QED
      BY <3>2 DEF Session
  <2>3. QED
    BY <2>1, <2>2 DEF BtConnect, AddSession
<1>9. CallRate' = CallRate
  <2>1. Session'["btsco"] = "playing" <=> Session["btsco"] = "playing"
    BY <1>1, <1>2, <1>8 DEF Session
  <2>2. Session["btsco"] = "playing" => u # "btsco"
    BY <1>2 DEF Session
  <2>3. u # "btsco" => pal'.rate = pal.rate
    BY <1>3 DEF Quiet, EndsUsecases
  <2>4. QED
    BY <2>1, <2>2, <2>3 DEF CallRate
<1>10. Session[u] = "none"
  BY <1>2 DEF Session
<1>11. QED
  BY <1>5, <1>6, <1>7, <1>8, <1>9, <1>10
     DEF CallsSame, Calls!callVars, Calls!Connect

LEMMA StartCalls ==
  ASSUME PalObeys, Apart, NEW u \in Usecases, CreateLoopback(u)
  PROVE  Calls!Start(u) \/ CallsSame
<1>1. /\ path[u] # 0 /\ ~running[u] /\ path' = path /\ rate' = rate
      /\ running \in [Usecases -> BOOLEAN]
  BY DEF CreateLoopback, Called, Apart, Known, StreamInv, StreamTypes
<1>2. ToldRate' = ToldRate
  BY <1>1 DEF ToldRate
<1>3. CASE FailsToStart(u)
  <2>1. HeardGain' = HeardGain /\ HeardMuted' = HeardMuted
    BY <1>3, FailedLegs, SoundSame
  <2>2. ToldVolume' = ToldVolume
    BY <1>1, <1>3 DEF ToldVolume, FailsToStart
  <2>3. Session' = Session /\ CallRate' = CallRate
    BY <1>1, <1>3 DEF Session, CallRate, FailsToStart
  <2>4. QED
    BY <1>2, <2>1, <2>2, <2>3 DEF CallsSame, Calls!callVars
<1>4. ASSUME NEW new \in [LegsOf(u) -> Streams], Starts(u, new)
      PROVE  Calls!Start(u)
  <2>1. \A l \in Legs : ToldVolume[l] = leg[l].volume \/ UsecaseOf(l) # u
    BY <1>1 DEF ToldVolume
  <2>2. ASSUME NEW l \in Legs
        PROVE  /\ HeardGain'[l] = IF UsecaseOf(l) = u THEN Gain(ToldVolume[l])
                                  ELSE HeardGain[l]
               /\ l \in HeardMuted' <=> l \in HeardMuted
    <3>1. IF UsecaseOf(l) = u THEN HeardGain'[l] = Gain(leg[l].volume) /\ l \notin HeardMuted'
                              ELSE SoundKept(l)
      BY <1>4, StartedLegs
    <3>2. UsecaseOf(l) = u => l \notin HeardMuted
      <4>1. UsecaseOf(l) = u => leg[l].handle = NoStream
        BY <1>1 DEF Apart, HandlesRun
      <4>2. NoStream \notin pal.live
        BY LoopbackConstants DEF Apart, Known, StreamInv, StreamTypes, Sides
      <4>3. QED
        BY <4>1, <4>2 DEF HeardMuted
    <3>3. QED
      BY <2>1, <3>1, <3>2 DEF SoundKept
  <2>3. HeardGain' = [l \in Legs |-> IF UsecaseOf(l) = u THEN Gain(ToldVolume[l])
                                     ELSE HeardGain[l]]
    BY <2>2 DEF HeardGain
  <2>4. HeardMuted' = HeardMuted
    BY <2>2 DEF HeardMuted
  <2>5. ToldVolume' = ToldVolume
    <3>1. \A l \in Legs : leg'[l].volume = leg[l].volume
      BY <1>4 DEF Starts
    <3>2. QED
      BY <1>1, <3>1 DEF ToldVolume
  <2>6. Session' = [Session EXCEPT ![u] = "playing"] /\ Session[u] = "idle"
    <3>1. \A v \in Usecases : running'[v] <=> (running[v] \/ v = u)
      BY <1>4 DEF Starts
    <3>2. \A v \in Usecases : Session'[v] = IF v = u THEN "playing" ELSE Session[v]
      BY <1>1, <3>1 DEF Session
    <3>3. Session[u] = "idle"
      BY <1>1 DEF Session
    <3>4. QED
      BY <3>2, <3>3 DEF Session
  <2>7. CallRate' = IF u = "btsco" THEN ToldRate ELSE CallRate
    <3>1. pal'.rate = IF u = "btsco" THEN rate ELSE pal.rate
      BY <1>4 DEF Starts
    <3>2. Session'["btsco"] = IF u = "btsco" THEN "playing" ELSE Session["btsco"]
      BY <2>6 DEF Session
    <3>3. u = "btsco" => ToldRate = rate
      BY <1>1 DEF ToldRate
    <3>4. QED
      BY <3>1, <3>2, <3>3 DEF CallRate
  <2>8. QED
    BY <1>2, <2>3, <2>4, <2>5, <2>6, <2>7, CallsNames DEF Calls!Start
<1>5. QED
  BY <1>3, <1>4, CreateStep DEF Apart, Known

(* The sessions of us are not playing any more.                             *)
LEMMA CallEnds ==
  ASSUME NEW us \in SUBSET Usecases, NEW closed, EndsUsecases(us, closed),
         \A u \in Usecases : Session'[u] = "playing" <=> (Session[u] = "playing" /\ u \notin us)
  PROVE  CallRate' = IF "btsco" \in us THEN 0 ELSE CallRate
  BY DEF CallRate, EndsUsecases

LEMMA StopCalls ==
  ASSUME PalObeys, Apart, NEW u \in Usecases, DestroyLoopback(u)
  PROVE  Calls!Stop(u)
<1>1. /\ path[u] # 0 /\ running[u] /\ path' = path /\ rate' = rate
      /\ running' = [running EXCEPT ![u] = FALSE]
      /\ running \in [Usecases -> BOOLEAN] /\ leg \in LegTypes
  BY DEF DestroyLoopback, Called, Apart, Known, StreamInv, StreamTypes
<1>2. PICK closed \in SUBSET Legs : EndsUsecases({u}, closed)
  BY DestroyStep DEF Apart, Known
<1>3. Session' = [Session EXCEPT ![u] = "idle"] /\ Session[u] = "playing"
  <2>1. \A v \in Usecases : Session'[v] = IF v = u THEN "idle" ELSE Session[v]
    BY <1>1 DEF Session
  <2>2. Session[u] = "playing"
    BY <1>1 DEF Session
  <2>3. QED
    BY <2>1, <2>2 DEF Session
<1>4. ToldVolume' = ToldVolume /\ ToldRate' = ToldRate
  <2>1. \A l \in Legs : leg'[l].volume = leg[l].volume
    BY <1>1 DEF DestroyLoopback, Closed, LegTypes
  <2>2. QED
    BY <1>1, <2>1 DEF ToldVolume, ToldRate
<1>5. CallRate' = IF "btsco" \in {u} THEN 0 ELSE CallRate
  <2>1. \A v \in Usecases :
          Session'[v] = "playing" <=> (Session[v] = "playing" /\ v \notin {u})
    BY <1>3 DEF Session
  <2>2. QED
    BY <1>2, <2>1, CallEnds
<1>6. \A l \in Legs : IF UsecaseOf(l) \in {u} THEN Silenced(l) ELSE SoundKept(l)
  BY <1>2, EndedLegs
<1>7. Calls!Silence({u})
  BY <1>5, <1>6, SoundEnds
<1>8. QED
  BY <1>3, <1>4, <1>7 DEF Calls!Stop

(* Sessions end when their use cases do.                                    *)
LEMMA EndCalls ==
  ASSUME PalObeys, Apart, NEW us \in SUBSET Usecases, EndSessions(us),
         NEW closed \in SUBSET Legs, EndsUsecases(us, closed)
  PROVE  Calls!End(us)
<1>1. Session' = [u \in Usecases |-> IF u \in us THEN "none" ELSE Session[u]]
  BY DEF EndSessions, Session
<1>2. ToldVolume' = [l \in Legs |-> IF UsecaseOf(l) \in us THEN DefaultVolume
                                    ELSE ToldVolume[l]]
  BY CallsNames DEF EndSessions, ToldVolume
<1>3. ToldRate' = IF "btsco" \in us THEN PortRate ELSE ToldRate
  BY DEF EndSessions, ToldRate
<1>4. CallRate' = IF "btsco" \in us THEN 0 ELSE CallRate
  <2>1. \A u \in Usecases :
          Session'[u] = "playing" <=> (Session[u] = "playing" /\ u \notin us)
    BY <1>1
  <2>2. QED
    BY <2>1, CallEnds
<1>5. \A l \in Legs : IF UsecaseOf(l) \in us THEN Silenced(l) ELSE SoundKept(l)
  BY EndedLegs
<1>6. Calls!Silence(us)
  BY <1>4, <1>5, SoundEnds
<1>7. QED
  BY <1>1, <1>2, <1>3, <1>6, CallsNames DEF Calls!End

LEMMA VolumeCalls ==
  ASSUME Apart, NEW l \in Legs, NEW v \in Volumes, SetVolume(l, v), "volume" \notin Failures
  PROVE  Calls!SetVolume(l, v)
<1>1. /\ path[UsecaseOf(l)] # 0 /\ path' = path /\ rate' = rate /\ running' = running
      /\ leg' = [leg EXCEPT ![l].volume = v] /\ leg \in LegTypes /\ pal \in Sides
  BY DEF SetVolume, Called, Apart, Known, StreamInv, StreamTypes
<1>2. \A k \in Legs : /\ leg'[k].handle = leg[k].handle
                      /\ leg'[k].volume = IF k = l THEN v ELSE leg[k].volume
  BY <1>1 DEF LegTypes
<1>3. /\ pal'.live = pal.live /\ pal'.muted = pal.muted /\ pal'.rate = pal.rate
      /\ \A s \in Streams : pal'.volume[s] =
           IF s = leg[l].handle /\ s \in pal.live THEN Gain(v) ELSE pal.volume[s]
  BY <1>1 DEF SetVolume, MayFail, Sides
<1>4. ToldVolume' = [ToldVolume EXCEPT ![l] = v]
  <2>1. \A k \in Legs : ToldVolume'[k] = IF k = l THEN v ELSE ToldVolume[k]
    BY <1>1, <1>2 DEF ToldVolume
  <2>2. QED
    BY <2>1 DEF ToldVolume
<1>5. HeardMuted' = HeardMuted
  BY <1>2, <1>3 DEF HeardMuted
<1>6. HeardGain' = [HeardGain EXCEPT ![l] = IF Session[UsecaseOf(l)] = "playing" THEN Gain(v)
                                           ELSE NoStream]
  <2>1. pal.live \subseteq Streams /\ NoStream \notin pal.live
    BY <1>1, LoopbackConstants DEF Sides
  <2>2. ASSUME NEW k \in Legs \ {l}
        PROVE  HeardGain'[k] = HeardGain[k]
    <3>1. leg[k].handle \in pal.live => leg[k].handle # leg[l].handle
      BY <2>1 DEF Apart, HandlesLive
    <3>2. leg[k].handle \in pal.live => pal'.volume[leg[k].handle] = pal.volume[leg[k].handle]
      BY <1>3, <2>1, <3>1
    <3>3. HeardGain'[k] = IF leg[k].handle \in pal.live THEN pal'.volume[leg[k].handle]
                          ELSE NoStream
      BY <1>2, <1>3 DEF HeardGain
    <3>4. QED
      BY <3>2, <3>3 DEF HeardGain
  <2>3. HeardGain'[l] = IF leg[l].handle \in pal.live THEN Gain(v) ELSE NoStream
    BY <1>2, <1>3, <2>1 DEF HeardGain
  <2>4. Session[UsecaseOf(l)] = "playing" <=> leg[l].handle \in pal.live
    <3>1. running[UsecaseOf(l)] => leg[l].handle \in pal.live
      BY DEF Apart, Known, StreamInv, RunningOwnsStreams
    <3>2. ~running[UsecaseOf(l)] => leg[l].handle \notin pal.live
      BY <2>1 DEF Apart, HandlesRun
    <3>3. QED
      BY <1>1, <3>1, <3>2, CallsNames DEF Session
  <2>5. \A k \in Legs : HeardGain'[k] =
            IF k = l THEN IF Session[UsecaseOf(l)] = "playing" THEN Gain(v) ELSE NoStream
            ELSE HeardGain[k]
    BY <2>2, <2>3, <2>4
  <2>6. QED
    BY <2>5 DEF HeardGain
<1>7. Session' = Session /\ ToldRate' = ToldRate /\ CallRate' = CallRate
  BY <1>1, <1>3 DEF Session, ToldRate, CallRate
<1>8. Session[UsecaseOf(l)] # "none"
  BY <1>1, CallsNames DEF Session
<1>9. QED
  BY <1>4, <1>5, <1>6, <1>7, <1>8, CallsNames DEF Calls!SetVolume

LEMMA MuteCalls ==
  ASSUME Apart, NEW l \in Legs, NEW m \in BOOLEAN, SetMute(l, m)
  PROVE  Calls!SetMute(l, m) \/ CallsSame
<1>1. /\ path[UsecaseOf(l)] # 0 /\ path' = path /\ rate' = rate /\ running' = running
      /\ leg \in LegTypes /\ pal \in Sides
  BY DEF SetMute, Called, Apart, Known, StreamInv, StreamTypes
<1>2. \A k \in Legs : leg'[k].handle = leg[k].handle /\ leg'[k].volume = leg[k].volume
  BY <1>1 DEF SetMute, MuteCached, LegTypes
<1>3. pal'.live = pal.live /\ pal'.volume = pal.volume /\ pal'.rate = pal.rate
  BY <1>1 DEF SetMute, Sides
<1>4. /\ Session' = Session /\ ToldVolume' = ToldVolume /\ HeardGain' = HeardGain
      /\ ToldRate' = ToldRate /\ CallRate' = CallRate
  BY <1>1, <1>2, <1>3 DEF Session, ToldVolume, HeardGain, ToldRate, CallRate
<1>5. CASE pal' = pal
  <2>1. HeardMuted' = HeardMuted
    BY <1>2, <1>5 DEF HeardMuted
  <2>2. QED
    BY <1>4, <2>1 DEF CallsSame, Calls!callVars
<1>6. CASE /\ leg[l].handle \in pal.live
           /\ pal'.muted = IF m THEN pal.muted \union {leg[l].handle}
                                 ELSE pal.muted \ {leg[l].handle}
  <2>1. Session[UsecaseOf(l)] = "playing"
    <3>1. running[UsecaseOf(l)]
      BY <1>1, <1>6, LoopbackConstants DEF Apart, HandlesRun, Sides
    <3>2. QED
      BY <1>1, <3>1, CallsNames DEF Session
  <2>2. \A k \in Legs \ {l} : leg[k].handle # leg[l].handle
    BY <1>1, <1>6, LoopbackConstants DEF Apart, HandlesLive, Sides
  <2>3. \A k \in Legs : k \in HeardMuted' <=> IF k = l THEN m ELSE k \in HeardMuted
    BY <1>2, <1>3, <1>6, <2>2 DEF HeardMuted
  <2>4. HeardMuted' = IF m THEN HeardMuted \union {l} ELSE HeardMuted \ {l}
    BY <2>3 DEF HeardMuted
  <2>5. QED
    BY <1>4, <2>1, <2>4, CallsNames DEF Calls!SetMute
<1>7. QED
  BY <1>1, <1>5, <1>6 DEF SetMute, Sides

LEMMA RateCalls ==
  ASSUME NEW r \in Rates, SetSampleRate(r)
  PROVE  Calls!SetRate(r)
<1>1. Session["btsco"] # "none" /\ ToldRate' = r
  BY DEF SetSampleRate, Called, Session, ToldRate
<1>2. /\ Session' = Session /\ ToldVolume' = ToldVolume /\ HeardGain' = HeardGain
      /\ HeardMuted' = HeardMuted /\ CallRate' = CallRate
  BY DEF SetSampleRate, Session, ToldVolume, HeardGain, HeardMuted, CallRate
<1>3. QED
  BY <1>1, <1>2 DEF Calls!SetRate

LEMMA ReloadCalls ==
  ASSUME Reload
  PROVE  Calls!End(Usecases)
<1>1. Session' = [u \in Usecases |-> "none"]
  BY DEF Reload, Session
<1>2. ToldVolume' = [l \in Legs |-> DefaultVolume]
  BY CallsNames DEF Reload, ToldVolume
<1>3. ToldRate' = PortRate /\ CallRate' = 0
  BY <1>1 DEF Reload, ToldRate, CallRate
<1>4. HeardGain' = [l \in Legs |-> NoStream] /\ HeardMuted' = {}
  BY DEF Reload, SilentPal, FreshLeg, HeardGain, HeardMuted
<1>5. HeardMuted \subseteq Legs
  BY DEF HeardMuted
<1>6. QED
  BY <1>1, <1>2, <1>3, <1>4, <1>5, CallsNames DEF Calls!End, Calls!Silence

(* Each step of the service is a step of the contract, or none.             *)
LEMMA StepCalls ==
  ASSUME PalObeys, Apart, [Next]_vars
  PROVE  [Calls!Next]_(Calls!callVars)
<1>1. Calls!Usecases = Usecases /\ Calls!Legs = Legs
  BY CallsNames
<1>2. CASE UNCHANGED vars
  <2>1. CallsSame
    BY <1>2 DEF vars, CallsSame, Calls!callVars, Session, ToldVolume, ToldRate,
                HeardGain, HeardMuted, CallRate
  <2>2. QED
    BY <2>1 DEF CallsSame
<1>3. ASSUME ~aborted, NEW c \in Clients, NEW u \in Usecases, BtConnect(c, u)
      PROVE  [Calls!Next]_(Calls!callVars)
  BY <1>1, <1>3, ConnectCalls DEF CallsSame, Calls!Next
<1>4. ASSUME NEW u \in Usecases, CreateLoopback(u)
      PROVE  [Calls!Next]_(Calls!callVars)
  BY <1>1, <1>4, StartCalls DEF CallsSame, Calls!Next
<1>5. ASSUME NEW u \in Usecases, DestroyLoopback(u)
      PROVE  Calls!Next
  BY <1>1, <1>5, StopCalls DEF Calls!Next
<1>6. ASSUME NEW c \in Clients, NEW u \in Usecases, BtDisconnect(c, u)
      PROVE  Calls!Next
  <2>1. PICK closed \in SUBSET Legs : EndsUsecases({u}, closed)
    BY <1>6, BtDisconnectStep DEF Apart, Known
  <2>2. EndSessions({u}) /\ path[u] # 0
    BY <1>6 DEF BtDisconnect
  <2>3. Calls!End({u}) /\ Session[u] # "none"
    BY <2>1, <2>2, EndCalls DEF Session
  <2>4. QED
    BY <1>1, <2>3 DEF Calls!Next
<1>7. ASSUME NEW c \in Clients, Disconnected(c)
      PROVE  [Calls!Next]_(Calls!callVars)
  <2>1. CASE filters[c] > 0
    <3>1. PICK closed \in SUBSET Legs : EndsUsecases(Usecases, closed)
      BY <1>7, <2>1, DisconnectedStep DEF Apart, Known
    <3>2. EndSessions(Usecases)
      BY <1>7, <2>1 DEF Disconnected
    <3>3. Calls!End(Usecases)
      BY <3>1, <3>2, EndCalls
    <3>4. QED
      BY <1>1, <3>3 DEF Calls!Next
  <2>2. CASE ~(filters[c] > 0)
    <3>1. UNCHANGED <<path, running, leg, rate, pal>>
      BY <1>7, <2>2 DEF Disconnected
    <3>2. CallsSame
      BY <3>1 DEF CallsSame, Calls!callVars, Session, ToldVolume, ToldRate, HeardGain,
                  HeardMuted, CallRate
    <3>3. QED
      BY <3>2 DEF CallsSame
  <2>3. QED
    BY <2>1, <2>2
<1>8. ASSUME NEW l \in Legs, NEW v \in Volumes, SetVolume(l, v)
      PROVE  Calls!Next
  BY <1>1, <1>8, VolumeCalls DEF PalObeys, Calls!Next
<1>9. ASSUME NEW l \in Legs, NEW m \in BOOLEAN, SetMute(l, m)
      PROVE  [Calls!Next]_(Calls!callVars)
  BY <1>1, <1>9, MuteCalls DEF CallsSame, Calls!Next
<1>10. ASSUME NEW r \in Rates, SetSampleRate(r)
       PROVE  Calls!Next
  BY <1>10, RateCalls DEF Calls!Next
<1>11. CASE Reload
  BY <1>1, <1>11, ReloadCalls DEF Calls!Next
<1>12. ASSUME UNCHANGED <<path, running, leg, rate, pal>>
       PROVE  [Calls!Next]_(Calls!callVars)
  <2>1. CallsSame
    BY <1>12 DEF CallsSame, Calls!callVars, Session, ToldVolume, ToldRate, HeardGain,
                 HeardMuted, CallRate
  <2>2. QED
    BY <2>1 DEF CallsSame
<1>13. QED
  BY <1>2, <1>3, <1>4, <1>5, <1>6, <1>7, <1>8, <1>9, <1>10, <1>11, <1>12
     DEF Next, Handler, Reconnect, ReachLeft

(* The service implements LoopbackCalls where PAL obeys: the calls of a     *)
(* session change what is heard on its own legs only, and a leg is heard as *)
(* its session was told.  HandlesRun is why a call for one use case never   *)
(* reaches the other's stream by a handle left behind, and HandlesLive why  *)
(* what one closes is not the other's.                                      *)
THEOREM UsecasesDoNotInterfere ==
  ASSUME PalObeys
  PROVE  Spec => UsecasesKeepApart
<1>1. Init => Calls!Init
  BY CallsNames DEF Init, Calls!Init, Session, ToldVolume, ToldRate, HeardGain,
     HeardMuted, CallRate, SilentPal, FreshLeg
<1>2. Apart /\ [Next]_vars => [Calls!Next]_(Calls!callVars)
  BY StepCalls
<1>3. QED
  BY <1>1, <1>2, ApartInvariant, PTL DEF Spec, UsecasesKeepApart, Calls!Spec

=============================================================================
