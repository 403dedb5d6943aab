--------------------------- MODULE LoopbackProofs ---------------------------
(***************************************************************************)
(* Theorems about Loopback, for every set of connections, streams, volumes  *)
(* and PAL failures.                                                        *)
(***************************************************************************)
EXTENDS Loopback, FiniteSetTheorems, TLAPS

USE DEF Usecases, Legs, Rates

SessionVars == <<path, count, filters, clients, exists, aborted>>

(* What TypeOK says of the sessions and of the streams.                     *)
SessionTypes ==
  /\ path \in [Usecases -> 0..2] /\ count \in 0..2
  /\ filters \in [Clients -> Nat] /\ clients \subseteq Clients
  /\ exists \in [Usecases -> BOOLEAN] /\ aborted \in BOOLEAN

LegTypes ==
  [Legs -> [handle : Streams \union {NoStream},
            volume : Volumes \union {DefaultVolume}, mute : BOOLEAN]]

StreamTypes ==
  /\ running \in [Usecases -> BOOLEAN]
  /\ leg \in LegTypes /\ rate \in Rates /\ pal \in Sides /\ stale \in BOOLEAN

Number(p) == (IF p["bta2dp"] # 0 THEN 1 ELSE 0) + (IF p["btsco"] # 0 THEN 1 ELSE 0)

SessionInv ==
  /\ SessionTypes
  /\ SessionHasUsecase /\ CountIsSessions /\ SessionsWatched /\ WatchedOnce

-----------------------------------------------------------------------------
LEMMA TwoUsecases == Cardinality(Usecases) = 2
<1>1. IsFiniteSet({"bta2dp"}) /\ Cardinality({"bta2dp"}) = 1
  BY FS_Singleton
<1>2. Cardinality({"bta2dp"} \union {"btsco"}) = 2
  BY <1>1, FS_AddElement
<1>3. Usecases = {"bta2dp"} \union {"btsco"}
  OBVIOUS
<1>4. QED
  BY <1>2, <1>3

LEMMA SessionNumber ==
  ASSUME path \in [Usecases -> Nat]
  PROVE  Cardinality(Sessions) = Number(path)
<1>1. Cardinality({}) = 0 /\ IsFiniteSet({})
  BY FS_EmptySet
<1>2. Cardinality({"bta2dp"}) = 1 /\ Cardinality({"btsco"}) = 1
  BY FS_Singleton
<1>3. CASE path["bta2dp"] # 0 /\ path["btsco"] # 0
  <2>1. Sessions = Usecases
    BY <1>3 DEF Sessions
  <2>2. QED
    BY <2>1, <1>3, TwoUsecases DEF Number
<1>4. CASE path["bta2dp"] = 0 /\ path["btsco"] # 0
  <2>1. Sessions = {"btsco"}
    BY <1>4 DEF Sessions
  <2>2. QED
    BY <2>1, <1>2, <1>4 DEF Number
<1>5. CASE path["bta2dp"] # 0 /\ path["btsco"] = 0
  <2>1. Sessions = {"bta2dp"}
    BY <1>5 DEF Sessions
  <2>2. QED
    BY <2>1, <1>2, <1>5 DEF Number
<1>6. CASE path["bta2dp"] = 0 /\ path["btsco"] = 0
  <2>1. Sessions = {}
    BY <1>6 DEF Sessions
  <2>2. QED
    BY <2>1, <1>1, <1>6 DEF Number
<1>7. QED
  BY <1>3, <1>4, <1>5, <1>6

LEMMA InitSessionInv == Init => SessionInv
<1> SUFFICES ASSUME Init
             PROVE  SessionInv
  OBVIOUS
<1>1. SessionTypes
  <2>1. path \in [Usecases -> 0..2] /\ count \in 0..2
    BY DEF Init
  <2>2. filters \in [Clients -> Nat] /\ clients \subseteq Clients
    BY DEF Init
  <2>3. exists \in [Usecases -> BOOLEAN]
    BY DEF Init
  <2>4. aborted \in BOOLEAN
    BY DEF Init
  <2>5. QED
    BY <2>1, <2>2, <2>3, <2>4 DEF SessionTypes
<1>2. SessionHasUsecase
  BY DEF Init, SessionHasUsecase
<1>3. CountIsSessions
  BY DEF Init, CountIsSessions
<1>4. SessionsWatched
  BY DEF Init, SessionsWatched
<1>5. WatchedOnce
  BY DEF Init, WatchedOnce
<1>6. QED
  BY <1>1, <1>2, <1>3, <1>4, <1>5 DEF SessionInv

(* A handler that touches no session keeps the sessions' invariant.         *)
LEMMA SameSessions == SessionInv /\ UNCHANGED SessionVars => SessionInv'
<1> SUFFICES ASSUME SessionInv, UNCHANGED SessionVars
             PROVE  SessionInv'
  OBVIOUS
<1>1. SessionTypes'
  BY DEF SessionInv, SessionTypes, SessionVars
<1>2. SessionHasUsecase'
  BY DEF SessionInv, SessionHasUsecase, SessionVars
<1>3. CountIsSessions'
  BY DEF SessionInv, CountIsSessions, SessionVars
<1>4. SessionsWatched'
  BY DEF SessionInv, SessionsWatched, SessionVars
<1>5. WatchedOnce'
  BY DEF SessionInv, WatchedOnce, SessionVars
<1>6. QED
  BY <1>1, <1>2, <1>3, <1>4, <1>5 DEF SessionInv

LEMMA ConnectSessionInv ==
  ASSUME SessionInv, ~aborted, NEW c \in Clients, NEW u \in Usecases, BtConnect(c, u)
  PROVE  SessionInv'
<1>1. CASE UNCHANGED <<exists, path, count, filters, aborted>>
  BY <1>1, SameSessions DEF BtConnect, SessionVars
<1>2. CASE /\ exists' = [exists EXCEPT ![u] = TRUE]
           /\ AddSession(u, c)
  <2>1. /\ count \in {0, 1} /\ count' = count + 1 /\ path[u] = 0 /\ c \in clients
        /\ clients' = clients
    BY <1>2 DEF BtConnect, AddSession, SessionInv, SessionTypes, CountIsSessions
  <2>2. SessionTypes'
    <3>1. path' \in [Usecases -> 0..2] /\ aborted' \in BOOLEAN
      <4>1. count + 1 \in 0..2
        BY <2>1
      <4>2. CASE count + 1 \in Registered \union leftover.paths
        BY <1>2, <4>2 DEF AddSession, SessionInv, SessionTypes
      <4>3. CASE count + 1 \notin Registered \union leftover.paths
        BY <1>2, <4>1, <4>3 DEF AddSession, SessionInv, SessionTypes
      <4>4. QED
        BY <4>2, <4>3
    <3>2. filters' \in [Clients -> Nat]
      BY <1>2, <2>1 DEF AddSession, SessionInv, SessionTypes
    <3>3. exists' \in [Usecases -> BOOLEAN]
      BY <1>2 DEF SessionInv, SessionTypes
    <3>4. count' \in 0..2 /\ clients' \subseteq Clients
      BY <2>1 DEF SessionInv, SessionTypes
    <3>5. QED
      BY <3>1, <3>2, <3>3, <3>4 DEF SessionTypes
  <2>3. SessionHasUsecase'
    BY <1>2, <2>1 DEF AddSession, SessionInv, SessionTypes, SessionHasUsecase
  <2>4. CountIsSessions'
    BY <1>2, <2>1 DEF AddSession, SessionInv, SessionTypes, CountIsSessions
  <2>5. SessionsWatched'
    BY <1>2, <2>1 DEF AddSession, SessionInv, SessionTypes, SessionsWatched
  <2>6. WatchedOnce'
    <3>1. CASE count = 0
      BY <1>2, <2>1, <3>1 DEF AddSession, SessionInv, SessionTypes, WatchedOnce
    <3>2. CASE count # 0
      BY <1>2, <2>1, <3>2 DEF AddSession, SessionInv, SessionTypes, WatchedOnce
    <3>3. QED
      BY <3>1, <3>2
  <2>7. QED
    BY <2>2, <2>3, <2>4, <2>5, <2>6 DEF SessionInv
<1>3. QED
  BY <1>1, <1>2 DEF BtConnect

LEMMA DisconnectSessionInv ==
  ASSUME SessionInv, ~aborted, NEW c \in Clients, NEW u \in Usecases,
         BtDisconnect(c, u)
  PROVE  SessionInv'
<1>1. /\ count \in {1, 2} /\ count' = count - 1 /\ path[u] # 0 /\ clients' = clients
      /\ path' = [v \in Usecases |-> IF v \in {u} THEN 0 ELSE path[v]]
      /\ exists' = [v \in Usecases |-> exists[v] /\ v \notin {u}]
  BY DEF BtDisconnect, EndSessions, DropSession, SessionInv, SessionTypes,
         CountIsSessions
<1>2. SessionTypes'
  <2>1. path' \in [Usecases -> 0..2] /\ exists' \in [Usecases -> BOOLEAN]
    BY <1>1 DEF SessionInv, SessionTypes
  <2>2. filters' \in [Clients -> Nat]
    BY DEF BtDisconnect, DropSession, RemoveFilter, SessionInv, SessionTypes
  <2>3. aborted' \in BOOLEAN
    BY LoopbackConstants
       DEF BtDisconnect, DropSession, RemoveFilter, SessionInv, SessionTypes
  <2>4. count' \in 0..2 /\ clients' \subseteq Clients
    BY <1>1 DEF SessionInv, SessionTypes
  <2>5. QED
    BY <2>1, <2>2, <2>3, <2>4 DEF SessionTypes
<1>3. SessionHasUsecase'
  BY <1>1 DEF BtDisconnect, SessionInv, SessionTypes, SessionHasUsecase
<1>4. CountIsSessions'
  BY <1>1 DEF BtDisconnect, SessionInv, SessionTypes, CountIsSessions
<1>5. SessionsWatched'
  BY <1>1 DEF BtDisconnect, DropSession, RemoveFilter, SessionInv, SessionTypes,
              SessionsWatched
<1>6. WatchedOnce'
  <2>1. CASE count = 1 /\ filters[c] > 0
    BY <1>1, <2>1 DEF BtDisconnect, DropSession, RemoveFilter, SessionInv,
                      SessionTypes, WatchedOnce
  <2>2. CASE count = 1 /\ ~(filters[c] > 0)
    BY <1>1, <2>2 DEF BtDisconnect, DropSession, RemoveFilter, WatchedOnce
  <2>3. CASE count # 1
    BY <1>1, <2>3 DEF BtDisconnect, DropSession, SessionInv, SessionTypes,
                      WatchedOnce
  <2>4. QED
    BY <2>1, <2>2, <2>3
<1>7. QED
  BY <1>2, <1>3, <1>4, <1>5, <1>6 DEF SessionInv

LEMMA DisconnectedSessionInv ==
  ASSUME SessionInv, ~aborted, NEW c \in Clients, Disconnected(c)
  PROVE  SessionInv'
<1>1. /\ clients' = clients \ {c} /\ filters' = [filters EXCEPT ![c] = 0]
      /\ aborted' = aborted
  BY DEF Disconnected
<1>2. CASE filters[c] > 0
  <2>1. /\ path' = [v \in Usecases |-> 0] /\ exists' = [v \in Usecases |-> FALSE]
        /\ count' = count - Cardinality(Sessions)
    BY <1>2 DEF Disconnected, EndSessions, SessionInv, SessionTypes
  <2>2. count' = 0
    BY <2>1, SessionNumber DEF SessionInv, SessionTypes, CountIsSessions, Number
  <2>3. WatchedOnce'
    BY <1>1, <1>2 DEF SessionInv, SessionTypes, WatchedOnce
  <2>4. QED
    BY <1>1, <2>1, <2>2, <2>3 DEF SessionInv, SessionTypes, SessionHasUsecase,
                                  CountIsSessions, SessionsWatched
<1>3. CASE ~(filters[c] > 0)
  <2>1. UNCHANGED <<path, exists, count>>
    BY <1>3 DEF Disconnected
  <2>2. SessionsWatched'
    BY <1>1, <1>3, <2>1 DEF SessionInv, SessionTypes, SessionsWatched
  <2>3. WatchedOnce'
    BY <1>1, <1>3, <2>1 DEF SessionInv, SessionTypes, WatchedOnce
  <2>4. QED
    BY <1>1, <2>1, <2>2, <2>3 DEF SessionInv, SessionTypes, SessionHasUsecase,
                                  CountIsSessions
<1>4. QED
  BY <1>2, <1>3

LEMMA ReconnectSessionInv ==
  ASSUME SessionInv, ~aborted, NEW c \in Clients, Reconnect(c)
  PROVE  SessionInv'
<1>1. /\ clients' = clients \union {c}
      /\ UNCHANGED <<path, count, filters, exists, aborted>>
  BY DEF Reconnect
<1>2. QED
  BY <1>1 DEF SessionInv, SessionTypes, SessionHasUsecase, CountIsSessions,
              SessionsWatched, WatchedOnce

(* What an unload leaves is out of the sessions' reach: they start anew.    *)
LEMMA ReloadSessionInv ==
  ASSUME SessionInv, Reload
  PROVE  SessionInv'
<1>1. /\ path' = [u \in Usecases |-> 0] /\ exists' = [u \in Usecases |-> FALSE]
      /\ count' = 0 /\ filters' = [c \in Clients |-> 0]
      /\ UNCHANGED <<clients, aborted>>
  BY DEF Reload
<1>2. QED
  BY <1>1 DEF SessionInv, SessionTypes, SessionHasUsecase, CountIsSessions,
              SessionsWatched, WatchedOnce

LEMMA ReachLeftSessionInv ==
  ASSUME SessionInv, ReachLeft
  PROVE  SessionInv'
  BY DEF ReachLeft, SessionInv, SessionTypes, SessionHasUsecase, CountIsSessions,
         SessionsWatched, WatchedOnce

LEMMA NextSessionInv == SessionInv /\ [Next]_vars => SessionInv'
<1> SUFFICES ASSUME SessionInv, [Next]_vars
             PROVE  SessionInv'
  OBVIOUS
<1>1. CASE UNCHANGED vars
  BY <1>1, SameSessions DEF vars, SessionVars
<1>2. ASSUME ~aborted, NEW c \in Clients, NEW u \in Usecases, BtConnect(c, u)
      PROVE  SessionInv'
  BY <1>2, ConnectSessionInv
<1>3. ASSUME ~aborted, NEW c \in Clients, NEW u \in Usecases, BtDisconnect(c, u)
      PROVE  SessionInv'
  BY <1>3, DisconnectSessionInv
<1>4. ASSUME ~aborted, NEW c \in Clients, Disconnected(c)
      PROVE  SessionInv'
  BY <1>4, DisconnectedSessionInv
<1>5. ASSUME ~aborted, NEW c \in Clients, Reconnect(c)
      PROVE  SessionInv'
  BY <1>5, ReconnectSessionInv
<1>6. ASSUME NEW u \in Usecases, CreateLoopback(u) \/ DestroyLoopback(u)
      PROVE  SessionInv'
  BY <1>6, SameSessions DEF CreateLoopback, DestroyLoopback, SessionVars
<1>7. ASSUME NEW l \in Legs, NEW v \in Volumes, SetVolume(l, v)
      PROVE  SessionInv'
  BY <1>7, SameSessions DEF SetVolume, SessionVars
<1>8. ASSUME NEW l \in Legs, NEW m \in BOOLEAN, SetMute(l, m)
      PROVE  SessionInv'
  BY <1>8, SameSessions DEF SetMute, SessionVars
<1>9. ASSUME NEW r \in Rates, SetSampleRate(r)
      PROVE  SessionInv'
  BY <1>9, SameSessions DEF SetSampleRate, SessionVars
<1>10. QED
  BY <1>1, <1>2, <1>3, <1>4, <1>5, <1>6, <1>7, <1>8, <1>9, ReloadSessionInv,
     ReachLeftSessionInv
     DEF Next, Handler

LEMMA SessionInvariant == Spec => []SessionInv
<1>1. Init => SessionInv
  BY InitSessionInv
<1>2. SessionInv /\ [Next]_vars => SessionInv'
  BY NextSessionInv
<1>3. QED
  BY <1>1, <1>2, PTL DEF Spec

(* However clients connect, end and die, the handlers of pal-loopback.c     *)
(* never follow a NULL btsink or btsco, session_count is the number of      *)
(* sessions, and disconnection_filter_cb is on a connection that is up; if  *)
(* libdbus checks, on one only, and on none without sessions.               *)
THEOREM SessionRecordsAgree == Spec => []SessionsAgree
<1>1. SessionInv => SessionsAgree
  BY DEF SessionInv, SessionsAgree
<1>2. QED
  BY <1>1, SessionInvariant, PTL

(* What unloads leave are paths that sessions had and known connections.    *)
LeftoverType == leftover \in [paths : SUBSET (1..2), watching : SUBSET Clients]

LEMMA LeftoverInvariant == Spec => []LeftoverType
<1>1. Init => LeftoverType
  BY DEF Init, LeftoverType
<1>2. SessionInv /\ LeftoverType /\ [Next]_vars => LeftoverType'
  <2> SUFFICES ASSUME SessionInv, LeftoverType, [Next]_vars
               PROVE  LeftoverType'
    OBVIOUS
  <2>1. CASE leftover' = [leftover EXCEPT !.watching = @ \cap clients']
    BY <2>1 DEF LeftoverType
  <2>2. CASE Reload
    <3>1. Registered \subseteq 1..2
      BY DEF Registered, Sessions, SessionInv, SessionTypes
    <3>2. clients \subseteq Clients
      BY DEF SessionInv, SessionTypes
    <3>3. QED
      BY <2>2, <3>1, <3>2 DEF Reload, LeftoverType
  <2>3. CASE UNCHANGED leftover
    BY <2>3 DEF LeftoverType
  <2>4. QED
    BY <2>1, <2>2, <2>3 DEF Next, ReachLeft, vars
<1>3. QED
  BY <1>1, <1>2, SessionInvariant, PTL DEF Spec

-----------------------------------------------------------------------------
(* The streams                                                              *)

StreamInv == StreamTypes /\ RunningOwnsStreams

LEMMA GainType == \A v \in Volumes \union {DefaultVolume} : Gain(v) \in Gains
BY LoopbackConstants DEF Gain, Gains, DefaultVolume

LEMMA SetLive ==
  ASSUME NEW side \in Sides, NEW x \in SUBSET Streams
  PROVE  /\ [side EXCEPT !.live = x] \in Sides
         /\ [side EXCEPT !.live = x].live = x
BY DEF Sides

LEMMA SetMuted ==
  ASSUME NEW side \in Sides, NEW x \in SUBSET Streams
  PROVE  /\ [side EXCEPT !.muted = x] \in Sides
         /\ [side EXCEPT !.muted = x].live = side.live
BY DEF Sides

LEMMA SetVolumes ==
  ASSUME NEW side \in Sides, NEW x \in [Streams -> Gains \union {PalOwn}]
  PROVE  /\ [side EXCEPT !.volume = x] \in Sides
         /\ [side EXCEPT !.volume = x].live = side.live
BY DEF Sides

LEMMA SetConnected ==
  ASSUME NEW side \in Sides, NEW x \in SUBSET Devices
  PROVE  /\ [side EXCEPT !.connected = x] \in Sides
         /\ [side EXCEPT !.connected = x].live = side.live
BY DEF Sides

LEMMA SetSco ==
  ASSUME NEW side \in Sides, NEW x \in BOOLEAN
  PROVE  /\ [side EXCEPT !.sco = x] \in Sides
         /\ [side EXCEPT !.sco = x].live = side.live
BY DEF Sides

LEMMA SetSpeech ==
  ASSUME NEW side \in Sides, NEW x \in {"nb", "wb"}
  PROVE  /\ [side EXCEPT !.speech = x] \in Sides
         /\ [side EXCEPT !.speech = x].live = side.live
BY DEF Sides

LEMMA SetRate ==
  ASSUME NEW side \in Sides, NEW x, x \in Rates
  PROVE  /\ [side EXCEPT !.rate = x] \in Sides
         /\ [side EXCEPT !.rate = x].live = side.live
BY DEF Sides

LEMMA OpenedSide ==
  ASSUME NEW side \in Sides, NEW streams \in SUBSET Streams
  PROVE  /\ Opened(side, streams) \in Sides
         /\ Opened(side, streams).live = side.live \union streams
<1> DEFINE volumes == [s \in Streams |-> IF s \in streams THEN PalOwn
                                         ELSE side.volume[s]]
           live == side.live \union streams
           muted == side.muted \ streams
           one == [side EXCEPT !.muted = muted]
           two == [one EXCEPT !.volume = volumes]
           all == [two EXCEPT !.live = live]
<1>1. volumes \in [Streams -> Gains \union {PalOwn}]
  BY DEF Sides
<1>2. live \in SUBSET Streams /\ muted \in SUBSET Streams
  BY DEF Sides
<1>3. Opened(side, streams) = all
  BY Zenon DEF Opened
<1> HIDE DEF volumes, muted
<1>4. one \in Sides
  BY <1>2, SetMuted
<1> HIDE DEF one
<1>5. two \in Sides
  BY <1>1, <1>4, SetVolumes
<1> HIDE DEF two, live
<1>6. all \in Sides /\ all.live = live
  BY <1>2, <1>5, SetLive
<1>7. QED
  BY <1>6, <1>3 DEF live

LEMMA LouderSide ==
  ASSUME leg \in LegTypes, NEW side \in Sides, NEW sent, NEW legs \in SUBSET Legs
  PROVE  Louder(side, sent, legs) \in Sides /\ Louder(side, sent, legs).live = side.live
<1> DEFINE volumes ==
      [s \in Streams |-> IF \E l \in legs : sent[l] = s
                         THEN Gain(leg[CHOOSE l \in legs : sent[l] = s].volume)
                         ELSE side.volume[s]]
<1>1. ASSUME NEW s \in Streams
      PROVE  volumes[s] \in Gains \union {PalOwn}
  <2>1. CASE \E l \in legs : sent[l] = s
    <3>1. (CHOOSE l \in legs : sent[l] = s) \in Legs
      BY <2>1
    <3>2. leg[CHOOSE l \in legs : sent[l] = s].volume \in Volumes \union {DefaultVolume}
      BY <3>1 DEF LegTypes
    <3>3. QED
      BY <2>1, <3>2, GainType
  <2>2. CASE ~ \E l \in legs : sent[l] = s
    BY <2>2 DEF Sides
  <2>3. QED
    BY <2>1, <2>2
<1>2. volumes \in [Streams -> Gains \union {PalOwn}]
  BY <1>1
<1>3. Louder(side, sent, legs) = [side EXCEPT !.volume = volumes]
  BY DEF Louder
<1> HIDE DEF volumes
<1>4. QED
  BY <1>2, <1>3 DEF Sides

LEMMA WidebandSide ==
  ASSUME NEW side \in Sides
  PROVE  Wideband(side) \in Sides /\ Wideband(side).live = side.live
<1>1. Speech(rate) \in {"nb", "wb"}
  BY DEF Speech
<1>2. QED
  BY <1>1, SetSpeech DEF Wideband

LEMMA StoppedLegs ==
  ASSUME NEW u \in Usecases
  PROVE  StopOutcomes(u) \subseteq SUBSET LegsOf(u) /\ LegsOf(u) \subseteq Legs
BY DEF StopOutcomes, LegsOf

LEMMA DeinitSide ==
  ASSUME NEW side \in Sides, NEW u \in Usecases, NEW out \in DeinitOutcomes(u)
  PROVE  /\ AfterDeinit(side, u, out) \in Sides
         /\ AfterDeinit(side, u, out).live = side.live \/
              (AfterDeinit(side, u, out).live = side.live \ Handles(out.closed)
               /\ out.closed \in SUBSET LegsOf(u) /\ (out.closed = {} \/ running[u]))
<1>1. out.closed \in SUBSET LegsOf(u) /\ (out.closed = {} \/ running[u])
  BY StoppedLegs DEF DeinitOutcomes
<1>2. CASE ~exists[u]
  BY <1>1, <1>2 DEF AfterDeinit
<1>3. CASE exists[u]
  <2> DEFINE live == side.live \ Handles(out.closed)
             connected == side.connected \ (DevicesOf(u) \ out.kept)
             sco == side.sco /\ ~(u = "btsco" /\ out.off)
             one == [side EXCEPT !.connected = connected]
             two == [one EXCEPT !.sco = sco]
  <2>1. live \in SUBSET Streams /\ connected \in SUBSET Devices
    BY DEF Sides
  <2>2. one \in Sides
    BY <2>1, SetConnected
  <2>3. sco \in BOOLEAN
    BY DEF Sides
  <2>4. two \in Sides
    BY <2>2, <2>3, SetSco
  <2>5. [two EXCEPT !.live = live] \in Sides /\ [two EXCEPT !.live = live].live = live
    BY <2>1, <2>4, SetLive
  <2>6. AfterDeinit(side, u, out) = [two EXCEPT !.live = live]
    BY <1>3, Zenon DEF AfterDeinit
  <2>7. QED
    BY <1>1, <2>5, <2>6
<1>4. QED
  BY <1>2, <1>3

LEMMA InitStreamInv == Init => StreamInv
<1> SUFFICES ASSUME Init
             PROVE  StreamInv
  OBVIOUS
<1>1. running \in [Usecases -> BOOLEAN] /\ rate \in Rates
  BY LoopbackConstants DEF Init
<1>2. leg \in LegTypes
  BY DEF Init, FreshLeg, LegTypes
<1>3. pal \in Sides
  BY LoopbackConstants DEF Init, SilentPal, Sides
<1>4. stale \in BOOLEAN
  BY DEF Init
<1>5. RunningOwnsStreams
  BY DEF Init, RunningOwnsStreams, UsecaseOf
<1>6. QED
  BY <1>1, <1>2, <1>3, <1>4, <1>5 DEF StreamInv, StreamTypes

(* Closing streams that no running use case has keeps what is running.      *)
LEMMA OwnAfterClose ==
  ASSUME StreamInv, NEW u \in Usecases, NEW closed \in SUBSET LegsOf(u),
         closed = {} \/ running[u],
         \A v \in Usecases : running'[v] => v # u /\ running[v],
         \A l \in Legs \ LegsOf(u) : leg'[l].handle = leg[l].handle,
         pal.live \ Handles(closed) \subseteq pal'.live
  PROVE  RunningOwnsStreams'
<1> SUFFICES ASSUME NEW l \in Legs, running'[UsecaseOf(l)]
             PROVE  /\ leg'[l].handle \in pal'.live
                    /\ \A k \in Legs \ {l} : running'[UsecaseOf(k)] =>
                                             leg'[k].handle # leg'[l].handle
  BY DEF RunningOwnsStreams
<1>1. \A k \in Legs : running'[UsecaseOf(k)] =>
        k \notin LegsOf(u) /\ running[UsecaseOf(k)] /\ leg'[k].handle = leg[k].handle
  BY DEF StreamInv, StreamTypes, UsecaseOf, LegsOf
<1>2. leg[l].handle \in pal.live /\ running[UsecaseOf(l)]
  BY <1>1 DEF StreamInv, RunningOwnsStreams
<1>3. leg[l].handle \notin Handles(closed)
  <2>1. CASE closed = {}
    BY <2>1 DEF Handles
  <2>2. CASE running[u]
    <3>1. \A k \in closed : k \in Legs \ {l} /\ running[UsecaseOf(k)]
      BY <1>1, <2>2 DEF LegsOf, UsecaseOf
    <3>2. \A k \in closed : leg[k].handle # leg[l].handle
      BY <1>2, <3>1 DEF StreamInv, RunningOwnsStreams
    <3>3. QED
      BY <3>2 DEF Handles
  <2>3. QED
    BY <2>1, <2>2
<1>4. leg'[l].handle \in pal'.live
  BY <1>1, <1>2, <1>3
<1>5. ASSUME NEW k \in Legs \ {l}, running'[UsecaseOf(k)]
      PROVE  leg'[k].handle # leg'[l].handle
  BY <1>1, <1>2, <1>5 DEF StreamInv, RunningOwnsStreams
<1>6. QED
  BY <1>4, <1>5

LEMMA DestroyStreamInv ==
  ASSUME StreamInv, NEW u \in Usecases, DestroyLoopback(u)
  PROVE  StreamInv'
<1>1. PICK closed \in StopOutcomes(u) :
        /\ leg' = Closed(closed)
        /\ pal' = [pal EXCEPT !.live = @ \ Handles(closed)]
  BY DEF DestroyLoopback
<1>2. closed \in SUBSET LegsOf(u) /\ LegsOf(u) \subseteq Legs
  BY StoppedLegs
<1>3. running[u] /\ running' = [running EXCEPT ![u] = FALSE]
  BY DEF DestroyLoopback
<1>4. leg' \in LegTypes
  BY <1>1 DEF Closed, StreamInv, StreamTypes, LegTypes
<1>5. \A l \in Legs \ LegsOf(u) : leg'[l].handle = leg[l].handle
  BY <1>1, <1>2 DEF Closed
<1>6. pal.live \ Handles(closed) \in SUBSET Streams
  BY DEF StreamInv, StreamTypes, Sides
<1>7. pal' \in Sides /\ pal'.live = pal.live \ Handles(closed)
  BY <1>1, <1>6, SetLive DEF StreamInv, StreamTypes
<1>8. RunningOwnsStreams'
  <2>1. \A v \in Usecases : running'[v] => v # u /\ running[v]
    BY <1>3 DEF StreamInv, StreamTypes
  <2>2. QED
    BY <1>2, <1>3, <1>5, <1>7, <2>1, OwnAfterClose
<1>9. running' \in [Usecases -> BOOLEAN] /\ rate' \in Rates
  BY <1>3 DEF DestroyLoopback, StreamInv, StreamTypes
<1>10. stale' \in BOOLEAN
  BY DEF DestroyLoopback
<1>11. QED
  BY <1>4, <1>7, <1>8, <1>9, <1>10 DEF StreamInv, StreamTypes

LEMMA EndedTypes ==
  ASSUME StreamInv, NEW us \in SUBSET Usecases, EndSessions(us)
  PROVE  running' \in [Usecases -> BOOLEAN] /\ leg' \in LegTypes /\ rate' \in Rates
<1>1. running' \in [Usecases -> BOOLEAN]
  BY DEF EndSessions, StreamInv, StreamTypes
<1>2. leg' \in LegTypes
  BY DEF EndSessions, StreamInv, StreamTypes, LegTypes, FreshLeg
<1>3. rate' \in Rates
  BY LoopbackConstants DEF EndSessions, StreamInv, StreamTypes
<1>4. QED
  BY <1>1, <1>2, <1>3

LEMMA BtDisconnectStreamInv ==
  ASSUME StreamInv, NEW c \in Clients, NEW u \in Usecases, BtDisconnect(c, u)
  PROVE  StreamInv'
<1>1. PICK out \in DeinitOutcomes(u) : pal' = AfterDeinit(pal, u, out)
  BY DEF BtDisconnect
<1>2. EndSessions({u}) /\ stale' = stale
  BY DEF BtDisconnect
<1>3. pal \in Sides
  BY DEF StreamInv, StreamTypes
<1>4. /\ pal' \in Sides
      /\ pal'.live = pal.live \/
           (pal'.live = pal.live \ Handles(out.closed)
            /\ out.closed \in SUBSET LegsOf(u) /\ (out.closed = {} \/ running[u]))
  BY <1>1, <1>3, DeinitSide
<1>5. \A v \in Usecases : running'[v] => v # u /\ running[v]
  BY <1>2 DEF EndSessions
<1>6. \A l \in Legs \ LegsOf(u) : leg'[l].handle = leg[l].handle
  BY <1>2 DEF EndSessions, LegsOf, UsecaseOf
<1>7. RunningOwnsStreams'
  <2>1. CASE pal'.live = pal.live
    <3>1. {} \in SUBSET LegsOf(u) /\ pal.live \ Handles({}) \subseteq pal'.live
      BY <2>1
    <3>2. QED
      BY <1>5, <1>6, <3>1, OwnAfterClose
  <2>2. CASE /\ pal'.live = pal.live \ Handles(out.closed)
             /\ out.closed \in SUBSET LegsOf(u) /\ (out.closed = {} \/ running[u])
    BY <1>5, <1>6, <2>2, OwnAfterClose
  <2>3. QED
    BY <1>4, <2>1, <2>2
<1>8. QED
  BY <1>2, <1>4, <1>7, EndedTypes DEF StreamInv, StreamTypes

LEMMA DisconnectedStreamInv ==
  ASSUME StreamInv, NEW c \in Clients, Disconnected(c)
  PROVE  StreamInv'
<1>1. CASE filters[c] > 0
  <2>1. PICK a \in DeinitOutcomes("bta2dp"), h \in DeinitOutcomes("btsco") :
          pal' = AfterDeinit(AfterDeinit(pal, "bta2dp", a), "btsco", h)
    BY <1>1 DEF Disconnected
  <2>2. pal \in Sides
    BY DEF StreamInv, StreamTypes
  <2>3. AfterDeinit(pal, "bta2dp", a) \in Sides
    BY <2>2, DeinitSide
  <2>4. pal' \in Sides
    BY <2>1, <2>3, DeinitSide
  <2>5. EndSessions(Usecases) /\ stale' = stale
    BY <1>1 DEF Disconnected
  <2>6. RunningOwnsStreams'
    BY <2>5 DEF EndSessions, RunningOwnsStreams, UsecaseOf
  <2>7. QED
    BY <2>4, <2>5, <2>6, EndedTypes DEF StreamInv, StreamTypes
<1>2. CASE ~(filters[c] > 0)
  BY <1>2 DEF Disconnected, StreamInv, StreamTypes, RunningOwnsStreams
<1>3. QED
  BY <1>1, <1>2

LEMMA ConnectStreamInv ==
  ASSUME StreamInv, NEW c \in Clients, NEW u \in Usecases, BtConnect(c, u)
  PROVE  StreamInv'
<1>1. PICK out \in InitOutcomes(u) :
        /\ pal' = PalAfterInit(u, out)
        /\ \/ /\ running' = [running EXCEPT ![u] = FALSE]
              /\ leg' = [l \in Legs |-> IF l \in LegsOf(u) THEN FreshLeg ELSE leg[l]]
              /\ rate' = IF u = "btsco" THEN PortRate ELSE rate
           \/ UNCHANGED <<running, leg, rate>>
  BY DEF BtConnect
<1>2. pal' \in Sides /\ pal'.live = pal.live
  <2> DEFINE connected == pal.connected \union CASE out = "connect_in"  -> {}
                                                [] out = "connect_out" -> {"sco_in"}
                                                [] OTHER -> DevicesOf(u)
             sco == pal.sco \/ (u = "btsco" /\ out \in {"wb", "ok"})
             speech == IF u = "btsco" /\ out = "ok" THEN Speech(PortRate)
                       ELSE pal.speech
             one == [pal EXCEPT !.connected = connected]
             two == [one EXCEPT !.sco = sco]
             all == [two EXCEPT !.speech = speech]
  <2>1. connected \in SUBSET Devices
    BY DEF StreamInv, StreamTypes, Sides, Devices, DevicesOf
  <2>2. sco \in BOOLEAN
    BY DEF StreamInv, StreamTypes, Sides
  <2>3. speech \in {"nb", "wb"}
    BY DEF StreamInv, StreamTypes, Sides, Speech
  <2>4. pal' = all
    BY <1>1, Zenon DEF PalAfterInit
  <2> HIDE DEF connected, sco, speech
  <2>5. one \in Sides /\ one.live = pal.live
    BY <2>1, SetConnected DEF StreamInv, StreamTypes
  <2> HIDE DEF one
  <2>6. two \in Sides /\ two.live = one.live
    BY <2>2, <2>5, SetSco
  <2> HIDE DEF two
  <2>7. all \in Sides /\ all.live = two.live
    BY <2>3, <2>6, SetSpeech
  <2>8. QED
    BY <2>4, <2>5, <2>6, <2>7
<1>3. rate' \in Rates
  BY <1>1, LoopbackConstants DEF StreamInv, StreamTypes
<1>4. running' \in [Usecases -> BOOLEAN] /\ leg' \in LegTypes
  <2>1. FreshLeg \in [handle : Streams \union {NoStream},
                    volume : Volumes \union {DefaultVolume}, mute : BOOLEAN]
    BY DEF FreshLeg
  <2>2. CASE /\ running' = [running EXCEPT ![u] = FALSE]
             /\ leg' = [l \in Legs |-> IF l \in LegsOf(u) THEN FreshLeg ELSE leg[l]]
    <3>1. running' \in [Usecases -> BOOLEAN]
      BY <2>2 DEF StreamInv, StreamTypes
    <3>2. leg' \in LegTypes
      BY <2>1, <2>2 DEF StreamInv, StreamTypes, LegTypes
    <3>3. QED
      BY <3>1, <3>2
  <2>3. CASE UNCHANGED <<running, leg>>
    BY <2>3 DEF StreamInv, StreamTypes
  <2>4. QED
    BY <1>1, <2>2, <2>3
<1>5. stale' \in BOOLEAN
  BY DEF BtConnect, StreamInv, StreamTypes
<1>6. \A v \in Usecases : running'[v] => running[v]
  BY <1>1 DEF StreamInv, StreamTypes
<1>7. \A l \in Legs : running'[UsecaseOf(l)] => leg'[l].handle = leg[l].handle
  BY <1>1 DEF StreamInv, StreamTypes, LegsOf, UsecaseOf
<1>8. RunningOwnsStreams'
  BY <1>2, <1>6, <1>7 DEF StreamInv, RunningOwnsStreams, UsecaseOf
<1>9. QED
  BY <1>2, <1>3, <1>4, <1>5, <1>8 DEF StreamInv, StreamTypes

(* A request that moves no handle and closes no stream.                     *)
LEMMA SameStreams ==
  ASSUME StreamInv, UNCHANGED running, leg' \in LegTypes, rate' \in Rates,
         pal' \in Sides, stale' \in BOOLEAN, pal'.live = pal.live,
         \A l \in Legs : leg'[l].handle = leg[l].handle
  PROVE  StreamInv'
<1>1. RunningOwnsStreams'
  BY DEF StreamInv, RunningOwnsStreams, UsecaseOf
<1>2. QED
  BY <1>1 DEF StreamInv, StreamTypes

LEMMA SetVolumeStreamInv ==
  ASSUME StreamInv, NEW l \in Legs, NEW v \in Volumes, SetVolume(l, v)
  PROVE  StreamInv'
<1>1. leg' \in LegTypes /\ \A k \in Legs : leg'[k].handle = leg[k].handle
  BY DEF SetVolume, StreamInv, StreamTypes, LegTypes
<1>2. pal' \in Sides /\ pal'.live = pal.live
  <2> DEFINE s == leg[l].handle
  <2>1. CASE pal' = pal
    BY <2>1 DEF StreamInv, StreamTypes
  <2>2. CASE s \in pal.live /\ pal' = [pal EXCEPT !.volume[s] = Gain(v)]
    <3>1. [pal.volume EXCEPT ![s] = Gain(v)] \in [Streams -> Gains \union {PalOwn}]
      BY <2>2, GainType DEF StreamInv, StreamTypes, Sides
    <3>2. pal' = [pal EXCEPT !.volume = [pal.volume EXCEPT ![s] = Gain(v)]]
      BY <2>2
    <3>3. PICK x \in [Streams -> Gains \union {PalOwn}] : pal' = [pal EXCEPT !.volume = x]
      BY <3>1, <3>2, Zenon
    <3>4. pal \in Sides
      BY DEF StreamInv, StreamTypes
    <3>5. /\ [pal EXCEPT !.volume = x] \in Sides
          /\ [pal EXCEPT !.volume = x].live = pal.live
      BY <3>4, SetVolumes
    <3>6. QED
      BY <3>3, <3>5
  <2>3. QED
    BY <2>1, <2>2 DEF SetVolume
<1>3. stale' \in BOOLEAN
  BY DEF SetVolume
<1>4. QED
  BY <1>1, <1>2, <1>3, SameStreams DEF SetVolume, StreamInv, StreamTypes

LEMMA SetMuteStreamInv ==
  ASSUME StreamInv, NEW l \in Legs, NEW m \in BOOLEAN, SetMute(l, m)
  PROVE  StreamInv'
<1>1. leg' \in LegTypes /\ \A k \in Legs : leg'[k].handle = leg[k].handle
  BY DEF SetMute, MuteCached, StreamInv, StreamTypes, LegTypes
<1>2. pal' \in Sides /\ pal'.live = pal.live
  <2> DEFINE s == leg[l].handle
             muted == IF m THEN pal.muted \union {s} ELSE pal.muted \ {s}
  <2>1. CASE pal' = pal
    BY <2>1 DEF StreamInv, StreamTypes
  <2>2. CASE s \in pal.live /\ pal' = [pal EXCEPT !.muted = muted]
    <3>1. muted \in SUBSET Streams
      BY <2>2 DEF StreamInv, StreamTypes, Sides
    <3>2. pal \in Sides
      BY DEF StreamInv, StreamTypes
    <3>3. PICK x \in SUBSET Streams : pal' = [pal EXCEPT !.muted = x]
      BY <2>2, <3>1, Zenon
    <3>4. /\ [pal EXCEPT !.muted = x] \in Sides
          /\ [pal EXCEPT !.muted = x].live = pal.live
      BY <3>2, SetMuted
    <3>5. QED
      BY <3>3, <3>4
  <2>3. QED
    BY <2>1, <2>2 DEF SetMute
<1>3. stale' \in BOOLEAN
  BY DEF SetMute
<1>4. QED
  BY <1>1, <1>2, <1>3, SameStreams DEF SetMute, StreamInv, StreamTypes

-----------------------------------------------------------------------------
(* CreateLoopback                                                           *)

LEMMA LeftOpenStreams ==
  ASSUME NEW streams \in SUBSET Streams, NEW left \in LeftOpen(streams)
  PROVE  left \in SUBSET Streams
BY DEF LeftOpen

(* A failed start leaves the streams of what is running alone: only legs of *)
(* a use case that is not running change, and no stream is closed.          *)
LEMMA OwnAfterFailure ==
  ASSUME StreamInv, UNCHANGED running, NEW u \in Usecases, ~running[u],
         \A l \in Legs \ LegsOf(u) : leg'[l].handle = leg[l].handle,
         pal.live \subseteq pal'.live
  PROVE  RunningOwnsStreams'
<1>1. {} \in SUBSET LegsOf(u) /\ pal.live \ Handles({}) \subseteq pal'.live
  OBVIOUS
<1>2. \A v \in Usecases : running'[v] => v # u /\ running[v]
  OBVIOUS
<1>3. QED
  BY <1>1, <1>2, OwnAfterClose

LEMMA StartBtsinkInv ==
  ASSUME StreamInv, ~running["bta2dp"], StartBtsink, UNCHANGED <<rate, stale>>
  PROVE  StreamInv'
<1>1. CASE UNCHANGED <<leg, running, pal>>
  BY <1>1 DEF StreamInv, StreamTypes, RunningOwnsStreams
<1>2. ASSUME NEW s \in Streams \ pal.live, leg' = [leg EXCEPT !["a2dp"].handle = s],
             NEW left \in LeftOpen({s}), pal' = Opened(pal, left), UNCHANGED running
      PROVE  StreamInv'
  <2>1. left \in SUBSET Streams /\ pal \in Sides
    BY <1>2, LeftOpenStreams DEF StreamInv, StreamTypes
  <2>2. pal' \in Sides /\ pal'.live = pal.live \union left
    BY <1>2, <2>1, OpenedSide
  <2>3. leg' \in LegTypes /\ \A l \in Legs \ LegsOf("bta2dp") : leg'[l].handle = leg[l].handle
    BY <1>2 DEF StreamInv, StreamTypes, LegTypes, LegsOf
  <2>4. RunningOwnsStreams'
    BY <1>2, <2>2, <2>3, OwnAfterFailure
  <2>5. QED
    BY <1>2, <2>2, <2>3, <2>4 DEF StreamInv, StreamTypes
<1>3. ASSUME NEW s \in Streams \ pal.live, leg' = [leg EXCEPT !["a2dp"].handle = s],
             running' = [running EXCEPT !["bta2dp"] = TRUE],
             NEW set \in VolumesSet({"a2dp"}),
             pal' = Louder(Opened(pal, {s}), [a2dp |-> s], set)
      PROVE  StreamInv'
  <2>1. set \in SUBSET Legs /\ pal \in Sides /\ leg \in LegTypes
    BY <1>3 DEF VolumesSet, StreamInv, StreamTypes
  <2>2. Opened(pal, {s}) \in Sides /\ Opened(pal, {s}).live = pal.live \union {s}
    BY <1>3, <2>1, OpenedSide
  <2>3. pal' \in Sides /\ pal'.live = pal.live \union {s}
    BY <1>3, <2>1, <2>2, LouderSide
  <2>4. leg' \in LegTypes /\ leg'["a2dp"].handle = s
        /\ \A l \in Legs \ {"a2dp"} : leg'[l].handle = leg[l].handle
    BY <1>3 DEF StreamInv, StreamTypes, LegTypes
  <2>5. \A l \in Legs \ {"a2dp"} : running'[UsecaseOf(l)] =>
          running[UsecaseOf(l)] /\ leg[l].handle \in pal.live
    BY <1>3 DEF StreamInv, StreamTypes, RunningOwnsStreams, UsecaseOf
  <2>6. RunningOwnsStreams'
    BY <1>3, <2>3, <2>4, <2>5 DEF StreamInv, RunningOwnsStreams
  <2>7. running' \in [Usecases -> BOOLEAN]
    BY <1>3 DEF StreamInv, StreamTypes
  <2>8. QED
    BY <2>3, <2>4, <2>6, <2>7 DEF StreamInv, StreamTypes
<1>4. QED
  BY <1>1, <1>2, <1>3 DEF StartBtsink

LEMMA HandsFreeFailsInv ==
  ASSUME StreamInv, ~running["btsco"], UNCHANGED <<rate, stale>>, NEW opened,
         \A l \in DOMAIN opened : opened[l] \in Streams,
         NEW nulled \in SUBSET {"rx", "tx"}, HandsFreeFails(opened, nulled)
  PROVE  StreamInv'
<1> DEFINE streams == {opened[l] : l \in DOMAIN opened}
<1>1. PICK left \in LeftOpen(streams) : pal' = Wideband(Opened(pal, left))
  BY DEF HandsFreeFails
<1>2. left \in SUBSET Streams /\ pal \in Sides
  <2>1. streams \in SUBSET Streams
    OBVIOUS
  <2> HIDE DEF streams
  <2>2. QED
    BY <1>1, <2>1, LeftOpenStreams DEF StreamInv, StreamTypes
<1>3. Opened(pal, left) \in Sides /\ Opened(pal, left).live = pal.live \union left
  BY <1>2, OpenedSide
<1>4. pal' \in Sides /\ pal'.live = pal.live \union left
  BY <1>1, <1>3, WidebandSide
<1>5. leg' \in LegTypes
  BY DEF HandsFreeFails, StreamInv, StreamTypes, LegTypes
<1>6. \A l \in Legs \ LegsOf("btsco") : leg'[l].handle = leg[l].handle
  BY DEF HandsFreeFails, LegsOf
<1>7. UNCHANGED running
  BY DEF HandsFreeFails
<1>8. RunningOwnsStreams'
  BY <1>4, <1>6, <1>7, OwnAfterFailure
<1>9. QED
  BY <1>4, <1>5, <1>7, <1>8 DEF StreamInv, StreamTypes

(* Two new streams for the legs of a call are shared with no other leg.     *)
LEMMA NewStreamsOwned ==
  ASSUME RunningOwnsStreams, running \in [Usecases -> BOOLEAN],
         NEW s \in Streams \ pal.live, NEW t \in Streams \ (pal.live \union {s}),
         pal'.live = pal.live \union {s, t},
         leg'["rx"].handle = s, leg'["tx"].handle = t,
         leg'["a2dp"].handle = leg["a2dp"].handle,
         running'["bta2dp"] => running["bta2dp"]
  PROVE  RunningOwnsStreams'
<1>1. running["bta2dp"] => leg["a2dp"].handle \in pal.live
  BY DEF RunningOwnsStreams, UsecaseOf
<1>2. QED
  BY <1>1 DEF RunningOwnsStreams, UsecaseOf

LEMMA StreamInvAgain ==
  ASSUME StreamInv, UNCHANGED <<rate, stale>>, running' \in [Usecases -> BOOLEAN],
         leg' \in LegTypes, pal' \in Sides, RunningOwnsStreams'
  PROVE  StreamInv'
  BY DEF StreamInv, StreamTypes

LEMMA HandsFreeStartsInv ==
  ASSUME StreamInv, ~running["btsco"], UNCHANGED <<rate, stale>>,
         NEW s \in Streams \ pal.live, NEW t \in Streams \ (pal.live \union {s}),
         running' = [running EXCEPT !["btsco"] = TRUE],
         leg' = [leg EXCEPT !["rx"].handle = s, !["tx"].handle = t],
         NEW set \in VolumesSet({"rx", "tx"}),
         pal' = [Wideband(Louder(Opened(pal, {s, t}), [rx |-> s, tx |-> t], set))
                 EXCEPT !.rate = rate]
  PROVE  StreamInv'
<1> DEFINE opened == Opened(pal, {s, t})
           sent == [rx |-> s, tx |-> t]
           side == Louder(opened, sent, set)
           wide == Wideband(side)
<1>1. set \in SUBSET Legs /\ pal \in Sides /\ leg \in LegTypes /\ rate \in Rates
  BY DEF VolumesSet, StreamInv, StreamTypes
<1>2. opened \in Sides /\ opened.live = pal.live \union {s, t}
  BY <1>1, OpenedSide
<1>3. pal' = [wide EXCEPT !.rate = rate]
  OBVIOUS
<1> HIDE DEF opened, sent
<1>4. side \in Sides /\ side.live = pal.live \union {s, t}
  BY <1>1, <1>2, LouderSide
<1> HIDE DEF side
<1>5. wide \in Sides /\ wide.live = pal.live \union {s, t}
  BY <1>4, WidebandSide
<1> HIDE DEF wide
<1>6. [wide EXCEPT !.rate = rate] \in Sides /\ [wide EXCEPT !.rate = rate].live = wide.live
  BY <1>1, <1>5, SetRate
<1>7. pal' \in Sides /\ pal'.live = pal.live \union {s, t}
  BY <1>5, <1>3, <1>6
<1>8. leg' \in LegTypes /\ leg'["rx"].handle = s /\ leg'["tx"].handle = t
      /\ leg'["a2dp"].handle = leg["a2dp"].handle
  BY <1>1 DEF LegTypes
<1>9. RunningOwnsStreams /\ running \in [Usecases -> BOOLEAN]
  BY DEF StreamInv, StreamTypes
<1>10. running' \in [Usecases -> BOOLEAN] /\ (running'["bta2dp"] => running["bta2dp"])
  BY <1>9
<1>11. RunningOwnsStreams'
  BY <1>7, <1>8, <1>9, <1>10, NewStreamsOwned, Zenon
<1>12. QED
  BY <1>7, <1>8, <1>10, <1>11, StreamInvAgain, Zenon

LEMMA StartHfpInv ==
  ASSUME StreamInv, ~running["btsco"], StartHfp, UNCHANGED <<rate, stale>>
  PROVE  StreamInv'
<1>1. CASE UNCHANGED <<leg, running, pal>>
  BY <1>1 DEF StreamInv, StreamTypes, RunningOwnsStreams
<1>2. CASE HandsFreeFails(NothingOpened, {"rx"})
  BY <1>2, HandsFreeFailsInv DEF NothingOpened
<1>3. ASSUME NEW s \in Streams,
             HandsFreeFails([rx |-> s], {"rx"}) \/ HandsFreeFails([rx |-> s], {"rx", "tx"})
      PROVE  StreamInv'
  <2>1. \A l \in DOMAIN [rx |-> s] : [rx |-> s][l] \in Streams
    OBVIOUS
  <2>2. QED
    BY <1>3, <2>1, HandsFreeFailsInv
<1>4. ASSUME NEW s \in Streams, NEW t \in Streams,
             HandsFreeFails([rx |-> s, tx |-> t], {"rx", "tx"})
      PROVE  StreamInv'
  <2>1. \A l \in DOMAIN [rx |-> s, tx |-> t] : [rx |-> s, tx |-> t][l] \in Streams
    OBVIOUS
  <2>2. QED
    BY <1>4, <2>1, HandsFreeFailsInv
<1>5. ASSUME NEW s \in Streams \ pal.live, NEW t \in Streams \ (pal.live \union {s}),
             running' = [running EXCEPT !["btsco"] = TRUE],
             leg' = [leg EXCEPT !["rx"].handle = s, !["tx"].handle = t],
             NEW set \in VolumesSet({"rx", "tx"}),
             pal' = [Wideband(Louder(Opened(pal, {s, t}), [rx |-> s, tx |-> t], set))
                     EXCEPT !.rate = rate]
      PROVE  StreamInv'
  BY <1>5, HandsFreeStartsInv
<1>6. QED
  BY <1>1, <1>2, <1>3, <1>4, <1>5 DEF StartHfp

LEMMA ReloadStreamInv ==
  ASSUME StreamInv, Reload
  PROVE  StreamInv'
<1>1. running' \in [Usecases -> BOOLEAN] /\ rate' \in Rates /\ stale' \in BOOLEAN
  BY LoopbackConstants DEF Reload, StreamInv, StreamTypes
<1>2. leg' \in LegTypes
  BY DEF Reload, FreshLeg, LegTypes
<1>3. pal' \in Sides
  BY LoopbackConstants DEF Reload, SilentPal, Sides
<1>4. RunningOwnsStreams'
  BY DEF Reload, RunningOwnsStreams, UsecaseOf
<1>5. QED
  BY <1>1, <1>2, <1>3, <1>4 DEF StreamInv, StreamTypes

LEMMA NextStreamInv == StreamInv /\ [Next]_vars => StreamInv'
<1> SUFFICES ASSUME StreamInv, [Next]_vars
             PROVE  StreamInv'
  OBVIOUS
<1>1. CASE UNCHANGED vars
  BY <1>1 DEF vars, StreamInv, StreamTypes, RunningOwnsStreams
<1>2. ASSUME NEW c \in Clients, NEW u \in Usecases, BtConnect(c, u)
      PROVE  StreamInv'
  BY <1>2, ConnectStreamInv
<1>3. ASSUME NEW u \in Usecases, CreateLoopback(u)
      PROVE  StreamInv'
  BY <1>3, StartBtsinkInv, StartHfpInv DEF CreateLoopback
<1>4. ASSUME NEW u \in Usecases, DestroyLoopback(u)
      PROVE  StreamInv'
  BY <1>4, DestroyStreamInv
<1>5. ASSUME NEW c \in Clients, NEW u \in Usecases, BtDisconnect(c, u)
      PROVE  StreamInv'
  BY <1>5, BtDisconnectStreamInv
<1>6. ASSUME NEW c \in Clients, Disconnected(c)
      PROVE  StreamInv'
  BY <1>6, DisconnectedStreamInv
<1>7. ASSUME NEW c \in Clients, Reconnect(c)
      PROVE  StreamInv'
  BY <1>7 DEF Reconnect, StreamInv, StreamTypes, RunningOwnsStreams
<1>8. ASSUME NEW l \in Legs, NEW v \in Volumes, SetVolume(l, v)
      PROVE  StreamInv'
  BY <1>8, SetVolumeStreamInv
<1>9. ASSUME NEW l \in Legs, NEW m \in BOOLEAN, SetMute(l, m)
      PROVE  StreamInv'
  BY <1>9, SetMuteStreamInv
<1>10. ASSUME NEW r \in Rates, SetSampleRate(r)
       PROVE  StreamInv'
  BY <1>10 DEF SetSampleRate, StreamInv, StreamTypes, RunningOwnsStreams
<1>11. CASE Reload
  BY <1>11, ReloadStreamInv
<1>12. CASE ReachLeft
  BY <1>12 DEF ReachLeft, StreamInv, StreamTypes, RunningOwnsStreams
<1>13. QED
  BY <1>1, <1>2, <1>3, <1>4, <1>5, <1>6, <1>7, <1>8, <1>9, <1>10, <1>11, <1>12
     DEF Next, Handler

LEMMA StreamInvariant == Spec => []StreamInv
<1>1. Init => StreamInv
  BY InitStreamInv
<1>2. StreamInv /\ [Next]_vars => StreamInv'
  BY NextStreamInv
<1>3. QED
  BY <1>1, <1>2, PTL DEF Spec

(* The variables of the loopback service keep their types; the count and    *)
(* the object path numbers never exceed the number of use cases.            *)
THEOREM TypeCorrect == Spec => []TypeOK
<1>1. SessionInv /\ StreamInv /\ LeftoverType => TypeOK
  BY TwoUsecases DEF SessionInv, SessionTypes, StreamInv, StreamTypes, LegTypes,
                     LeftoverType, TypeOK
<1>2. QED
  BY <1>1, SessionInvariant, StreamInvariant, LeftoverInvariant, PTL

(* A running use case has an open PAL stream of its own on each leg,        *)
(* whichever PAL calls fail.                                                *)
THEOREM RunningUsecasesOwnStreams == Spec => []RunningOwnsStreams
<1>1. StreamInv => RunningOwnsStreams
  BY DEF StreamInv
<1>2. QED
  BY <1>1, StreamInvariant, PTL

=============================================================================
