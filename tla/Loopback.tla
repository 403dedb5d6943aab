------------------------------ MODULE Loopback ------------------------------
(***************************************************************************)
(* The Bluetooth loopback service of module-pal-card (pal-loopback.c) with  *)
(* its two use cases, A2DP sink (bt-a2dp-split.c) and hands-free (hfp.c).   *)
(*                                                                          *)
(* D-Bus clients connect a use case, which gives them a session object, and *)
(* create and destroy loopback streams on it.  All handlers run one after   *)
(* the other in the main loop, so a handler is one step; its PAL calls may  *)
(* fail (Failures), and what a half failed handler leaves behind is what    *)
(* the properties are about.  A "leg" is one loopback stream: the A2DP one, *)
(* or the receive or transmit one of a hands-free call.                     *)
(***************************************************************************)
EXTENDS Integers, FiniteSets

CONSTANTS
  Clients,        \* D-Bus connections
  Streams,        \* identities of PAL streams; bounds those alive at once
  NoStream,       \* the NULL stream handle
  Volumes,        \* volumes that are requested
  PortRate,       \* the rate configured for the hands-free ports
  Failures,       \* the PAL calls that may fail
  DBusChecks,     \* libdbus stops the process when it is misused
  Unloads,        \* the module may be unloaded and loaded again
  MaxFilters      \* bound on the filters of a connection

Legs == {"a2dp", "rx", "tx"}
Usecases == {"bta2dp", "btsco"}
Rates == {8000, 16000}
DefaultVolume == 10

ASSUME LoopbackConstants ==
  /\ NoStream \notin Streams /\ IsFiniteSet(Streams)
  /\ Volumes \subseteq Int
  /\ PortRate \in Rates
  /\ DBusChecks \in BOOLEAN /\ Unloads \in BOOLEAN
  /\ MaxFilters \in Nat
  /\ Failures \subseteq {"connect_in", "connect_out", "disconnect", "sco", "wb",
                         "open", "a2dp_start", "rx_start", "tx_start", "stop",
                         "close", "volume", "mute"}

VARIABLES
  path,       \* number in the object path of each use case's session, 0: none
  count,      \* m_data->session_count
  filters,    \* how often disconnection_filter_cb is on each connection
  clients,    \* the connections that are up
  exists,     \* btsink, btsco are not NULL
  running,    \* is_running
  leg,        \* per leg: handle, volume and mute
  rate,       \* btsco->sample_rate
  pal,        \* the PAL side
  leftover,   \* object paths and connections that still lead to an unloaded module
  stale,      \* PAL was called with the handle of a closed stream
  aborted     \* an assertion, or libdbus, stopped the daemon

vars == <<path, count, filters, clients, exists, running, leg, rate, pal, leftover,
          stale, aborted>>

LegsOf(u) == IF u = "bta2dp" THEN {"a2dp"} ELSE {"rx", "tx"}
UsecaseOf(l) == IF l = "a2dp" THEN "bta2dp" ELSE "btsco"
Devices == {"a2dp_in", "sco_in", "sco_out"}
DevicesOf(u) == IF u = "bta2dp" THEN {"a2dp_in"} ELSE {"sco_in", "sco_out"}

Sessions == {u \in Usecases : path[u] # 0}
Registered == {path[u] : u \in Sessions}            \* session object paths
Handles(legs) == {leg[l].handle : l \in legs} \ {NoStream}
Called(u) == path[u] # 0 /\ clients # {}            \* somebody calls a session
MayFail(call) == {TRUE} \union (IF call \in Failures THEN {FALSE} ELSE {})
FreshLeg == [handle |-> NoStream, volume |-> DefaultVolume, mute |-> FALSE]

(* set_btsco_params: wide-band speech or narrow-band, by the sample rate.     *)
Speech(r) == IF r = 16000 THEN "wb" ELSE "nb"

(* pa_pal_set_volume clips at 15; PAL gets fifteenths.                      *)
Gain(v) == IF v < 0 THEN 0 ELSE IF v > 15 THEN 15 ELSE v
Gains == 0..15
PalOwn == -1                    \* the volume of a stream PAL was told none for

SilentPal ==
  [live |-> {}, volume |-> [s \in Streams |-> PalOwn], muted |-> {},
   connected |-> {}, sco |-> FALSE, speech |-> "nb", rate |-> PortRate]

Init ==
  /\ path = [u \in Usecases |-> 0] /\ count = 0
  /\ filters = [c \in Clients |-> 0] /\ clients = Clients
  /\ exists = [u \in Usecases |-> FALSE]
  /\ running = [u \in Usecases |-> FALSE]
  /\ leg = [l \in Legs |-> FreshLeg]
  /\ rate = PortRate
  /\ pal = SilentPal
  /\ leftover = [paths |-> {}, watching |-> {}]
  /\ stale = FALSE /\ aborted = FALSE

-----------------------------------------------------------------------------
(* BtConnect                                                                *)

(* init_btsink, init_btsco: the PAL call that fails, or "ok".               *)
InitOutcomes(u) ==
  {"ok"} \union (Failures \cap IF u = "bta2dp" THEN {"connect_in"}
                               ELSE {"connect_in", "connect_out", "sco", "wb"})

(* Nothing of what was done before the failure is undone.                   *)
PalAfterInit(u, out) ==
  [pal EXCEPT
     !.connected = @ \union CASE out = "connect_in"  -> {}
                              [] out = "connect_out" -> {"sco_in"}
                              [] OTHER               -> DevicesOf(u),
     !.sco = @ \/ (u = "btsco" /\ out \in {"wb", "ok"}),
     !.speech = IF u = "btsco" /\ out = "ok" THEN Speech(PortRate) ELSE @]

(* The new session: the first one makes its connection watched, its object  *)
(* path is numbered by the count, and must be new.                          *)
AddSession(u, c) ==
  /\ count' = count + 1
  /\ filters' = IF count = 0 THEN [filters EXCEPT ![c] = @ + 1] ELSE filters
  /\ IF count + 1 \in Registered \union leftover.paths
     THEN aborted' = TRUE /\ UNCHANGED path
     ELSE path' = [path EXCEPT ![u] = count + 1] /\ UNCHANGED aborted

BtConnect(c, u) ==
  /\ c \in clients
  /\ path[u] = 0
  /\ count = 0 => filters[c] < MaxFilters            \* bound
  /\ \E out \in InitOutcomes(u) :
       /\ pal' = PalAfterInit(u, out)
       /\ IF out = "ok"
          THEN /\ exists' = [exists EXCEPT ![u] = TRUE]
               /\ running' = [running EXCEPT ![u] = FALSE]
               /\ leg' = [l \in Legs |-> IF l \in LegsOf(u) THEN FreshLeg
                                         ELSE leg[l]]
               /\ rate' = IF u = "btsco" THEN PortRate ELSE rate
               /\ AddSession(u, c)
          ELSE UNCHANGED <<exists, running, leg, rate, path, count, filters,
                           aborted>>
  /\ UNCHANGED <<clients, stale>>

-----------------------------------------------------------------------------
(* CreateLoopback                                                           *)

(* A stream whose start failed, and those started before it, are closed;    *)
(* the result of that close is not looked at.                               *)
LeftOpen(streams) == IF "close" \in Failures THEN SUBSET streams ELSE {{}}

Opened(side, streams) ==
  [side EXCEPT !.live = @ \union streams, !.muted = @ \ streams,
               !.volume = [s \in Streams |-> IF s \in streams THEN PalOwn
                                             ELSE side.volume[s]]]

(* Mutant: only the A2DP stream gets its cached volume.                     *)
LouderA2dp(side, sent, legs) ==
  IF legs = {"a2dp"}
  THEN [side EXCEPT !.volume[sent["a2dp"]] = Gain(leg["a2dp"].volume)]
  ELSE side

(* The cached volumes of legs, whose streams are in sent.                   *)
Louder(side, sent, legs) ==
  [side EXCEPT !.volume =
     [s \in Streams |-> IF \E l \in legs : sent[l] = s
                        THEN Gain(leg[CHOOSE l \in legs : sent[l] = s].volume)
                        ELSE side.volume[s]]]

VolumesSet(legs) == IF "volume" \in Failures THEN SUBSET legs ELSE {legs}

(* start_btsink: after a failed start the handle still names the stream.    *)
StartBtsink ==
  \/ "open" \in Failures /\ UNCHANGED <<leg, running, pal>>
  \/ \E s \in Streams \ pal.live :
       /\ leg' = [leg EXCEPT !["a2dp"].handle = s]
       /\ \/ /\ "a2dp_start" \in Failures
             /\ \E left \in LeftOpen({s}) : pal' = Opened(pal, left)
             /\ UNCHANGED running
          \/ /\ running' = [running EXCEPT !["bta2dp"] = TRUE]
             /\ \E set \in VolumesSet({"a2dp"}) :
                  pal' = Louder(Opened(pal, {s}), [a2dp |-> s], set)

(* start_hfp tells PAL about wide-band speech only if the rate is not the   *)
(* configured one.                                                          *)
Wideband(side) == IF rate # PortRate THEN [side EXCEPT !.speech = Speech(rate)]
                  ELSE side

(* Mutant: the receive stream stays open when there is no transmit stream.  *)
KeepsReceive(opened, nulled) ==
  /\ pal' = Wideband(Opened(pal, {opened[l] : l \in DOMAIN opened \ {"tx"}}))
  /\ leg' = [l \in Legs |-> IF l \in nulled THEN [leg[l] EXCEPT !.handle = NoStream]
                            ELSE leg[l]]
  /\ UNCHANGED running

(* Mutant: the call counts as running once its receive stream is started.   *)
RunsEarly(opened, nulled) ==
  /\ pal' = Wideband(pal)
  /\ leg' = [l \in Legs |-> IF l \in nulled THEN [leg[l] EXCEPT !.handle = NoStream]
                            ELSE leg[l]]
  /\ running' = [running EXCEPT !["btsco"] = Cardinality(nulled) > 1]

(* start_hfp gives up: the streams that it opened are closed, the handles   *)
(* in nulled are set to NULL.                                               *)
HandsFreeFails(opened, nulled) ==
  /\ \E left \in LeftOpen({opened[l] : l \in DOMAIN opened}) :
       pal' = Wideband(Opened(pal, left))
  /\ leg' = [l \in Legs |-> IF l \in nulled THEN [leg[l] EXCEPT !.handle = NoStream]
                            ELSE leg[l]]
  /\ UNCHANGED running

NothingOpened == [l \in {} |-> NoStream]

StartHfp ==
  \/ "wb" \in Failures /\ rate # PortRate /\ UNCHANGED <<leg, running, pal>>
  \/ "open" \in Failures /\ HandsFreeFails(NothingOpened, {"rx"})
  \/ \E s \in Streams \ pal.live :
       \/ "rx_start" \in Failures /\ HandsFreeFails([rx |-> s], {"rx"})
       \/ "open" \in Failures /\ HandsFreeFails([rx |-> s], {"rx", "tx"})
       \/ \E t \in Streams \ (pal.live \union {s}) :
            \/ /\ "tx_start" \in Failures
               /\ HandsFreeFails([rx |-> s, tx |-> t], {"rx", "tx"})
            \/ /\ running' = [running EXCEPT !["btsco"] = TRUE]
               /\ leg' = [leg EXCEPT !["rx"].handle = s, !["tx"].handle = t]
               /\ \E set \in VolumesSet({"rx", "tx"}) :
                    pal' = [Wideband(Louder(Opened(pal, {s, t}),
                                            [rx |-> s, tx |-> t], set))
                            EXCEPT !.rate = rate]

CreateLoopback(u) ==
  /\ Called(u)
  /\ ~running[u]
  /\ IF u = "bta2dp" THEN StartBtsink ELSE StartHfp
  /\ UNCHANGED <<path, count, filters, clients, exists, rate, stale, aborted>>

-----------------------------------------------------------------------------
(* DestroyLoopback, BtDisconnect and the death of a connection              *)

(* stop_btsink, stop_hfp: the legs that are closed; they stop at the first  *)
(* PAL call that fails, the receive leg comes first.                        *)
StopOutcomes(u) ==
  {LegsOf(u)} \union (IF Failures \cap {"stop", "close"} = {} THEN {}
                      ELSE IF u = "bta2dp" THEN {{}} ELSE {{}, {"rx"}})

(* Mutant: the handles are not reset.                                       *)
Cleared(closed) == leg

Closed(closed) == [l \in Legs |-> IF l \in closed
                                  THEN [leg[l] EXCEPT !.handle = NoStream]
                                  ELSE leg[l]]

DestroyLoopback(u) ==
  /\ Called(u)
  /\ running[u]
  /\ running' = [running EXCEPT ![u] = FALSE]
  /\ \E closed \in StopOutcomes(u) :
       /\ leg' = Closed(closed)
       /\ pal' = [pal EXCEPT !.live = @ \ Handles(closed)]
  /\ stale' = (stale \/ ~(Handles(LegsOf(u)) \subseteq pal.live))
  /\ UNCHANGED <<path, count, filters, clients, exists, rate, aborted>>

(* deinit_btsink, deinit_btsco: the legs closed, the devices that stay      *)
(* connected, and whether SCO was turned off.                               *)
DeinitOutcomes(u) ==
  [closed : IF running[u] THEN StopOutcomes(u) ELSE {{}},
   kept   : IF "disconnect" \in Failures THEN SUBSET DevicesOf(u) ELSE {{}},
   off    : MayFail("sco")]

(* Mutant: SCO is left on.                                                  *)
ScoKept(side, u, out) ==
  IF ~exists[u] THEN side
  ELSE [side EXCEPT !.live = @ \ Handles(out.closed),
                    !.connected = @ \ (DevicesOf(u) \ out.kept)]

AfterDeinit(side, u, out) ==
  IF ~exists[u] THEN side
  ELSE [side EXCEPT !.live = @ \ Handles(out.closed),
                    !.connected = @ \ (DevicesOf(u) \ out.kept),
                    !.sco = @ /\ ~(u = "btsco" /\ out.off)]

(* The use cases' data and session objects are freed.                       *)
EndSessions(us) ==
  /\ path' = [u \in Usecases |-> IF u \in us THEN 0 ELSE path[u]]
  /\ exists' = [u \in Usecases |-> exists[u] /\ u \notin us]
  /\ running' = [u \in Usecases |-> running[u] /\ u \notin us]
  /\ leg' = [l \in Legs |-> IF UsecaseOf(l) \in us THEN FreshLeg ELSE leg[l]]
  /\ rate' = IF "btsco" \in us THEN PortRate ELSE rate

(* dbus_connection_remove_filter: libdbus may stop a process that removes   *)
(* a filter the connection does not have.                                   *)
RemoveFilter(c) ==
  IF filters[c] > 0
  THEN filters' = [filters EXCEPT ![c] = @ - 1] /\ UNCHANGED aborted
  ELSE aborted' = DBusChecks /\ UNCHANGED filters

(* Mutant: the filter is removed with any session.                          *)
UnwatchAlways(c) ==
  /\ count' = count - 1
  /\ filters' = [filters EXCEPT ![c] = IF @ > 0 THEN @ - 1 ELSE @]
  /\ UNCHANGED aborted

(* The last session takes the filter with it, off the connection that asks. *)
DropSession(c) ==
  /\ count' = count - 1
  /\ IF count = 1 THEN RemoveFilter(c) ELSE UNCHANGED <<filters, aborted>>

BtDisconnect(c, u) ==
  /\ c \in clients
  /\ path[u] # 0
  /\ \E out \in DeinitOutcomes(u) : pal' = AfterDeinit(pal, u, out)
  /\ EndSessions({u})
  /\ DropSession(c)
  /\ UNCHANGED <<clients, stale>>

(* A connection dies: if it has the filter, every use case is shut down and *)
(* every session ends, whoever connected it.                                *)
Disconnected(c) ==
  /\ c \in clients
  /\ clients' = clients \ {c}
  /\ filters' = [filters EXCEPT ![c] = 0]
  /\ IF filters[c] > 0
     THEN /\ \E a \in DeinitOutcomes("bta2dp"), h \in DeinitOutcomes("btsco") :
               pal' = AfterDeinit(AfterDeinit(pal, "bta2dp", a), "btsco", h)
          /\ EndSessions(Usecases)
          /\ count' = count - Cardinality(Sessions)
     ELSE UNCHANGED <<pal, path, exists, running, leg, rate, count>>
  /\ UNCHANGED <<stale, aborted>>

Reconnect(c) ==
  /\ c \notin clients
  /\ clients' = clients \union {c}
  /\ UNCHANGED <<path, count, filters, exists, running, leg, rate, pal, stale,
                 aborted>>

-----------------------------------------------------------------------------
(* Volume, mute and sample rate of a session                                *)

SetVolume(l, v) ==
  LET s == leg[l].handle IN
  /\ Called(UsecaseOf(l))
  /\ leg' = [leg EXCEPT ![l].volume = v]
  /\ \E done \in MayFail("volume") :
       pal' = IF done /\ s \in pal.live THEN [pal EXCEPT !.volume[s] = Gain(v)]
              ELSE pal
  /\ stale' = (stale \/ s \notin pal.live \union {NoStream})
  /\ UNCHANGED <<path, count, filters, clients, exists, running, rate, aborted>>

(* pal_stream_set_mute needs a stream; the flag follows its answer.         *)
MuteCached(l, m, done) == IF done THEN [leg EXCEPT ![l].mute = m] ELSE leg

SetMute(l, m) ==
  LET s == leg[l].handle IN
  /\ Called(UsecaseOf(l))
  /\ \E ok \in MayFail("mute") :
       LET done == ok /\ s \in pal.live IN
       /\ leg' = MuteCached(l, m, done)
       /\ pal' = IF ~done THEN pal
                 ELSE [pal EXCEPT !.muted = IF m THEN @ \union {s} ELSE @ \ {s}]
  /\ stale' = (stale \/ s \notin pal.live \union {NoStream})
  /\ UNCHANGED <<path, count, filters, clients, exists, running, rate, aborted>>

(* Only cached; the next start uses it.                                     *)
SetSampleRate(r) ==
  /\ Called("btsco")
  /\ rate' = r
  /\ UNCHANGED <<path, count, filters, clients, exists, running, leg, pal, stale,
                 aborted>>

-----------------------------------------------------------------------------
(* Unloading                                                                *)

(* pa_pal_loopback_deinit frees the module data and removes the object of   *)
(* the module, but no session and no filter; the rest of the unload resets  *)
(* PAL and takes btsink and btsco with the code.  Then it is loaded again.  *)
Reload ==
  /\ Unloads
  /\ leftover' = [paths    |-> leftover.paths \union Registered,
                  watching |-> leftover.watching \union
                             {c \in clients : filters[c] > 0}]
  /\ path' = [u \in Usecases |-> 0] /\ count' = 0
  /\ filters' = [c \in Clients |-> 0]
  /\ exists' = [u \in Usecases |-> FALSE]
  /\ running' = [u \in Usecases |-> FALSE]
  /\ leg' = [l \in Legs |-> FreshLeg]
  /\ rate' = PortRate /\ pal' = SilentPal
  /\ UNCHANGED <<clients, stale, aborted>>

(* A call of a session that is left, or a message on a connection with a    *)
(* filter that is left, reaches code that is gone.                          *)
ReachLeft ==
  /\ (leftover.paths # {} /\ clients # {}) \/ leftover.watching \cap clients # {}
  /\ aborted' = TRUE
  /\ UNCHANGED <<path, count, filters, clients, exists, running, leg, rate, pal,
                 leftover, stale>>

Handler ==
  \/ \E c \in Clients, u \in Usecases : BtConnect(c, u)
  \/ \E u \in Usecases : CreateLoopback(u)
  \/ \E u \in Usecases : DestroyLoopback(u)
  \/ \E c \in Clients, u \in Usecases : BtDisconnect(c, u)
  \/ \E c \in Clients : Disconnected(c)
  \/ \E c \in Clients : Reconnect(c)
  \/ \E l \in Legs, v \in Volumes : SetVolume(l, v)
  \/ \E l \in Legs, m \in BOOLEAN : SetMute(l, m)
  \/ \E r \in Rates : SetSampleRate(r)

(* A connection takes its filters along when it dies.                       *)
Next ==
  /\ ~aborted
  /\ \/ Handler /\ leftover' = [leftover EXCEPT !.watching = @ \cap clients']
     \/ Reload \/ ReachLeft

Spec == Init /\ [][Next]_vars

-----------------------------------------------------------------------------
(* Properties                                                               *)

Sides == [live : SUBSET Streams, volume : [Streams -> Gains \union {PalOwn}],
          muted : SUBSET Streams, connected : SUBSET Devices,
          sco : BOOLEAN, speech : {"nb", "wb"}, rate : Rates]

TypeOK ==
  /\ path \in [Usecases -> 0..Cardinality(Usecases)]
  /\ count \in 0..Cardinality(Usecases)
  /\ filters \in [Clients -> Nat] /\ clients \subseteq Clients
  /\ exists \in [Usecases -> BOOLEAN] /\ running \in [Usecases -> BOOLEAN]
  /\ leg \in [Legs -> [handle : Streams \union {NoStream},
                       volume : Volumes \union {DefaultVolume}, mute : BOOLEAN]]
  /\ rate \in Rates
  /\ pal \in Sides
  /\ leftover \in [paths : SUBSET (1..Cardinality(Usecases)),
                  watching : SUBSET Clients]
  /\ stale \in BOOLEAN /\ aborted \in BOOLEAN

(* A session object is there exactly while its use case's data is: no       *)
(* handler of a session, which uses btsink and btsco unchecked, meets NULL; *)
SessionHasUsecase == aborted \/ \A u \in Usecases : exists[u] <=> path[u] # 0

(* the session count, which decides about the filter and the object paths,  *)
(* is the number of sessions, whoever ends them and in whatever order;      *)
CountIsSessions ==
  aborted \/ count = (IF path["bta2dp"] # 0 THEN 1 ELSE 0)
                     + (IF path["btsco"] # 0 THEN 1 ELSE 0)

(* while there are sessions, the filter is on a connection that is up: some *)
(* client's death still shuts them down;                                    *)
SessionsWatched ==
  aborted \/ count = 0 \/ \E c \in clients : filters[c] > 0

(* where libdbus checks, it is on no other and there once, and without      *)
(* sessions nothing leads to the module data, which may be freed.           *)
WatchedOnce ==
  DBusChecks =>
    aborted \/ \A c \in Clients : filters[c] > 0 =>
                 /\ count > 0 /\ filters[c] = 1
                 /\ \A d \in Clients \ {c} : filters[d] = 0

(* However clients connect, end and die, the four records of the sessions   *)
(* agree: objects, use cases, count and filter.                             *)
SessionsAgree ==
  SessionHasUsecase /\ CountIsSessions /\ SessionsWatched /\ WatchedOnce

(* A running use case has an open PAL stream of its own on each leg,        *)
(* whatever was started, stopped or lost before.                            *)
RunningOwnsStreams ==
  \A l \in Legs : running[UsecaseOf(l)] =>
    /\ leg[l].handle \in pal.live
    /\ \A k \in Legs \ {l} : running[UsecaseOf(k)] => leg[k].handle # leg[l].handle

(* Where PAL does not refuse to stop or close: every open stream is the one *)
(* of a leg, so that it will be closed; none is lost by a half failed start. *)
StreamsOwned == pal.live \subseteq Handles(Legs)

(* Where the A2DP stream always starts: PAL never gets the handle of a      *)
(* closed stream, whatever sessions are restarted, ended or half started.   *)
NoStaleCall == ~stale

(* Where PAL takes every volume: what runs plays as the session was told,   *)
(* before the start or after.  Its volume is the one asked for, what PAL    *)
(* has muted is reported as muted, and a call whose rate is not the         *)
(* configured one has wide-band speech on for 16000 and off for 8000.       *)
PlaysAsTold ==
  /\ \A l \in Legs : running[UsecaseOf(l)] =>
       /\ pal.volume[leg[l].handle] = Gain(leg[l].volume)
       /\ leg[l].handle \in pal.muted => leg[l].mute
  /\ running["btsco"] /\ pal.rate # PortRate => pal.speech = Speech(pal.rate)

(* Where PAL refuses no close, no disconnection and nothing half way        *)
(* through a connect: without sessions no device is connected, SCO is off   *)
(* and no stream is open.                                                   *)
NoSessionIsClean ==
  Sessions = {} /\ ~aborted => pal.connected = {} /\ ~pal.sco /\ pal.live = {}

(* What clients know of the sessions, and what is heard.                    *)
Session == [u \in Usecases |-> IF path[u] = 0 THEN "none"
                               ELSE IF running[u] THEN "playing" ELSE "idle"]
ToldVolume == [l \in Legs |-> IF path[UsecaseOf(l)] = 0 THEN DefaultVolume
                              ELSE leg[l].volume]
ToldRate == IF path["btsco"] = 0 THEN PortRate ELSE rate
HeardGain == [l \in Legs |-> IF leg[l].handle \in pal.live
                             THEN pal.volume[leg[l].handle] ELSE NoStream]
HeardMuted == {l \in Legs : leg[l].handle \in pal.live \cap pal.muted}
CallRate == IF Session["btsco"] = "playing" THEN pal.rate ELSE 0

Calls == INSTANCE LoopbackCalls WITH
  Silent <- NoStream, session <- Session, volume <- ToldVolume, gain <- HeardGain,
  muted <- HeardMuted, rate <- ToldRate, call <- CallRate

(* Where PAL closes every stream, takes every volume and always starts the  *)
(* A2DP stream, the use cases keep apart as LoopbackCalls says: whatever is *)
(* started, half started, stopped or lost, a session's calls change what is *)
(* heard on its own legs only, and a leg is heard as that session was told. *)
UsecasesKeepApart == Calls!Spec

(* pal-loopback.c:334 asserts that a new session's object path is new.      *)
NeverAborts == ~aborted

=============================================================================
