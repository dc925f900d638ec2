------------------------------ MODULE Gateway ------------------------------
(***************************************************************************)
(* The gateway's main loop (demos/gateway/src/main.c) around its spool:    *)
(* every 500 ms it samples the MQTT session, reconnects when it is time    *)
(* to, takes the queued child lines and now and then a record of its own - *)
(* each published when connected, spooled when not - and then drains a few *)
(* spooled records.  C2D commands (here spool-wipe) run on the SDK's MQTT  *)
(* thread in between, and the uplink comes and goes.                       *)
(***************************************************************************)
EXTENDS Spool, Sequences

CONSTANTS
    DRAIN_PER_TICK,
    ReconnectTicks,   \* RECONNECT_PERIOD_SEC in main-loop ticks
    InboxSize,        \* lines a UART ring holds
    DropPoints,       \* where in the loop the uplink may fail
    SilentFailures    \* whether the session can outlive the uplink

Pcs == {"off", "bringup", "exited", "tick", "ingest", "report",
        "peek", "send", "commit", "sleep"}

ASSUME LoopAssumption ==
    /\ DRAIN_PER_TICK \in Nat \ {0}
    /\ ReconnectTicks \in Nat /\ InboxSize \in Nat
    /\ DropPoints \subseteq Pcs
    /\ SilentFailures \in BOOLEAN

VARIABLES
    pc,           \* where main() is
    connected,    \* main()'s local of that name, sampled once per tick
    since,        \* ticks since last_reconnect, up to ReconnectTicks
    budget,       \* drain iterations left in this tick
    inbox,        \* lines waiting in the UART rings
    network,      \* the uplink carries traffic
    session,      \* iotconnect_sdk_is_connected()
    (* History. *)
    taken,        \* records the main loop has produced
    dropped,      \* those it gave up: not parseable, or the spool is offline
    sends,        \* publish_raw calls for each record
    received      \* records the platform has

loopVars == <<pc, connected, since, budget>>
linkVars == <<network, session>>
cloudVars == <<taken, dropped, sends, received>>
gatewayVars == <<vars, loopVars, inbox, linkVars, cloudVars>>

GatewayTypeOK ==
    /\ TypeOK
    /\ pc \in Pcs
    /\ connected \in BOOLEAN
    /\ since \in 0 .. ReconnectTicks
    /\ budget \in 0 .. DRAIN_PER_TICK
    /\ inbox \in Seq(Records)
    /\ network \in BOOLEAN /\ session \in BOOLEAN
    /\ taken \subseteq Records /\ dropped \subseteq Records
    /\ received \subseteq Records
    /\ sends \in [Records -> Nat]

GatewayInit ==
    /\ Init
    /\ pc = "off" /\ connected = FALSE /\ since = ReconnectTicks /\ budget = 0
    /\ inbox = <<>>
    /\ network \in BOOLEAN /\ session = FALSE
    /\ taken = {} /\ dropped = {} /\ received = {}
    /\ sends = [r \in Records |-> 0]

Goto(from, to) == pc = from /\ pc' = to

----------------------------------------------------------------------------
(* main() up to its loop. *)

Start ==
    /\ Goto("off", "bringup")
    /\ SpoolInit
    /\ UNCHANGED <<connected, since, budget, inbox, linkVars, cloudVars>>

(* network_up waits as long as it takes for a link ... *)
BringUp ==
    /\ network
    /\ Goto("bringup", "tick")
    /\ UNCHANGED <<vars, connected, since, budget, inbox, linkVars, cloudVars>>

(* ... but when there is one and SNTP or the SDK's discovery does not      *)
(* answer over it, main() returns for good.                                *)
BringUpFails ==
    /\ ~network
    /\ Goto("bringup", "exited")
    /\ UNCHANGED <<vars, connected, since, budget, inbox, linkVars, cloudVars>>

----------------------------------------------------------------------------
(* The loop. *)

AtMost(n, limit) == IF n <= limit THEN n ELSE limit

(* Altered: the reconnect period starts over at every tick. *)
TickPeriodRestarts ==
    /\ Goto("tick", "ingest")
    /\ IF ~session /\ since = ReconnectTicks
       THEN session' = network
       ELSE UNCHANGED session
    /\ since' = 0
    /\ connected' = session'
    /\ UNCHANGED <<vars, budget, inbox, network, cloudVars>>

(* Sample the session, and connect when it is down and the period is over. *)
Tick ==
    /\ Goto("tick", "ingest")
    /\ IF ~session /\ since = ReconnectTicks
       THEN /\ session' = network
            /\ since' = 0
       ELSE /\ since' = AtMost(since + 1, ReconnectTicks)
            /\ UNCHANGED session
    /\ connected' = session'
    /\ UNCHANGED <<vars, budget, inbox, network, cloudVars>>

(* publish_raw ignores the result of the publish. *)
PublishRaw(r) ==
    /\ sends' = [sends EXCEPT ![r] = @ + 1]
    /\ received' = IF session /\ network THEN received \cup {r} ELSE received

(* spool_push, its result ignored, unless the spool never came up. *)
SpoolOrLose(r) ==
    \/ /\ ready
       /\ Push(r) \/ PushFails(r) \/ PushTooLong(r)
       /\ UNCHANGED dropped
    \/ /\ ~ready
       /\ dropped' = dropped \cup {r}
       /\ UNCHANGED vars

(* Publish live when connected, spool otherwise. *)
PublishOrSpool(r) ==
    /\ taken' = taken \cup {r}
    /\ \/ /\ connected
          /\ PublishRaw(r)
          /\ UNCHANGED <<vars, dropped>>
       \/ /\ ~connected
          /\ SpoolOrLose(r)
          /\ UNCHANGED <<sends, received>>

Ingest ==
    /\ pc = "ingest" /\ inbox # <<>>
    /\ inbox' = Tail(inbox)
    /\ PublishOrSpool(Head(inbox))
    /\ UNCHANGED <<loopVars, linkVars>>

(* build_child_record cannot parse the line. *)
IngestBad ==
    /\ pc = "ingest" /\ inbox # <<>>
    /\ inbox' = Tail(inbox)
    /\ dropped' = dropped \cup {Head(inbox)}
    /\ UNCHANGED <<vars, loopVars, linkVars, taken, sends, received>>

IngestDone ==
    /\ Goto("ingest", "report")
    /\ inbox = <<>>
    /\ UNCHANGED <<vars, connected, since, budget, inbox, linkVars, cloudVars>>

Unused == Records \ (taken \cup dropped \cup {inbox[i] : i \in DOMAIN inbox})

(* Altered: the drain does not ask whether the session is up. *)
AfterReportDrainsAnyway == IF ready THEN "peek" ELSE "sleep"

AfterReport == IF connected /\ ready THEN "peek" ELSE "sleep"

(* publish_or_spool_gateway, when the interval is over ... *)
Report ==
    /\ Goto("report", AfterReport)
    /\ budget' = DRAIN_PER_TICK
    /\ \E r \in Unused : PublishOrSpool(r)
    /\ UNCHANGED <<connected, since, inbox, linkVars>>

(* ... and when it is not. *)
NotDue ==
    /\ Goto("report", AfterReport)
    /\ budget' = DRAIN_PER_TICK
    /\ UNCHANGED <<vars, connected, since, inbox, linkVars, cloudVars>>

(* Altered: the drain is not limited to DRAIN_PER_TICK ... *)
DrainPeekUnlimited ==
    /\ rec_count > 0
    /\ Peek
    /\ Goto("peek", IF spool_out' # None THEN "send" ELSE "sleep")
    /\ UNCHANGED <<connected, since, budget, inbox, linkVars, cloudVars>>

(* ... or commits before it publishes. *)
DrainPeekCommitsFirst ==
    /\ budget > 0 /\ rec_count > 0
    /\ Peek
    /\ Goto("peek", IF spool_out' # None THEN "commit" ELSE "sleep")
    /\ UNCHANGED <<connected, since, budget, inbox, linkVars, cloudVars>>

DrainPeek ==
    /\ budget > 0 /\ rec_count > 0
    /\ Peek
    /\ Goto("peek", IF spool_out' # None THEN "send" ELSE "sleep")
    /\ UNCHANGED <<connected, since, budget, inbox, linkVars, cloudVars>>

DrainDone ==
    /\ budget = 0 \/ rec_count = 0
    /\ Goto("peek", "sleep")
    /\ UNCHANGED <<vars, connected, since, budget, inbox, linkVars, cloudVars>>

DrainSend ==
    /\ Goto("send", "commit")
    /\ PublishRaw(spool_out)
    /\ UNCHANGED <<vars, connected, since, budget, inbox, linkVars, taken, dropped>>

(* Altered: the commit is forgotten. *)
DrainCommitForgotten ==
    /\ Goto("commit", "peek")
    /\ spool_out' = None
    /\ budget' = budget - 1
    /\ UNCHANGED <<booted, ready, head_seq, tail_seq, rec_count, stats, diskVars,
                   historyVars, reboots, connected, since, inbox, linkVars, cloudVars>>

DrainCommit ==
    /\ Goto("commit", "peek")
    /\ Commit
    /\ budget' = budget - 1
    /\ UNCHANGED <<connected, since, inbox, linkVars, cloudVars>>

Sleep ==
    /\ Goto("sleep", "tick")
    /\ UNCHANGED <<vars, connected, since, budget, inbox, linkVars, cloudVars>>

MainLoop ==
    \/ Start \/ BringUp
    \/ Tick
    \/ Ingest \/ IngestBad \/ IngestDone
    \/ Report \/ NotDue
    \/ DrainPeek \/ DrainDone \/ DrainSend \/ DrainCommit
    \/ Sleep

----------------------------------------------------------------------------
(* Everything else that runs. *)

(* A complete telemetry line reaches a UART ring. *)
Arrive ==
    /\ pc # "off" /\ Len(inbox) < InboxSize
    /\ \E r \in Unused : inbox' = Append(inbox, r)
    /\ UNCHANGED <<vars, loopVars, linkVars, cloudVars>>

(* The spool-wipe command, on the MQTT thread. *)
WipeCommand ==
    /\ session /\ network
    /\ Wipe
    /\ UNCHANGED <<loopVars, inbox, linkVars, cloudVars>>

NetworkFails ==
    /\ network /\ pc \in DropPoints
    /\ network' = FALSE
    /\ session' = (session /\ SilentFailures)
    /\ UNCHANGED <<vars, loopVars, inbox, cloudVars>>

NetworkReturns ==
    /\ ~network
    /\ network' = TRUE
    /\ UNCHANGED <<vars, loopVars, inbox, session, cloudVars>>

(* The SDK notices, by a keep-alive or a socket error, that the uplink is  *)
(* gone.                                                                   *)
SessionEnds ==
    /\ session /\ ~network
    /\ session' = FALSE
    /\ UNCHANGED <<vars, loopVars, inbox, network, cloudVars>>

(* A reboot command, a crash or a power cut.  A record in the middle of    *)
(* its spool_push goes with it.                                            *)
Restart ==
    /\ \/ /\ Reboot \/ PowerCut
          /\ UNCHANGED taken
       \/ /\ pc = "ingest" /\ ~connected /\ inbox # <<>>
          /\ RestartInPush(Head(inbox))
          /\ taken' = taken \cup {Head(inbox)}
       \/ /\ pc = "report" /\ ~connected
          /\ \E r \in Unused : RestartInPush(r) /\ taken' = taken \cup {r}
    /\ pc' = "off" /\ connected' = FALSE /\ since' = ReconnectTicks /\ budget' = 0
    /\ inbox' = <<>>
    /\ session' = FALSE
    /\ UNCHANGED <<network, dropped, sends, received>>

Environment ==
    BringUpFails \/ Arrive \/ WipeCommand \/ NetworkFails \/ NetworkReturns \/ SessionEnds \/ Restart

GatewayNext == MainLoop \/ Environment

GatewaySpec == GatewayInit /\ [][GatewayNext]_gatewayVars

(* main() is never starved, and a dead session is noticed in the end. *)
FairGatewaySpec ==
    GatewaySpec /\ WF_gatewayVars(MainLoop) /\ WF_gatewayVars(SessionEnds)

----------------------------------------------------------------------------
(* Properties. *)

(* "Nothing is lost" (main.c 15-20): a record the main loop took is with   *)
(* the platform, or in the spool, or was given up by the spool's own rules *)
(* (the ring was full, the operator wiped it, the power went mid-write) or *)
(* because the spool is offline.                                           *)
NothingLost ==
    \A r \in taken \ dropped :
        r \in received \/ fate[r] \in {"queued", "evicted", "wiped", "orphaned", "torn", "refused"}

(* A record is handed to the MQTT client again only after a restart, at    *)
(* most once more for each: neither the drain loop nor a wipe that runs    *)
(* between spool_peek and spool_commit publishes a record twice.           *)
SentOncePerBoot == \A r \in Records : sends[r] <= 1 + reboots

(* spool_commit removes the record that was just published, and nothing    *)
(* else, even when a spool-wipe comes between the peek and the commit.     *)
DrainsOnlyTheSent ==
    \A r \in Records :
        fate'[r] = "drained" /\ fate[r] # "drained" =>
            pc = "commit" /\ r = spool_out /\ sends[r] > 0

CommitsWhatItSent == [][DrainsOnlyTheSent]_gatewayVars

(* "On reconnect the spool drains" (main.c 17-18): once the uplink stays   *)
(* up, every spooled record leaves the spool.                              *)
BacklogDrains ==
    \A r \in Records :
        (<>[]network) => [](fate[r] = "queued" => <>(fate[r] # "queued"))
=============================================================================
