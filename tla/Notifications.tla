---------------------------- MODULE Notifications ----------------------------
(***************************************************************************)
(* Alerts and their settings: src/src/notifications.rs, and the row of     *)
(* settings in src/src/history.rs.  The settings live in memory and in the *)
(* database; a request reads the memory, merges, validates, saves and only *)
(* then changes the memory, so requests overlap.  An optional text is      *)
(* whether it is present, the thresholds and the choice of alerts are left *)
(* out.  Of the history only matters whether a store is in the slot.       *)
(***************************************************************************)
EXTENDS Naturals, FiniteSets

CONSTANTS AlertCapacity,
          Request,                  \* concurrent requests that save settings
          Inputs                    \* the settings they ask for

VARIABLES available,                \* whether a store is in SharedHistory
          handshake,                \* status of wireguard.handshake as announced
          settings, saved,          \* in memory, and in the database
          updates,                  \* the requests in progress
          alerts,                   \* queued for the delivery worker
          above,                    \* was_above of the RTT monitor
          diverged                  \* why memory and database may differ, and
                                    \* whether requests ever overlapped

alert_vars == <<available, handshake, settings, saved, updates, alerts, above, diverged>>

Settings == [enabled : BOOLEAN, provider : {"Discord", "Slack", "Telegram", "Generic"},
             webhook_url : BOOLEAN, telegram_chat_id : BOOLEAN, hmac_secret : BOOLEAN]
Default == [enabled |-> FALSE, provider |-> "Discord", webhook_url |-> FALSE,
            telegram_chat_id |-> FALSE, hmac_secret |-> FALSE]
NoRequest == [at |-> "idle", settings |-> Default, alone |-> FALSE]

ASSUME AlertsAssumption == AlertCapacity \in Nat \ {0} /\ Inputs \subseteq Settings

validate(s) ==
    LET configured == s.enabled \/ s.webhook_url
    IN /\ configured => s.webhook_url
       /\ s.provider = "Telegram" /\ configured => s.telegram_chat_id
       /\ s.provider # "Generic" => ~s.hmac_secret

merge(input, current) == [input EXCEPT
    !.webhook_url = @ \/ current.webhook_url,
    !.telegram_chat_id = input.provider = "Telegram" /\ (@ \/ current.telegram_chat_id),
    !.hmac_secret = input.provider = "Generic" /\ (@ \/ current.hmac_secret)]

enqueue == alerts' = IF alerts < AlertCapacity THEN alerts + 1 ELSE alerts
Alert(raised) == IF settings.enabled /\ raised THEN enqueue ELSE UNCHANGED alerts

\* start and stack_started: the stored settings are read, or the alerts start
\* disabled because there is no store or it cannot be read.
AlertsInit ==
    /\ available \in BOOLEAN /\ handshake = "Pending" /\ above = FALSE
    /\ saved \in {s \in {Default} \cup Inputs : validate(s)}
    /\ updates = [u \in Request |-> NoRequest]
    /\ \/ available /\ settings = saved /\ diverged = {}
       \/ settings = Default /\ diverged = {"unread"}
    /\ alerts = IF settings.enabled THEN 1 ELSE 0

\* The supervisor and the queries fill and empty the slot.
HistoryChanges ==
    /\ available' = ~available
    /\ UNCHANGED <<handshake, settings, saved, updates, alerts, above, diverged>>

\* monitor_transitions: a transition of the handshake, or of another component
transition ==
    /\ \E to \in {"Healthy", "Failed"} :
          /\ to # handshake
          /\ handshake' = to
          /\ Alert(to = "Failed" \/ handshake = "Failed")
    /\ UNCHANGED <<available, settings, saved, updates, above, diverged>>

diagnostic_failed ==
    /\ Alert(TRUE)
    /\ UNCHANGED <<available, handshake, settings, saved, updates, above, diverged>>

\* The monitor lagged: the transition it missed raises no alert.
Lagged ==
    /\ handshake' \in {"Healthy", "Failed"} \ {handshake}
    /\ UNCHANGED <<available, settings, saved, updates, alerts, above, diverged>>

rtt_sample ==
    /\ \E now \in BOOLEAN : Alert(now /\ ~above) /\ above' = now
    /\ UNCHANGED <<available, handshake, settings, saved, updates, diverged>>

\* delivery_worker: an alert is sent with the settings of that moment, and
\* dropped if it cannot be sent
delivery_worker ==
    /\ alerts > 0 /\ alerts' = alerts - 1
    /\ UNCHANGED <<available, handshake, settings, saved, updates, above, diverged>>
----------------------------------------------------------------------------
InProgress == {u \in Request : updates[u].at # "idle"}
Others == <<available, handshake, alerts, above>>

\* update: current, merge, validate
BeginUpdate(u) ==
    /\ u \notin InProgress
    /\ \E input \in Inputs :
          LET wanted == merge(input, settings)
          IN updates' = IF ~validate(wanted) THEN updates
                        ELSE [v \in Request |->
                                IF v = u THEN [at |-> "save", settings |-> wanted,
                                               alone |-> InProgress = {}]
                                ELSE [updates[v] EXCEPT !.alone = FALSE]]
    /\ UNCHANGED <<settings, saved, diverged, Others>>

\* save_notification_settings: one statement, which needs a store
SaveSettings(u, ok) ==
    /\ updates[u].at = "save"
    /\ ok => available
    /\ saved' = IF ok THEN updates[u].settings ELSE saved
    /\ updates' = [updates EXCEPT ![u] = IF ok THEN [@ EXCEPT !.at = "apply"] ELSE NoRequest]
    /\ UNCHANGED <<settings, diverged, Others>>

\* A request that met no other leaves memory and database equal.
Settled(u) == IF updates[u].alone THEN diverged \cap {"overlapped"}
              ELSE diverged \cup {"overlap", "overlapped"}

\* Planted fault: what is put in memory is merged again.
FaultyApplySettings(u) ==
    /\ updates[u].at = "apply"
    /\ settings' = [updates[u].settings EXCEPT !.enabled = @ \/ settings.enabled]
    /\ updates' = [updates EXCEPT ![u] = NoRequest]
    /\ diverged' = Settled(u)
    /\ UNCHANGED <<saved, Others>>

ApplySettings(u) ==
    /\ updates[u].at = "apply"
    /\ settings' = updates[u].settings
    /\ updates' = [updates EXCEPT ![u] = NoRequest]
    /\ diverged' = Settled(u)
    /\ UNCHANGED <<saved, Others>>

\* The client goes away and the handler is dropped at its await.
DropUpdate(u) ==
    /\ u \in InProgress
    /\ updates' = [updates EXCEPT ![u] = NoRequest]
    /\ diverged' = IF updates[u].at = "apply" THEN diverged \cup {"dropped"} ELSE diverged
    /\ UNCHANGED <<settings, saved, Others>>

AlertsNext ==
    \/ HistoryChanges \/ transition \/ diagnostic_failed \/ Lagged \/ rtt_sample
    \/ delivery_worker
    \/ \E u \in Request : \/ BeginUpdate(u) \/ ApplySettings(u) \/ DropUpdate(u)
                          \/ \E ok \in BOOLEAN : SaveSettings(u, ok)

AlertsSpec == AlertsInit /\ [][AlertsNext]_alert_vars
----------------------------------------------------------------------------
\* Settings, in memory and saved, are settings, and the queue keeps its bound.
AlertsTypeOK ==
    /\ settings \in Settings /\ saved \in Settings /\ alerts \in 0 .. AlertCapacity
    /\ \A u \in Request : updates[u].settings \in Settings

\* update: with no request in progress the settings in memory are the stored
\* ones, unless requests overlapped, one was dropped after its save, or the
\* stored settings were not read at the start.
SettingsAgree == (InProgress = {} /\ diverged \subseteq {"overlapped"}) => settings = saved
==============================================================================
