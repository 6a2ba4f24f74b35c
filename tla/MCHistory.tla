------------------------------ MODULE MCHistory ------------------------------
(***************************************************************************)
(* Instance of History and of Notifications: two handles, a queue and a    *)
(* channel small enough to overflow, three events; two requests that save  *)
(* settings, four inputs.  The two share nothing but whether a store is in *)
(* the slot, which Notifications lets change at any time.  A behaviour     *)
(* takes the steps of one of them, so their states add up and do not       *)
(* multiply.                                                               *)
(***************************************************************************)
EXTENDS History, Notifications

VARIABLE part

MCInputs ==
    {[enabled |-> TRUE, provider |-> "Generic", webhook_url |-> TRUE,
      telegram_chat_id |-> FALSE, hmac_secret |-> TRUE],
     [enabled |-> FALSE, provider |-> "Discord", webhook_url |-> FALSE,
      telegram_chat_id |-> FALSE, hmac_secret |-> FALSE],
     [enabled |-> TRUE, provider |-> "Telegram", webhook_url |-> FALSE,
      telegram_chat_id |-> TRUE, hmac_secret |-> FALSE],
     [enabled |-> FALSE, provider |-> "Telegram", webhook_url |-> FALSE,
      telegram_chat_id |-> FALSE, hmac_secret |-> FALSE]}

MCInit ==
    /\ part \in {"history", "alerts"} /\ HistoryInit /\ AlertsInit
    /\ part = "history" => available /\ saved = Default /\ diverged = {}
    /\ part = "alerts" => slot # NoStore

HistoryPart == part = "history" /\ HistoryNext /\ UNCHANGED <<part, alert_vars>>
AlertsPart == part = "alerts" /\ AlertsNext /\ UNCHANGED <<part, history_vars>>

MCFairSpec ==
    /\ MCInit /\ [][HistoryPart \/ AlertsPart]_<<part, history_vars, alert_vars>>
    /\ WF_history_vars(part = "history" /\ Supervision)
    /\ WF_history_vars(part = "history" /\ Recorder)
    /\ WF_history_vars(part = "history" /\ Answering)
    /\ \A s \in Store : WF_history_vars(part = "history" /\ Writer(s))
==============================================================================
