------------------------------ MODULE HttpAnswers ------------------------------
(***************************************************************************)
(* What an event may be answered with: the capabilities a handler is told  *)
(* of (capabilities/matrix.py) and the serialisation of its answer         *)
(* (_serialize of integrations/fastapi/router.py, transports/http/         *)
(* response.py).  A payload is a record of its type and, for a mapping,    *)
(* whether JSON can express it.                                            *)
(***************************************************************************)
EXTENDS Interactions

RequestsDialog(event) ==
    event.class = "ActionEvent" /\ event.dialog = "REQUEST_DIALOG"

can_open_dialog(event) == event.class = "CommandEvent" \/ RequestsDialog(event)

UpdatesUserCards(event) ==
    \/ event.class = "ActionEvent" /\ event.sender_type = "HUMAN"
    \/ event.class = "MessageEvent" /\ event.matched_url # None

UpdatesBotCards(event) == event.class = "ActionEvent" /\ event.sender_type = "BOT"

\* Faulty: any message advertises dialogs.
ResolveForMessages(transport, event) ==
    IF transport = "pubsub" THEN {}
    ELSE {"SYNC_RESPONSE"} \cup
         {c \in {"DIALOGS"} : can_open_dialog(event) \/ event.class = "MessageEvent"}

\* ResponseCapabilities.resolve
Resolve(transport, event) ==
    IF transport = "pubsub" THEN {}
    ELSE {"SYNC_RESPONSE"} \cup
         {c \in {"DIALOGS"} : can_open_dialog(event)} \cup
         {c \in {"APP_HOME"} : event.class \in {"AppHomeEvent", "FormSubmitEvent"}} \cup
         {c \in {"UPDATE_WIDGET"} : event.class = "WidgetUpdatedEvent"} \cup
         {c \in {"CARD_UPDATE_BOT"} : UpdatesBotCards(event)} \cup
         {c \in {"CARD_UPDATE_USER"} : UpdatesUserCards(event)}

--------------------------------------------------------------------------------
PayloadTypes ==
    {"none", "text", "raw", "mapping", "dialog", "status", "card", "autocomplete", "config", "other"}

SubmitsDialog(event) == event.class = "ActionEvent" /\ event.dialog = "SUBMIT_DIALOG"

\* _serialize raises TypeError.
Unserializable(payload, event) ==
    /\ payload.type # "none"
    /\ \/ event.class = "RemovedFromSpaceEvent"
       \/ payload.type \in {"raw", "mapping"} /\ ~payload.json
       \/ payload.type = "dialog" /\ ~can_open_dialog(event)
       \/ payload.type = "status" /\ ~SubmitsDialog(event)
       \/ /\ payload.type = "card" /\ event.class = "ActionEvent"
          /\ event.sender_type \notin {"BOT", "HUMAN"}
       \/ payload.type = "autocomplete" /\ event.class # "WidgetUpdatedEvent"
       \/ payload.type = "other"

\* A card that is a new message names no action.
ASSUME CardActionsAssumption ==
    None \notin {"pushCard", "updateCard", "UPDATE_USER_MESSAGE_CARDS", "UPDATE_MESSAGE"}

\* The actionResponse.type of a card, None when it is a new message.
CardAction(event) ==
    CASE event.class = "AppHomeEvent" -> "pushCard"
      [] event.class = "FormSubmitEvent" -> "updateCard"
      [] UpdatesUserCards(event) -> "UPDATE_USER_MESSAGE_CARDS"
      [] UpdatesBotCards(event) -> "UPDATE_MESSAGE"
      [] OTHER -> None

\* The kind of body that goes over the wire.
_serialize(payload, event) ==
    CASE payload.type = "none" -> "empty"
      [] payload.type = "text" -> "text"
      [] payload.type \in {"raw", "mapping"} -> "as given"
      [] payload.type \in {"dialog", "status"} -> "DIALOG"
      [] payload.type = "card" -> CardAction(event)
      [] payload.type = "autocomplete" -> "UPDATE_WIDGET"
      [] payload.type = "config" -> "REQUEST_CONFIG"
===============================================================================
