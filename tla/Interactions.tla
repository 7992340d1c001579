------------------------------ MODULE Interactions ------------------------------
(***************************************************************************)
(* parse_interaction (adapters/google_chat/parser.py) and the form inputs  *)
(* (inputs.py): which interactions are accepted and the event that each    *)
(* becomes, with the views that MessageEvent gives of its raw payload.     *)
(***************************************************************************)
EXTENDS Envelopes, Integers, SequencesExt

Sub(mapping, field, inner) ==
    IF IsMapping(Get(mapping, field)) THEN Get(mapping[field], inner) ELSE None

--------------------------------------------------------------------------------
\* parse_form_inputs.  A body holds the value of its field.

Variants == {"stringInputs", "dateInput", "dateTimeInput", "timeInput"}

\* What msSinceEpoch may be: a number, or a string that str.isdigit and int()
\* read differently.
EpochsRead == {"number", "digits"}
EpochsCrash == {"superscript digit"}            \* isdigit() holds, int() raises

_epochAccepted(body) == Get(body, "msSinceEpoch") \in EpochsRead

_optional_bool(body, key) == Get(body, key) \in {None, TRUE, FALSE}

TimeAccepted(body) ==
    /\ {Get(body, "hours"), Get(body, "minutes")} \cap {None, Malformed} = {}
    /\ body.hours \in 0..23 /\ body.minutes \in 0..59

_parse_valueAccepted(kind, body) ==
    CASE kind = "stringInputs" ->
            /\ Get(body, "value") \notin {None, Malformed}
            /\ \A i \in DOMAIN body.value : body.value[i] # Malformed
      [] kind = "dateInput" -> _epochAccepted(body)
      [] kind = "dateTimeInput" ->
            _optional_bool(body, "hasDate") /\ _optional_bool(body, "hasTime") /\ _epochAccepted(body)
      [] kind = "timeInput" -> TimeAccepted(body)

\* A widget holds at most one known variant; an unknown one is kept as it is.
InputAccepted(input) ==
    LET present == Variants \cap DOMAIN input
    IN  \A kind \in present :
            present = {kind} /\ IsMapping(input[kind]) /\ _parse_valueAccepted(kind, input[kind])

FormValue(input) ==
    LET present == Variants \cap DOMAIN input
    IN  IF present = {} THEN [kind |-> "UnknownFormInput", raw |-> input]
        ELSE LET kind == CHOOSE k \in present : TRUE
             IN  [ kind |-> CASE kind = "stringInputs" -> "StringInput"
                              [] kind = "dateInput" -> "DateInput"
                              [] kind = "dateTimeInput" -> "DateTimeInput"
                              [] kind = "timeInput" -> "TimeInput",
                   raw |-> input[kind] ]

parse_form_inputs(inputs) == [widget \in DOMAIN inputs |-> FormValue(inputs[widget])]

\* int() raises a ValueError that no caller takes for a malformed payload.
InputCrashes(input) ==
    \E kind \in {"dateInput", "dateTimeInput"} \cap DOMAIN input :
        /\ Variants \cap DOMAIN input = {kind} /\ IsMapping(input[kind])
        /\ Get(input[kind], "msSinceEpoch") \in EpochsCrash
        /\ kind = "dateTimeInput" =>
            _optional_bool(input[kind], "hasDate") /\ _optional_bool(input[kind], "hasTime")

--------------------------------------------------------------------------------
\* The parts that every event has.

_timestampAccepted(time) == time \in {None, "Zulu", "with offset"}

\* A dialog type and the flag that says it is a dialog event go together.
_dialogAccepted(model) ==
    IF Get(model, "dialogEventType") = None THEN Get(model, "isDialogEvent") # TRUE
    ELSE Get(model, "isDialogEvent") # FALSE

_user(model) ==
    LET user == Or(Get(model, "user"), Sub(model, "message", "sender"))
    IN  IF user = None THEN None ELSE [name |-> Get(user, "name"), type |-> Get(user, "type")]

_space(model) ==
    LET space == Or(Get(model, "space"), Sub(model, "message", "space"))
    IN  IF space = None THEN None
        ELSE [name |-> Get(space, "name"), space_type |-> Get(space, "spaceType"),
              single_user_bot_dm |-> Get(space, "singleUserBotDm")]

_thread(model) ==
    LET thread == Or(Get(model, "thread"), Sub(model, "message", "thread"))
    IN  IF thread = None THEN None
        ELSE [name |-> Get(thread, "name"), thread_key |-> Get(thread, "threadKey"),
              space |-> _space(model)]

Common(model) == IF Get(model, "common") = None THEN <<>> ELSE model.common

Base(model, raw) ==
    LET zone == Get(Common(model), "timeZone")
    IN  [ raw |-> raw, event_time |-> Get(model, "eventTime"),
          actor |-> _user(model), space |-> _space(model), thread |-> _thread(model),
          dialog |-> Get(model, "dialogEventType"),
          locale |-> Get(Common(model), "userLocale"),
          timezone |-> IF zone = None THEN None ELSE Get(zone, "id") ]

--------------------------------------------------------------------------------
\* _common_action: the common object comes first, the action is the fallback.

Mapping(field) == IF field = None THEN <<>> ELSE field

CommonParameters(model) == Mapping(Get(Common(model), "parameters"))

ActionItems(model) == Mapping(Sub(model, "action", "parameters"))

ActionParameters(model) ==
    LET items == ActionItems(model)
    IN  [key \in {items[i].key : i \in DOMAIN items} |->
            (CHOOSE item \in Range(items) : item.key = key).value]

Parameters(model) ==
    IF DOMAIN CommonParameters(model) # {} THEN CommonParameters(model) ELSE ActionParameters(model)

Function(model) ==
    OrElse(OrElse(Get(Common(model), "invokedFunction"), Sub(model, "action", "actionMethodName")), "")

FormInputs(model) == Mapping(Get(Common(model), "formInputs"))

_common_actionAccepted(model) ==
    LET items == ActionItems(model)
        common == Get(Common(model), "invokedFunction")
        fallback == Sub(model, "action", "actionMethodName")
    IN  /\ \A widget \in DOMAIN FormInputs(model) : InputAccepted(FormInputs(model)[widget])
        /\ \A i, j \in DOMAIN items : items[i].key = items[j].key => i = j
        /\ \/ DOMAIN CommonParameters(model) = {} \/ items = <<>>
           \/ CommonParameters(model) = ActionParameters(model)
        /\ {common, fallback} \cap {None, ""} = {} => common = fallback

--------------------------------------------------------------------------------
\* One operator per event type: when it is accepted and what it becomes.

\* argumentText has lost the mention and keeps the blanks around it.
Padded == (" ping " :> "ping") @@ ("  " :> "")

_argument_text(text) == IF text \in DOMAIN Padded THEN Padded[text] ELSE text

Int64Strings == ("1" :> 1) @@ ("2" :> 2)

IsSlash(model) == IsMapping(Sub(model, "message", "slashCommand"))

MessageAccepted(model) ==
    /\ IsMapping(Get(model, "message"))
    /\ IF IsSlash(model)
       THEN Get(model.message.slashCommand, "commandId") \in DOMAIN Int64Strings
       ELSE Get(model.message, "text") # None

\* A slash command is a message that names a command.
MessageFields(model) ==
    LET argument == _argument_text(Get(model.message, "argumentText"))
        text == Get(model.message, "text")
    IN  IF IsSlash(model)
        THEN [ class |-> "CommandEvent", kind |-> "SLASH_COMMAND",
               command_id |-> Int64Strings[model.message.slashCommand.commandId],
               message_text |-> IF argument # None THEN argument ELSE text,
               target_message |-> None ]
        ELSE [ class |-> "MessageEvent", text |-> text, argument_text |-> argument,
               message |-> Get(model.message, "name"),
               matched_url |-> Sub(model.message, "matchedUrl", "url"),
               sender_type |-> Sub(model.message, "sender", "type") ]

PresenceAccepted(model) == None \notin {_user(model), _space(model)}

\* Only what the envelope makes unambiguous.
_action_source(model, raw) ==
    CASE Get(model, "dialogEventType") # None -> "DIALOG"
      [] Get(model, "dialogEventType") = None /\ IsMapping(Get(raw, "chat")) -> "HOME"
      [] Get(model, "dialogEventType") = None /\ ~IsMapping(Get(raw, "chat")) ->
            IF IsMapping(Get(model, "message")) THEN "MESSAGE" ELSE None

ActionFields(model, raw) ==
    [ class |-> "ActionEvent", name |-> Function(model), parameters |-> Parameters(model),
      form_inputs |-> parse_form_inputs(FormInputs(model)),
      sender_type |-> IF IsMapping(Sub(model, "message", "sender"))
                      THEN Get(model.message.sender, "type") ELSE None,
      message |-> Sub(model, "message", "name"),
      source |-> _action_source(model, raw) ]

_app_command_kind(type) == IF type \in {"QUICK_COMMAND", "MESSAGE_ACTION"} THEN type ELSE None

AppCommandAccepted(model) ==
    None \notin {Sub(model, "appCommandMetadata", "appCommandId"),
                 Sub(model, "appCommandMetadata", "appCommandType")}

AppCommandFields(model) ==
    LET kind == _app_command_kind(model.appCommandMetadata.appCommandType)
    IN  [ class |-> "CommandEvent", kind |-> kind,
          command_id |-> model.appCommandMetadata.appCommandId,
          message_text |-> Sub(model, "message", "text"),
          target_message |-> IF kind = "MESSAGE_ACTION" THEN Sub(model, "message", "name") ELSE None ]

WidgetFields(class, model) ==
    [ class |-> class, function_name |-> Function(model), parameters |-> Parameters(model),
      form_inputs |-> parse_form_inputs(FormInputs(model)) ]

Presence ==
    [ ADDED_TO_SPACE |-> "AddedToSpaceEvent", REMOVED_FROM_SPACE |-> "RemovedFromSpaceEvent",
      APP_HOME |-> "AppHomeEvent" ]

WithForms == {"CARD_CLICKED", "WIDGET_UPDATED", "APP_COMMAND", "SUBMIT_FORM"}

\* What an event of its type needs beside what every event needs.
TypeAccepted(model) ==
    /\ model.type \in WithForms => _common_actionAccepted(model)
    /\ CASE model.type = "MESSAGE" -> MessageAccepted(model)
         [] model.type \in DOMAIN Presence -> PresenceAccepted(model)
         [] model.type \in {"CARD_CLICKED", "WIDGET_UPDATED"} -> Function(model) # ""
         [] model.type = "APP_COMMAND" -> AppCommandAccepted(model)
         [] model.type = "SUBMIT_FORM" -> PresenceAccepted(model)
         [] OTHER -> TRUE

TypeFields(model, raw) ==
    CASE model.type = "MESSAGE" -> MessageFields(model)
      [] model.type \in DOMAIN Presence -> [class |-> Presence[model.type]]
      [] model.type = "CARD_CLICKED" -> ActionFields(model, raw)
      [] model.type = "WIDGET_UPDATED" -> WidgetFields("WidgetUpdatedEvent", model)
      [] model.type = "APP_COMMAND" -> AppCommandFields(model)
      [] model.type = "SUBMIT_FORM" -> WidgetFields("FormSubmitEvent", model)
      [] OTHER -> [class |-> "UnknownEvent", original_type |-> model.type]

ModelAccepted(model) ==
    /\ WellTyped(model)
    /\ model.type \notin {"UNSPECIFIED", "TYPE_UNSPECIFIED"}
    /\ _timestampAccepted(Get(model, "eventTime"))
    /\ _dialogAccepted(model)

Interpretable(raw) ==
    /\ IsMapping(raw) /\ ~EnvelopeRefused(raw)
    /\ LET model == normalize_envelope(raw) IN ModelAccepted(model) /\ TypeAccepted(model)

Refused(raw) == ~Interpretable(raw)

\* The widgets are read one after the other, before anything else of an action.
Widgets(raw) ==
    LET model == normalize_envelope(raw)
    IN  IF IsMapping(raw) /\ ~EnvelopeRefused(raw) /\ ModelAccepted(model) /\ model.type \in WithForms
        THEN Range(FormInputs(model)) ELSE {}

\* The parser fails with an error of another kind, unless it came upon an input
\* that it refuses before.
MayCrash(raw) == \E input \in Widgets(raw) : InputCrashes(input)

MustCrash(raw) == MayCrash(raw) /\ \A input \in Widgets(raw) : InputAccepted(input) \/ InputCrashes(input)

parse_interaction(raw) ==
    LET model == normalize_envelope(raw) IN With(TypeFields(model, raw), Base(model, raw))

--------------------------------------------------------------------------------
\* The views of a MessageEvent are read from its raw payload.

_raw_message(raw) ==
    LET event == IF IsMapping(Get(raw, "chat")) THEN raw.chat ELSE raw
    IN  IF IsMapping(Get(event, "message")) THEN event.message ELSE <<>>

_mapping_sequence(value) ==
    IF value \in {None, Malformed} THEN <<>> ELSE SelectSeq(value, IsMapping)

Views(raw) ==
    LET message == _raw_message(raw)
        annotations == _mapping_sequence(Get(message, "annotations"))
    IN  [ attachments |-> _mapping_sequence(Get(message, "attachment")),
          annotations |-> annotations,
          mentions |-> SelectSeq(annotations, LAMBDA a : Get(a, "type") = "USER_MENTION"),
          reaction_summaries |-> _mapping_sequence(Get(message, "emojiReactionSummaries")),
          quote |-> IF IsMapping(Get(message, "quotedMessageMetadata"))
                    THEN message.quotedMessageMetadata ELSE None,
          is_private |-> Get(message, "privateMessageViewer") # None,
          is_silent |-> Get(message, "silent") = TRUE ]
===============================================================================
