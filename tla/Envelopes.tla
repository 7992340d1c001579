------------------------------- MODULE Envelopes -------------------------------
(***************************************************************************)
(* From a delivered body to the fields of one interaction: the envelope    *)
(* families (adapters/google_chat/envelope.py), the push and pull          *)
(* envelopes around them (transports/pubsub.py, pubsub_runner.py) and the  *)
(* strict boundary models (adapters/google_chat/models.py).                *)
(*                                                                         *)
(* A JSON mapping is a function from the names of its fields; null and a   *)
(* missing field are None.  Malformed is a value of the wrong JSON type    *)
(* where it stands, or bytes that are no base64 or no JSON.                *)
(***************************************************************************)
EXTENDS Optional, Sequences, Functions

CONSTANT Malformed

ASSUME MalformedAssumption == Malformed # None

Get(mapping, key) == IF key \in DOMAIN mapping THEN mapping[key] ELSE None

\* The fields of the first, and those that only the second has.
With(first, second) ==
    [key \in DOMAIN first \cup DOMAIN second |->
        IF key \in DOMAIN first THEN first[key] ELSE second[key]]

Without(mapping, keys) == Restrict(mapping, DOMAIN mapping \ keys)

IsMapping(value) == value \notin {None, Malformed}

--------------------------------------------------------------------------------
\* normalize_envelope

NotMerged == {"chat", "commonEventObject", "common", "type"}

\* Faulty: the wrapped event replaces the fields that only the direct one has.
WrappedOnly(raw) ==
    IF IsMapping(Get(raw, "chat")) THEN raw.chat
    ELSE Without(raw, {"commonEventObject"})

\* The event that the two families describe together.
Merged(raw) ==
    LET chat == Get(raw, "chat")
    IN  CASE chat = None -> Without(raw, {"commonEventObject"})
          [] IsMapping(chat) /\ Get(raw, "type") = None -> chat
          [] IsMapping(chat) /\ Get(raw, "type") # None -> With(chat, Without(raw, NotMerged))

\* UnsupportedEnvelopeError: neither family, or a wrapped one that is none.
Unsupported(raw) ==
    LET chat == Get(raw, "chat")
    IN  \/ chat = None /\ Get(raw, "type") = None
        \/ chat = Malformed
        \/ IsMapping(chat) /\ Get(chat, "type") = None

\* ConflictingEnvelopeError: the direct and the wrapped event disagree.
Conflicting(raw) ==
    /\ IsMapping(Get(raw, "chat"))
    /\ Get(raw, "type") # None
    /\ \/ raw.type # raw.chat.type
       \/ \E key \in (DOMAIN raw \ NotMerged) \cap DOMAIN raw.chat : raw[key] # raw.chat[key]

\* Both common objects are there and disagree, or one is no mapping.
CommonRefused(raw) ==
    LET inner == Get(Merged(raw), "common")
        outer == Get(raw, "commonEventObject")
    IN  \/ Malformed \in {inner, outer}
        \/ IsMapping(inner) /\ IsMapping(outer) /\ inner # outer

EnvelopeRefused(raw) == Unsupported(raw) \/ Conflicting(raw) \/ CommonRefused(raw)

normalize_envelope(raw) ==
    LET outer == Get(raw, "commonEventObject")
    IN  IF outer = None THEN Merged(raw) ELSE With([common |-> outer], Merged(raw))

--------------------------------------------------------------------------------
\* The envelopes of Pub/Sub.  message.data is what it decodes to.

\* decode_message_data and PubSubPushAdapter.parse_envelope refuse the payload.
PushRefused(payload) ==
    \/ ~IsMapping(payload)
    \/ ~IsMapping(Get(payload, "message"))
    \/ ~IsMapping(Get(payload.message, "data"))

decode_message_data(payload) == payload.message.data

\* PubSubPullRunner._parse takes both shapes: a "message" that has data is an
\* envelope, any other belongs to the interaction.
Enveloped(payload) ==
    /\ IsMapping(Get(payload, "message"))
    /\ Get(payload.message, "data") # None

PullRefused(data) == ~IsMapping(data) \/ (Enveloped(data) /\ PushRefused(data))

PulledInteraction(data) == IF Enveloped(data) THEN decode_message_data(data) ELSE data

--------------------------------------------------------------------------------
\* The boundary models: the model of each field, "scalar" for plain values.
\* Other fields are allowed and not looked at.
Models ==
    [ InteractionModel |->
        [ type |-> "scalar", eventTime |-> "scalar", message |-> "MessageModel",
          user |-> "UserModel", thread |-> "ThreadModel", space |-> "SpaceModel",
          action |-> "FormActionModel", isDialogEvent |-> "scalar",
          dialogEventType |-> "scalar", common |-> "CommonEventModel",
          appCommandMetadata |-> "AppCommandMetadataModel" ],
      UserModel |-> [ name |-> "scalar", displayName |-> "scalar", type |-> "scalar" ],
      SpaceModel |->
        [ name |-> "scalar", displayName |-> "scalar", type |-> "scalar",
          spaceType |-> "scalar", singleUserBotDm |-> "scalar" ],
      ThreadModel |-> [ name |-> "scalar", threadKey |-> "scalar" ],
      SlashCommandModel |-> [ commandId |-> "scalar" ],
      MatchedUrlModel |-> [ url |-> "scalar" ],
      MessageModel |->
        [ name |-> "scalar", text |-> "scalar", sender |-> "UserModel",
          space |-> "SpaceModel", thread |-> "ThreadModel", createTime |-> "scalar",
          argumentText |-> "scalar", slashCommand |-> "SlashCommandModel",
          matchedUrl |-> "MatchedUrlModel" ],
      FormActionModel |-> [ actionMethodName |-> "scalar", parameters |-> "scalar" ],
      TimeZoneModel |-> [ id |-> "scalar", offset |-> "scalar" ],
      CommonEventModel |->
        [ userLocale |-> "scalar", timeZone |-> "TimeZoneModel", formInputs |-> "scalar",
          parameters |-> "scalar", invokedFunction |-> "scalar" ],
      AppCommandMetadataModel |-> [ appCommandId |-> "scalar", appCommandType |-> "scalar" ] ]

\* The modelled fields of a mapping that are there, and those that are objects.
Given(model, mapping) == {field \in DOMAIN mapping \cap DOMAIN Models[model] : mapping[field] # None}

Objects(model, mapping) == {field \in Given(model, mapping) : Models[model][field] # "scalar"}

Flat(model, mapping) == \A field \in Given(model, mapping) : mapping[field] # Malformed

\* The fields of an object that have a default and may not be null.
Defaulted == {"formInputs", "parameters"}

NoNull(mapping) == \A field \in Defaulted \cap DOMAIN mapping : mapping[field] # None

\* InteractionModel.model_validate accepts the event: nothing the models name
\* is of the wrong type, at any of the three levels they have.
WellTyped(event) ==
    /\ Get(event, "type") # None
    /\ Flat("InteractionModel", event)
    /\ \A field \in Objects("InteractionModel", event) :
        LET model == Models.InteractionModel[field]
        IN  /\ Flat(model, event[field])
            /\ model \in {"FormActionModel", "CommonEventModel"} => NoNull(event[field])
            /\ \A inner \in Objects(model, event[field]) :
                Flat(Models[model][inner], event[field][inner])

--------------------------------------------------------------------------------
\* What a delivery says of its interaction, whatever the code makes of it.

Elsewhere(raw) == {"chat", "commonEventObject"} \cup (IF Get(raw, "chat") = None THEN {} ELSE {"common"})

\* The descriptions of the event: the wrapped one, and the direct one, which has
\* a type and leaves the common object to the other when there are both.
Tellings(raw) ==
    (IF IsMapping(Get(raw, "chat")) THEN {raw.chat} ELSE {}) \cup
    (IF Get(raw, "type") # None THEN {Without(raw, Elsewhere(raw))} ELSE {})

\* The values that they give to a field.  A null common object says nothing.
Said(raw, key) ==
    LET told == {t[key] : t \in {d \in Tellings(raw) : key \in DOMAIN d}}
    IN  IF key = "common" THEN (told \cup {Get(raw, "commonEventObject")}) \ {None} ELSE told

Mentioned(raw) == {"common"} \cup UNION {DOMAIN t : t \in Tellings(raw)}

\* It describes one event: in one place or in two that agree.
Sensible(raw) ==
    /\ IsMapping(raw) /\ Get(raw, "chat") # Malformed
    /\ Tellings(raw) # {}
    /\ \A t \in Tellings(raw) : Get(t, "type") # None
    /\ \A key \in Mentioned(raw) : \A a, b \in Said(raw, key) : a = b

\* An event in the direct family.
DirectEvent(event) ==
    /\ IsMapping(event) /\ Get(event, "type") # None
    /\ Get(event, "chat") = None /\ Get(event, "commonEventObject") = None

\* It describes this event.
Carries(raw, event) ==
    /\ Sensible(raw) /\ DirectEvent(event)
    /\ \A key \in DOMAIN Models.InteractionModel :
        Said(raw, key) \ {None} = {Get(event, key)} \ {None}

\* The message is in the wrapped event, if there is one.
MessageInside(raw, event) ==
    IsMapping(Get(raw, "chat")) => Get(raw.chat, "message") = Get(event, "message")
===============================================================================
