----------------------------- MODULE ChatEndpoint -----------------------------
(***************************************************************************)
(* One interaction after the other at the endpoints of an application:     *)
(* create_chat_router (integrations/fastapi/router.py) for the webhook,    *)
(* and the same steps for what Pub/Sub pushes or the runner pulls.  Claims *)
(* and settlement are PubSubPush's and PubSubPull's; the router tree is    *)
(* Dispatching's.  Here the dispatcher has one handler, behind one filter, *)
(* which may answer, call the Chat API, fail or return.                    *)
(***************************************************************************)
EXTENDS HttpAnswers, TypedData, Verification, ChatCalls

CONSTANTS
    Requests,       \* what is delivered
    Payloads,       \* what a handler may answer with
    DataModel,      \* the ActionData model it may ask for
    FormModel,      \* the FormModel it may ask for
    Account,        \* the service account of the push subscription
    Speaking,       \* the deliveries whose handler calls the Chat API
    Sends,          \* the <<bot, identity, arguments>> of messages.create
    Replies,        \* the <<bot, arguments>> of contextual sends
    Updates,        \* the <<bot, identity, arguments>> of messages.update
    DirectMessages, \* those of find_direct_message
    Invocations     \* the <<bot, operation, identity, arguments>> of the others

ASSUME RequestsAssumption == \A r \in Requests : r.channel \in {"http", "push", "pull"}

\* Those have no method of their own here.
ASSUME InvocationsAssumption ==
    \A i \in Invocations :
        i[2] \notin {"MESSAGES_CREATE", "MESSAGES_UPDATE", "SPACES_FIND_DIRECT_MESSAGE"}

VARIABLES
    request,        \* the delivery, with what Google meant by it
    pc,
    event,          \* the event it became
    capabilities,   \* those the handler is told of
    data,           \* what its filter made of the event
    response,       \* the InteractionResponse: <<>> or <<payload>>
    result,         \* what the handler returned
    answer          \* the status and the kind of body that went back

turnVars == <<request, pc, event, capabilities, data, response, result, answer>>

TurnInit ==
    /\ pc = "idle" /\ response = <<>>
    /\ request = None /\ event = None /\ capabilities = {} /\ data = None
    /\ result = None /\ answer = None

Nobody == [type |-> "none", json |-> TRUE]

Answers(status, body) ==
    /\ answer' = [status |-> status, body |-> body]
    /\ pc' = "answered"

Receive ==
    /\ pc = "idle"
    /\ \E r \in Requests : request' = r
    /\ pc' = "received"
    /\ UNCHANGED <<event, capabilities, data, response, result, answer, callVars>>

Authentic(r) ==
    CASE r.channel = "http" -> Verified(r.audience, r.header)
      [] r.channel = "push" -> PushVerified(Account, r.header)
      [] r.channel = "pull" -> TRUE

Verify ==
    /\ pc = "received"
    /\ IF Authentic(request) THEN pc' = "verified" /\ UNCHANGED answer ELSE Answers(401, None)
    /\ UNCHANGED <<request, event, capabilities, data, response, result, callVars>>

\* The interaction in what was delivered; Malformed when there is none.
Interaction(r) ==
    CASE r.channel = "http" -> r.body
      [] r.channel = "push" -> IF PushRefused(r.body) THEN Malformed ELSE decode_message_data(r.body)
      [] r.channel = "pull" -> IF PullRefused(r.body) THEN Malformed ELSE PulledInteraction(r.body)

\* What Google meant by a delivery is the event that it describes.
ASSUME DeliveriesAssumption ==
    \A r \in Requests :
        IF r.meaning = None THEN ~Sensible(Interaction(r)) ELSE Carries(Interaction(r), r.meaning)

\* A click of a button that was made from this data: its parameters, and those
\* that Google adds, are those of the common object.
ClickOf(interaction, instance) ==
    LET common == Get(interaction, "common")
        sent == Get(common, "parameters")
        made == to_parameters(instance)
    IN  /\ Get(interaction, "type") = "CARD_CLICKED" /\ IsMapping(common) /\ IsMapping(sent)
        /\ \A field \in DOMAIN DataModel :
            /\ field \in DOMAIN sent <=> field \in DOMAIN made
            /\ field \in DOMAIN made => sent[field] = made[field]
        /\ DOMAIN sent = {} => Get(interaction, "action") = None

\* A field that may be None has a default.
Filled(instance) ==
    /\ DOMAIN instance = DOMAIN DataModel
    /\ \A field \in DOMAIN DataModel :
        IF instance[field] = NoneValue THEN DataModel[field].default # Required
        ELSE DataModel[field].type # "int mixin" /\ Holds(DataModel[field].type, instance[field])

ASSUME ClicksAssumption ==
    \A r \in Requests :
        r.clicked # None => r.meaning # None /\ Filled(r.clicked) /\ ClickOf(r.meaning, r.clicked)

Parsed(r) ==
    LET parsed == parse_interaction(Interaction(r))
    IN  IF r.channel = "push" THEN [parsed EXCEPT !.raw = r.body] ELSE parsed

Transport(r) == IF r.channel = "http" THEN "http" ELSE "pubsub"

Parse ==
    /\ pc = "verified"
    /\ \/ /\ MayCrash(Interaction(request))
          /\ Answers(500, None) /\ UNCHANGED <<event, capabilities>>
       \/ /\ Refused(Interaction(request)) /\ ~MustCrash(Interaction(request))
          /\ Answers(400, None) /\ UNCHANGED <<event, capabilities>>
       \/ /\ ~Refused(Interaction(request))
          /\ event' = Parsed(request)
          /\ capabilities' = Resolve(Transport(request), Parsed(request))
          /\ pc' = "handling"
          /\ UNCHANGED answer
    /\ UNCHANGED <<request, data, response, result, callVars>>

\* The handler is passed over when its filter makes no data of the event.
Filtered(by, is) ==
    /\ data' = [by |-> by, is |-> is]
    /\ pc' = IF by # "none" /\ is = {} THEN "returned" ELSE "running"
    /\ result' = Nobody

Filter ==
    /\ pc = "handling"
    /\ \/ Filtered("none", {})
       \/ Filtered("data", ActionDataFilter(DataModel, event))
       \/ Filtered("form", FormFilter(FormModel, event))
    /\ UNCHANGED <<request, event, capabilities, response, answer, callVars>>

\* InteractionResponse.respond, once.
Respond ==
    /\ pc = "running" /\ ~Calling /\ request.channel = "http"
    /\ IF response = <<>>
       THEN \E p \in Payloads : response' = <<p>> /\ UNCHANGED <<pc, answer>>
       ELSE Answers(500, None) /\ UNCHANGED response
    /\ UNCHANGED <<request, event, capabilities, data, result, callVars>>

Return ==
    /\ pc = "running" /\ ~Calling
    /\ \E p \in Payloads : result' = p
    /\ pc' = "returned"
    /\ UNCHANGED <<request, event, capabilities, data, response, answer, callVars>>

Raise ==
    /\ pc = "running" /\ ~Calling
    /\ Answers(500, None)
    /\ UNCHANGED <<request, event, capabilities, data, response, result, callVars>>

Payload == IF response # <<>> THEN Head(response) ELSE result

Serialize ==
    /\ pc = "returned" /\ Transport(request) = "http"
    /\ IF Unserializable(Payload, event) THEN Answers(500, None)
       ELSE Answers(200, _serialize(Payload, event))
    /\ UNCHANGED <<request, event, capabilities, data, response, result, callVars>>

Acknowledge ==
    /\ pc = "returned" /\ Transport(request) = "pubsub"
    /\ Answers(204, None)
    /\ UNCHANGED <<request, event, capabilities, data, response, result, callVars>>

Finish ==
    /\ pc = "answered"
    /\ pc' = "idle" /\ response' = <<>>
    /\ request' = None /\ event' = None /\ capabilities' = {} /\ data' = None
    /\ result' = None /\ answer' = None
    /\ call' = NoCall /\ world' = Empty

TurnStep ==
    \/ Receive \/ Verify \/ Parse \/ Filter
    \/ Respond \/ Return \/ Raise
    \/ Serialize \/ Acknowledge \/ Finish

--------------------------------------------------------------------------------
\* The calls of a handler.

\* A message of its own, and the defaults of the other arguments.
Plain == [ text |-> TRUE, space |-> Name("bare", "spaces/S"), thread |-> None, option |-> None,
           notify |-> None, private_to |-> None, accessory |-> FALSE, card |-> None,
           attachments |-> <<>>, by |-> "program" ]

\* What is sent has all of these, and a viewer that is named has a name.
ASSUME ArgumentsAssumption ==
    \A args \in {s[3] : s \in Sends} \cup {r[2] : r \in Replies} :
        /\ DOMAIN args = DOMAIN Plain
        /\ args.by = "program"
        /\ args.attachments \in Seq(Range(args.attachments))
        /\ args.private_to # None /\ Legible(args.private_to) => args.private_to.id # None

NameOf(resource) == IF resource = None THEN Name("nameless", None) ELSE Name("canonical", resource)

\* Faulty: a reply may open a new thread, as a send does.
ReplyMayMove(option) == IF option # None THEN option ELSE "REPLY_MESSAGE_FALLBACK_TO_NEW_THREAD"

\* MessageEvent.reply: into the thread of the message, or not at all.
ReplyDefault(option) == IF option # None THEN option ELSE "REPLY_MESSAGE_OR_FAIL"

SendDefault(option) == IF option # None THEN option ELSE "REPLY_MESSAGE_FALLBACK_TO_NEW_THREAD"

\* Where a reply goes is the program's affair when it gives an option.
reply(args) ==
    [args EXCEPT !.by = IF args.option = None THEN "reply" ELSE @, !.space = NameOf(event.space.name),
                 !.thread = Or(event.thread.name, "nameless"), !.option = ReplyDefault(args.option)]

\* SpaceRef.send and ThreadRef.send, of the space and thread of the event.
SpaceSend(args) ==
    [args EXCEPT !.by = "space", !.space = NameOf(event.space.name),
                 !.option = SendDefault(args.option)]

\* The space in the name of a thread.
ThreadSpaces == ("spaces/S/threads/T" :> "spaces/S")

\* The space that the thread of the event is told to be in, or names.
Placed(thread) == thread.space # None \/ thread.name \in DOMAIN ThreadSpaces

ParentSpace(thread) ==
    NameOf(IF thread.space # None THEN thread.space.name ELSE ThreadSpaces[thread.name])

ThreadSend(args) ==
    [args EXCEPT !.by = "thread", !.space = ParentSpace(event.thread),
                 !.thread = Or(event.thread.name, "nameless"), !.option = SendDefault(args.option)]

\* All three go through the APP identity of the bound Bot.
Contextual(bot, args) ==
    \/ /\ event.class = "MessageEvent" /\ None \notin {event.space, event.thread}
       /\ Create(bot, "APP", reply(args))
    \/ event.space # None /\ Create(bot, "APP", SpaceSend(args))
    \/ event.thread # None /\ Placed(event.thread) /\ Create(bot, "APP", ThreadSend(args))

MaySpeak == pc = "running" /\ request \in Speaking /\ call = NoCall /\ response = <<>>

\* One call in a turn.
Speak ==
    /\ MaySpeak
    /\ \/ \E s \in Sends : Create(s[1], s[2], s[3])
       \/ \E r \in Replies : Contextual(r[1], r[2])
       \/ \E u \in Updates : Update(u[1], u[2], u[3])
       \/ \E d \in DirectMessages : FindDirectMessage(d[1], d[2], d[3])
       \/ \E i \in Invocations : Invoke(i[1], i[2], i[3], i[4])
    /\ UNCHANGED turnVars

vars == <<turnVars, callVars>>

Init == TurnInit /\ CallInit

Next == TurnStep \/ Speak \/ (CallStep /\ UNCHANGED turnVars)

Spec == Init /\ [][Next]_vars

--------------------------------------------------------------------------------
\* Only what Chat, or the push subscription, signed for reaches a handler: the
\* token verifies and its claims name the sender, whatever audience the
\* endpoint is configured with.
OnlyChatIsHeard ==
    pc \in {"handling", "running", "returned"} =>
        CASE request.channel = "http" ->
                /\ request.header.token.check = "valid"
                /\ Chat \in {request.header.token.claims.iss, request.header.token.claims.email}
          [] request.channel = "push" -> request.header.token.claims.email = Account
          [] request.channel = "pull" -> TRUE

\* An interaction means the same whichever family and transport carries it: the
\* same event (but for raw, and the source the envelope tells), or the same
\* refusal; and the views of a message are lossless, except that a pushed event
\* has the whole Pub/Sub envelope as its raw payload, and that the views look for
\* the message in the wrapped event, if there is one, although the parser takes
\* it from the direct event as well.  What contradicts itself (meaning None)
\* becomes no event at all.
OneMeaning ==
    /\ event # None =>
        /\ request.meaning # None /\ ~Refused(request.meaning)
        /\ LET meant == parse_interaction(request.meaning)
               fields == DOMAIN meant \ {"raw", "source"}
           IN  Restrict(event, fields) = Restrict(meant, fields)
        /\ request.channel # "push" /\ MessageInside(Interaction(request), request.meaning) =>
            Views(event.raw) = Views(request.meaning)
    /\ answer # None /\ answer.status = 400 =>
        request.meaning = None \/ Refused(request.meaning)

\* A button made from typed data gives its handler that data back: every field
\* has the value it had, or its default when it was left out.
ClicksRoundTrip ==
    (data # None /\ data.by = "data" /\ request.clicked # None) =>
        \E instance \in data.is : \A field \in DOMAIN DataModel :
            instance[field] = IF request.clicked[field] = NoneValue
                              THEN DataModel[field].default ELSE request.clicked[field]

\* What a handler is told it can answer with is what is served, no less and no
\* more: resolve() and _serialize() are two pieces of code that must agree on
\* every event.
AsAdvertised ==
    LET Advertised(c) == c \in capabilities
        served == answer'.status = 200
        body == answer'.body
    IN  /\ Payload.type = "dialog" => (served <=> Advertised("DIALOGS"))
        /\ Payload.type = "autocomplete" => (served <=> Advertised("UPDATE_WIDGET"))
        /\ Payload.type = "card" =>
            /\ body = "UPDATE_USER_MESSAGE_CARDS" <=> Advertised("CARD_UPDATE_USER")
            /\ body = "UPDATE_MESSAGE" <=> Advertised("CARD_UPDATE_BOT")
            /\ body \in {"pushCard", "updateCard"} <=> Advertised("APP_HOME")

AdvertisedIsServed == [][Serialize => AsAdvertised]_vars

\* A message that is meant for one viewer is sent to that viewer only.
PrivateStaysPrivate ==
    \A m \in world.messages :
        call.args.private_to # None => m.viewer # None /\ m.viewer = call.args.private_to.id

\* A send that is refused locally has uploaded nothing: media work is never
\* done for a message that cannot be sent.
RefusedUploadsNothing ==
    call # NoCall /\ call.outcome = "refused" => world.uploads = <<>>

\* The attachments of a message are those it was to have, in order, in its own
\* space and uploaded by the identity that sends it.
AttachmentsFit ==
    \A m \in world.messages :
        /\ Len(m.attachments) = Len(call.args.attachments)
        /\ \A i \in DOMAIN m.attachments :
            m.attachments[i] = Ref(m.space, m.as, call.args.attachments[i].file)

\* A reply lands in the thread of the message it replies to, or nowhere, when
\* that thread has a name and the program asked for nothing else.
RepliesStayInThread ==
    \A m \in world.messages :
        call.args.by = "reply" /\ HasThread(call.args.thread) =>
            m.space = [id |-> event.space.name] /\ m.thread = event.thread.name
===============================================================================
