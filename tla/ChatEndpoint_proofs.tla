------------------------- MODULE ChatEndpoint_proofs -------------------------
(***************************************************************************)
(* Proofs about ChatEndpoint and the calls of its handlers (ChatCalls),    *)
(* for any deliveries, payloads, bots and arguments.                       *)
(*                                                                         *)
(* A turn keeps three promises: what runs was verified, it was told what   *)
(* its event may be answered with, and it calls nothing before it runs.    *)
(* Of the one call it makes, everything was looked at before the first     *)
(* upload, and every attachment is there as it was asked for.              *)
(*                                                                         *)
(* Then the way of an interaction through the parser: a delivery that      *)
(* describes an event is normalized to a mapping with the same fields, and *)
(* the parser looks at nothing else; and the way of typed data through the *)
(* parameters of a button and back.                                        *)
(***************************************************************************)
EXTENDS ChatEndpoint, TLAPS

Heard == /\ pc # "idle" => request \in Requests
         /\ pc \in {"verified", "handling", "running", "returned"} => Authentic(request)

Told == pc \in {"handling", "running", "returned"} =>
            capabilities = Resolve(Transport(request), event)

Silent == pc \in {"idle", "received", "verified", "handling"} => call = NoCall

TurnInv == Heard /\ Told /\ Silent

-----------------------------------------------------------------------------
(* The call under way. *)

CallFields == {"bot", "operation", "as", "args", "at", "images", "attached",
               "result", "outcome", "error"}

(* The attachment that the i-th item of a message becomes. *)
Attachment(args, i) == Ref(Canonical(args.space), "USER", args.attachments[i].file)

Attachments(args) == {Attachment(args, i) : i \in 1..Len(args.attachments)}

(* What a message is to be made of: it may have come from the program or,  *)
(* as a reply, from the event.                                             *)
Sendable(args) ==
    /\ args.attachments \in Seq(Range(args.attachments))
    /\ args.private_to # None /\ Legible(args.private_to) => args.private_to.id # None
    /\ args.by = "reply" =>
          /\ args.option = "REPLY_MESSAGE_OR_FAIL"
          /\ args.space = NameOf(event.space.name)
          /\ args.thread = Or(event.thread.name, "nameless")

(* The items so far have been attached, in order. *)
AttachedSoFar ==
    /\ call.attached \in Seq(Attachments(call.args))
    /\ Len(call.attached) <= Len(call.args.attachments)
    /\ \A i \in 1..Len(call.attached) : call.attached[i] = Attachment(call.args, i)

Creating ==
    /\ CreateAccepted(call.bot, call.as, call.args)
    /\ Sendable(call.args)
    /\ AttachedSoFar
    /\ call.at \in {"publish", "attach", "execute"}
    /\ call.at = "publish" => Len(call.attached) = 0
    /\ call.at = "execute" => Len(call.attached) = Len(call.args.attachments)
    /\ world.uploads # <<>> => call.args.attachments # <<>>
    /\ world.messages = {}

OtherCall ==
    /\ call.at \in {"publish", "execute"}
    /\ world.uploads = <<>>
    /\ world.messages = {}

(* What a message in Google's hands must be. *)
WellSent(m) ==
    /\ call.args.private_to # None => m.viewer # None /\ m.viewer = call.args.private_to.id
    /\ Len(m.attachments) = Len(call.args.attachments)
    /\ \A i \in DOMAIN m.attachments :
          m.attachments[i] = Ref(m.space, m.as, call.args.attachments[i].file)
    /\ call.args.by = "reply" /\ HasThread(call.args.thread) =>
          m.space = [id |-> event.space.name] /\ m.thread = event.thread.name

CallsInv ==
    /\ DOMAIN world = {"images", "uploads", "messages", "spaces"}
    /\ call = NoCall => world = Empty
    /\ call # NoCall => DOMAIN call = CallFields
    /\ Calling => IF call.operation = "MESSAGES_CREATE" THEN Creating ELSE OtherCall
    /\ call # NoCall /\ call.outcome = "refused" => world.uploads = <<>>
    /\ \A m \in world.messages : WellSent(m)

Inv == TurnInv /\ CallsInv

-----------------------------------------------------------------------------
(* The turn. *)

LEMMA InitTurnInv == Init => TurnInv
BY DEF Init, TurnInit, CallInit, TurnInv, Heard, Told, Silent

LEMMA TurnStepTurn == ASSUME TurnInv, TurnStep PROVE TurnInv'
<1>1. CASE Receive
    BY <1>1 DEF Receive, callVars, TurnInv, Heard, Told, Silent
<1>2. CASE Verify
    BY <1>2 DEF Verify, Answers, callVars, TurnInv, Heard, Told, Silent
<1>3. CASE Parse
    BY <1>3 DEF Parse, Answers, callVars, TurnInv, Heard, Told, Silent
<1>4. CASE Filter
    BY <1>4 DEF Filter, Filtered, callVars, TurnInv, Heard, Told, Silent
<1>5. CASE Respond
    BY <1>5 DEF Respond, Answers, callVars, TurnInv, Heard, Told, Silent
<1>6. CASE Return
    BY <1>6 DEF Return, callVars, TurnInv, Heard, Told, Silent
<1>7. CASE Raise
    BY <1>7 DEF Raise, Answers, callVars, TurnInv, Heard, Told, Silent
<1>8. CASE Serialize
    BY <1>8 DEF Serialize, Answers, callVars, TurnInv, Heard, Told, Silent
<1>9. CASE Acknowledge
    BY <1>9 DEF Acknowledge, Answers, callVars, TurnInv, Heard, Told, Silent
<1>10. CASE Finish
    BY <1>10 DEF Finish, TurnInv, Heard, Told, Silent
<1> QED
    BY <1>1, <1>2, <1>3, <1>4, <1>5, <1>6, <1>7, <1>8, <1>9, <1>10 DEF TurnStep

(* A call under way leaves the turn alone, and the turn has begun to run.  *)
LEMMA CallsTurn == ASSUME TurnInv, call # NoCall, UNCHANGED turnVars PROVE TurnInv'
BY DEF turnVars, TurnInv, Heard, Told, Silent

LEMMA SpeaksTurn == ASSUME TurnInv, Speak PROVE TurnInv'
BY DEF Speak, MaySpeak, turnVars, TurnInv, Heard, Told, Silent

LEMMA CallStepCalls == CallStep => Calling
BY DEF CallStep, SourceUnreadable, Publish, Published, Refer, UploadNext,
       Attached, ExecuteCreate, Execute

LEMMA NextTurnInv == TurnInv /\ [Next]_vars => TurnInv'
<1> SUFFICES ASSUME TurnInv, [Next]_vars PROVE TurnInv'
    OBVIOUS
<1>1. CASE UNCHANGED vars
    BY <1>1 DEF vars, turnVars, callVars, TurnInv, Heard, Told, Silent
<1>2. CASE CallStep /\ UNCHANGED turnVars
    BY <1>2, CallStepCalls, CallsTurn DEF Calling
<1> QED
    BY <1>1, <1>2, TurnStepTurn, SpeaksTurn DEF Next

(* A token that passes names Chat as its sender, whatever the audience of  *)
(* the endpoint is.                                                        *)
LEMMA VerifiedIsChat ==
    ASSUME NEW audience, NEW header, Verified(audience, header)
    PROVE  /\ header.token.check = "valid"
           /\ Chat \in {header.token.claims.iss, header.token.claims.email}
BY DEF Verified, TokenVerified, verify_oauth2_token, verify_token, _validate_issuer

LEMMA PushVerifiedIsAccount ==
    ASSUME NEW header, PushVerified(Account, header)
    PROVE  header.token.claims.email = Account
BY DEF PushVerified, PushTokenVerified

LEMMA HeardIsChat == Heard => OnlyChatIsHeard
<1> SUFFICES ASSUME Heard, pc \in {"handling", "running", "returned"} PROVE OnlyChatIsHeard
    BY DEF OnlyChatIsHeard
<1>1. request.channel \in {"http", "push", "pull"}
    BY RequestsAssumption DEF Heard
<1>2. Authentic(request)
    BY DEF Heard
<1>3. CASE request.channel = "http"
    BY <1>2, <1>3, VerifiedIsChat DEF OnlyChatIsHeard, Authentic
<1>4. CASE request.channel = "push"
    BY <1>2, <1>4, PushVerifiedIsAccount DEF OnlyChatIsHeard, Authentic
<1>5. CASE request.channel = "pull"
    BY <1>5 DEF OnlyChatIsHeard
<1> QED
    BY <1>1, <1>3, <1>4, <1>5

(* Nobody but Chat, or the service account of the push subscription, makes *)
(* a handler run, whatever is delivered.                                   *)
THEOREM OnlyVerifiedIsHandled == Spec => []OnlyChatIsHeard
<1>1. TurnInv => OnlyChatIsHeard
    BY HeardIsChat DEF TurnInv
<1> QED
    BY <1>1, InitTurnInv, NextTurnInv, PTL DEF Spec

-----------------------------------------------------------------------------
(* What is advertised is served. *)

LEMMA Advertised ==
    ASSUME NEW e
    PROVE  LET told == Resolve("http", e) IN
           /\ "DIALOGS" \in told <=> can_open_dialog(e)
           /\ "UPDATE_WIDGET" \in told <=> e.class = "WidgetUpdatedEvent"
           /\ "CARD_UPDATE_USER" \in told <=> UpdatesUserCards(e)
           /\ "CARD_UPDATE_BOT" \in told <=> UpdatesBotCards(e)
           /\ "APP_HOME" \in told <=> e.class \in {"AppHomeEvent", "FormSubmitEvent"}
BY DEF Resolve

(* The body that goes back for a card, None when it cannot be served.      *)
LEMMA CardBodies ==
    ASSUME NEW e, NEW body, NEW p, p.type = "card",
           body = IF Unserializable(p, e) THEN None ELSE _serialize(p, e)
    PROVE  /\ body = "UPDATE_USER_MESSAGE_CARDS" <=> UpdatesUserCards(e)
           /\ body = "UPDATE_MESSAGE" <=> UpdatesBotCards(e)
           /\ body \in {"pushCard", "updateCard"} <=> e.class \in {"AppHomeEvent", "FormSubmitEvent"}
<1>n. /\ None # "UPDATE_USER_MESSAGE_CARDS" /\ None # "UPDATE_MESSAGE"
      /\ None # "pushCard" /\ None # "updateCard"
    BY CardActionsAssumption
<1>1. CASE Unserializable(p, e)
  <2>1. /\ ~UpdatesUserCards(e) /\ ~UpdatesBotCards(e)
        /\ e.class \notin {"AppHomeEvent", "FormSubmitEvent"}
      BY <1>1 DEF Unserializable, UpdatesUserCards, UpdatesBotCards
  <2> QED
      BY <1>1, <1>n, <2>1
<1>2. CASE ~Unserializable(p, e)
  <2>1. body = CardAction(e)
      BY <1>2 DEF _serialize
  <2>2. CASE e.class \in {"AppHomeEvent", "FormSubmitEvent"}
      BY <2>1, <2>2 DEF CardAction, UpdatesUserCards, UpdatesBotCards
  <2>3. CASE UpdatesUserCards(e)
      BY <2>1, <2>3 DEF CardAction, UpdatesUserCards, UpdatesBotCards
  <2>4. CASE UpdatesBotCards(e)
      BY <2>1, <2>4 DEF CardAction, UpdatesUserCards, UpdatesBotCards
  <2>5. CASE /\ e.class \notin {"AppHomeEvent", "FormSubmitEvent"}
             /\ ~UpdatesUserCards(e) /\ ~UpdatesBotCards(e)
    <3>1. body = None
        BY <2>1, <2>5 DEF CardAction
    <3> QED
        BY <3>1, <2>5, <1>n
  <2> QED
      BY <2>2, <2>3, <2>4, <2>5
<1> QED
    BY <1>1, <1>2

(* ResponseCapabilities.resolve and _serialize agree on every event and    *)
(* payload: a handler is told of exactly the answers that will be served.  *)
THEOREM CapabilitiesAreServed == Spec => AdvertisedIsServed
<1>1. ASSUME TurnInv, Serialize PROVE AsAdvertised
  <2>1. capabilities = Resolve("http", event)
      BY <1>1 DEF Serialize, TurnInv, Told
  <2>2. /\ answer'.status = 200 <=> ~Unserializable(Payload, event)
        /\ answer'.body = IF Unserializable(Payload, event) THEN None
                          ELSE _serialize(Payload, event)
      BY <1>1 DEF Serialize, Answers
  <2>3. Payload.type = "dialog" =>
            (~Unserializable(Payload, event) <=> can_open_dialog(event))
      BY DEF Unserializable, can_open_dialog, RequestsDialog
  <2>4. Payload.type = "autocomplete" =>
            (~Unserializable(Payload, event) <=> event.class = "WidgetUpdatedEvent")
      BY DEF Unserializable
  <2>5. PICK b : b = answer'.body
      OBVIOUS
  <2>6. Payload.type = "card" =>
            /\ b = "UPDATE_USER_MESSAGE_CARDS" <=> UpdatesUserCards(event)
            /\ b = "UPDATE_MESSAGE" <=> UpdatesBotCards(event)
            /\ b \in {"pushCard", "updateCard"} <=>
                  event.class \in {"AppHomeEvent", "FormSubmitEvent"}
      BY <2>2, <2>5, CardBodies
  <2> QED
      BY <2>1, <2>2, <2>3, <2>4, <2>5, <2>6, Advertised DEF AsAdvertised
<1>2. TurnInv /\ [Next]_vars => [Serialize => AsAdvertised]_vars
    BY <1>1
<1> QED
    BY <1>2, InitTurnInv, NextTurnInv, PTL DEF Spec, AdvertisedIsServed

-----------------------------------------------------------------------------
(* The calls. *)

LEMMA CallNotNone == ASSUME NEW c, DOMAIN c = CallFields PROVE c # NoCall
BY DEF NoCall, CallFields

LEMMA InitCallsInv == Init => CallsInv
BY DEF Init, TurnInit, CallInit, CallsInv, Calling, Empty

LEMMA CallsKept ==
    ASSUME CallsInv, UNCHANGED callVars, event' = event \/ call = NoCall
    PROVE  CallsInv'
<1>1. CASE call = NoCall
    BY <1>1 DEF CallsInv, callVars, Calling, Empty
<1>2. CASE event' = event
  <2>1. \A m : WellSent(m) => WellSent(m)'
      BY <1>2 DEF WellSent, callVars
  <2>2. Calling' => (IF call'.operation = "MESSAGES_CREATE" THEN Creating' ELSE OtherCall')
      BY <1>2 DEF CallsInv, callVars, Calling, Creating, OtherCall, Sendable,
                  AttachedSoFar, Attachments, Attachment
  <2> QED
      BY <2>1, <2>2 DEF CallsInv, callVars
<1> QED
    BY <1>1, <1>2

(* A call that is refused at once has done nothing.                        *)
LEMMA RefusesInv ==
    ASSUME CallsInv, call = NoCall, world' = world,
           NEW bot, NEW operation, NEW as, NEW args, Refuses(bot, operation, as, args)
    PROVE  CallsInv'
<1>1. DOMAIN call' = CallFields /\ call'.outcome = "refused"
    BY DEF Refuses, Fresh, CallFields
<1>c. call' # NoCall
    BY <1>1, CallNotNone
<1>2. ~Calling'
    BY <1>1, <1>c, OutcomesAssumption DEF Calling
<1>3. world' = Empty
    BY DEF CallsInv
<1> QED
    BY <1>1, <1>2, <1>3 DEF CallsInv, Empty

LEMMA StartsOther ==
    ASSUME CallsInv, call = NoCall, world' = world,
           NEW bot, NEW operation, NEW as, NEW args, NEW at \in {"publish", "execute"},
           operation # "MESSAGES_CREATE", Starts(bot, operation, as, args, at)
    PROVE  CallsInv'
<1>1. /\ DOMAIN call' = CallFields /\ call'.outcome = None
      /\ call'.operation # "MESSAGES_CREATE" /\ call'.at = at
    BY DEF Starts, Fresh, CallFields
<1>c. call' # NoCall
    BY <1>1, CallNotNone
<1>2. world' = Empty
    BY DEF CallsInv
<1>3. OtherCall'
    BY <1>1, <1>2 DEF OtherCall, Empty
<1> QED
    BY <1>1, <1>c, <1>2, <1>3, OutcomesAssumption DEF CallsInv, Empty

LEMMA StartsCreate ==
    ASSUME CallsInv, call = NoCall, world' = world, event' = event,
           NEW bot, NEW as, NEW args, Sendable(args), CreateAccepted(bot, as, args),
           Starts(bot, "MESSAGES_CREATE", as, args, "publish")
    PROVE  CallsInv'
<1>1. /\ DOMAIN call' = CallFields /\ call'.outcome = None
      /\ call'.operation = "MESSAGES_CREATE" /\ call'.at = "publish"
      /\ call'.bot = bot /\ call'.as = as /\ call'.args = args /\ call'.attached = <<>>
    BY DEF Starts, Fresh, CallFields
<1>c. call' # NoCall
    BY <1>1, CallNotNone
<1>2. world' = Empty
    BY DEF CallsInv
<1>3. Sendable(call.args)'
    BY <1>1 DEF Sendable
<1>4. AttachedSoFar'
  <2>1. Len(args.attachments) \in Nat
      BY DEF Sendable
  <2> QED
      BY <1>1, <2>1 DEF AttachedSoFar
<1>5. CreateAccepted(call.bot, call.as, call.args)'
    BY <1>1
<1>6. Creating'
    BY <1>1, <1>2, <1>3, <1>4, <1>5 DEF Creating, Empty
<1> QED
    BY <1>1, <1>c, <1>2, <1>6, OutcomesAssumption DEF CallsInv, Empty

LEMMA CreateInv ==
    ASSUME CallsInv, call = NoCall, event' = event,
           NEW bot, NEW as, NEW args, Sendable(args), Create(bot, as, args)
    PROVE  CallsInv'
<1>1. CASE CreateAccepted(bot, as, args)
    BY <1>1, StartsCreate DEF Create
<1>2. CASE ~CreateAccepted(bot, as, args)
    BY <1>2, RefusesInv DEF Create
<1> QED
    BY <1>1, <1>2

(* What the program gives is sendable, and so is what a bound send makes   *)
(* of it.                                                                  *)
LEMMA GivenIsSendable == ASSUME NEW s \in Sends PROVE Sendable(s[3])
BY ArgumentsAssumption DEF Sendable

LEMMA BoundIsSendable ==
    ASSUME NEW r \in Replies
    PROVE  Sendable(reply(r[2])) /\ Sendable(SpaceSend(r[2])) /\ Sendable(ThreadSend(r[2]))
<1> DEFINE args == r[2]
<1>1. /\ DOMAIN args = {"text", "space", "thread", "option", "notify", "private_to",
                        "accessory", "card", "attachments", "by"}
      /\ args.by = "program"
      /\ args.attachments \in Seq(Range(args.attachments))
      /\ args.private_to # None /\ Legible(args.private_to) => args.private_to.id # None
    BY ArgumentsAssumption DEF Plain
<1> HIDE DEF args
<1>2. Sendable(reply(args))
  <2>1. /\ reply(args).attachments = args.attachments
        /\ reply(args).private_to = args.private_to
        /\ reply(args).by = IF args.option = None THEN "reply" ELSE args.by
        /\ reply(args).space = NameOf(event.space.name)
        /\ reply(args).thread = Or(event.thread.name, "nameless")
        /\ reply(args).option = ReplyDefault(args.option)
      BY <1>1 DEF reply
  <2> QED
      BY <1>1, <2>1 DEF Sendable, ReplyDefault
<1>3. Sendable(SpaceSend(args))
  <2>1. /\ SpaceSend(args).attachments = args.attachments
        /\ SpaceSend(args).private_to = args.private_to
        /\ SpaceSend(args).by = "space"
      BY <1>1 DEF SpaceSend
  <2> QED
      BY <1>1, <2>1 DEF Sendable
<1>4. Sendable(ThreadSend(args))
  <2>1. /\ ThreadSend(args).attachments = args.attachments
        /\ ThreadSend(args).private_to = args.private_to
        /\ ThreadSend(args).by = "thread"
      BY <1>1 DEF ThreadSend
  <2> QED
      BY <1>1, <2>1 DEF Sendable
<1> QED
    BY <1>2, <1>3, <1>4 DEF args

LEMMA SpeakInv == ASSUME CallsInv, Speak PROVE CallsInv'
<1>1. call = NoCall /\ event' = event
    BY DEF Speak, MaySpeak, turnVars
<1>2. CASE \E s \in Sends : Create(s[1], s[2], s[3])
    BY <1>1, <1>2, GivenIsSendable, CreateInv
<1>3. CASE \E r \in Replies : Contextual(r[1], r[2])
    BY <1>1, <1>3, BoundIsSendable, CreateInv DEF Contextual
<1>4. ASSUME NEW u \in Updates, Update(u[1], u[2], u[3]) PROVE CallsInv'
  <2>1. CASE UpdateAccepted(u[1], u[3])
      BY <1>1, <1>4, <2>1, StartsOther DEF Update
  <2>2. CASE ~UpdateAccepted(u[1], u[3])
      BY <1>1, <1>4, <2>2, RefusesInv DEF Update
  <2> QED
      BY <2>1, <2>2
<1>5. ASSUME NEW d \in DirectMessages, FindDirectMessage(d[1], d[2], d[3]) PROVE CallsInv'
    BY <1>1, <1>5, StartsOther, RefusesInv DEF FindDirectMessage
<1>6. ASSUME NEW i \in Invocations, Invoke(i[1], i[2], i[3], i[4]) PROVE CallsInv'
  <2>1. i[2] # "MESSAGES_CREATE"
      BY InvocationsAssumption
  <2>2. CASE Accepted(i[2], i[4])
      BY <1>1, <1>6, <2>1, <2>2, StartsOther DEF Invoke
  <2>3. CASE ~Accepted(i[2], i[4])
      BY <1>1, <1>6, <2>3, RefusesInv DEF Invoke
  <2> QED
      BY <2>2, <2>3
<1> QED
    BY <1>2, <1>3, <1>4, <1>5, <1>6 DEF Speak

-----------------------------------------------------------------------------
(* A step of the call under way. *)

LEMMA EndInv ==
    ASSUME CallsInv, Calling, event' = event,
           NEW outcome \in {"done", "failed", "refused"}, NEW error, Ends(outcome, error),
           DOMAIN world' = {"images", "uploads", "messages", "spaces"},
           outcome = "refused" => world'.uploads = <<>>,
           \A m \in world'.messages : WellSent(m)
    PROVE  CallsInv'
<1>1. DOMAIN call = CallFields
    BY DEF CallsInv, Calling
<1>2. DOMAIN call' = CallFields /\ call'.outcome = outcome /\ call'.args = call.args
    BY <1>1 DEF Ends, CallFields
<1>3. call' # NoCall
    BY <1>2, CallNotNone
<1>4. ~Calling'
    BY <1>2, OutcomesAssumption DEF Calling
<1>5. \A m : WellSent(m) => WellSent(m)'
    BY <1>2 DEF WellSent
<1> QED
    BY <1>2, <1>3, <1>4, <1>5 DEF CallsInv

(* A step that does not end a call, and sends no message.                  *)
LEMMA GoesOnInv ==
    ASSUME CallsInv, Calling, event' = event,
           DOMAIN call' = CallFields, call'.outcome = None,
           call'.args = call.args,
           DOMAIN world' = {"images", "uploads", "messages", "spaces"},
           world'.messages = world.messages,
           IF call'.operation = "MESSAGES_CREATE" THEN Creating' ELSE OtherCall'
    PROVE  CallsInv'
<1>1. call' # NoCall
    BY CallNotNone
<1>2. \A m : WellSent(m) => WellSent(m)'
    BY DEF WellSent
<1> QED
    BY <1>1, <1>2, OutcomesAssumption DEF CallsInv

LEMMA NothingSent == ASSUME CallsInv, Calling PROVE world.messages = {}
BY DEF CallsInv, Creating, OtherCall

LEMMA SourceUnreadableInv ==
    ASSUME CallsInv, event' = event, SourceUnreadable PROVE CallsInv'
<1>1. Ends("failed", "AssetPublishError") /\ Calling /\ world' = world
    BY DEF SourceUnreadable
<1>2. /\ DOMAIN world' = {"images", "uploads", "messages", "spaces"}
      /\ \A m \in world'.messages : WellSent(m)
    BY <1>1 DEF CallsInv
<1> QED
    BY <1>1, <1>2, EndInv

LEMMA CreatingKept ==
    ASSUME CallsInv, Calling, call.operation = "MESSAGES_CREATE", event' = event,
           DOMAIN call' = CallFields, call'.bot = call.bot, call'.as = call.as,
           call'.args = call.args, world'.messages = {},
           world'.uploads # <<>> => call.args.attachments # <<>>,
           AttachedSoFar', call'.at \in {"publish", "attach", "execute"},
           call'.at = "publish" => Len(call'.attached) = 0,
           call'.at = "execute" => Len(call'.attached) = Len(call.args.attachments)
    PROVE  Creating'
<1>1. CreateAccepted(call.bot, call.as, call.args) /\ Sendable(call.args)
    BY DEF CallsInv, Creating
<1>2. CreateAccepted(call.bot, call.as, call.args)'
    BY <1>1
<1>3. Sendable(call.args)'
    BY <1>1 DEF Sendable
<1> QED
    BY <1>2, <1>3 DEF Creating

LEMMA PublishInv == ASSUME CallsInv, event' = event, Publish PROVE CallsInv'
<1> PICK image : image = call.args.card[Head(Unpublished)].image
    OBVIOUS
<1>1. /\ Calling /\ call.at = "publish" /\ DOMAIN call = CallFields
      /\ call.outcome = None
      /\ DOMAIN world = {"images", "uploads", "messages", "spaces"}
    BY DEF Publish, Calling, CallsInv
<1>2. CASE Ends("failed", "AssetPublishError") /\ UNCHANGED world
  <2>1. \A m \in world'.messages : WellSent(m)
      BY <1>2 DEF CallsInv
  <2> QED
      BY <1>1, <1>2, <2>1, EndInv
<1>3. CASE /\ world' = [world EXCEPT !.images = Append(@, image)]
           /\ call' = [call EXCEPT !.images = Append(@, image)]
  <2>1. /\ DOMAIN call' = CallFields /\ call'.bot = call.bot /\ call'.as = call.as
        /\ call'.args = call.args /\ call'.attached = call.attached /\ call'.at = call.at
        /\ call'.outcome = call.outcome /\ call'.operation = call.operation
      BY <1>1, <1>3 DEF CallFields
  <2>2. /\ DOMAIN world' = {"images", "uploads", "messages", "spaces"}
        /\ world'.uploads = world.uploads /\ world'.messages = world.messages
      BY <1>1, <1>3
  <2>3. CASE call.operation = "MESSAGES_CREATE"
    <3>1. Creating
        BY <1>1, <2>3 DEF CallsInv
    <3>2. AttachedSoFar'
        BY <2>1, <3>1 DEF Creating, AttachedSoFar, Attachments, Attachment
    <3>3. Creating'
        BY <1>1, <2>1, <2>2, <2>3, <3>1, <3>2, CreatingKept DEF Creating
    <3> QED
        BY <1>1, <2>1, <2>2, <2>3, <3>3, GoesOnInv
  <2>4. CASE call.operation # "MESSAGES_CREATE"
    <3>1. OtherCall'
        BY <1>1, <2>1, <2>2, <2>4 DEF CallsInv, OtherCall
    <3> QED
        BY <1>1, <2>1, <2>2, <2>4, <3>1, GoesOnInv
  <2> QED
      BY <2>3, <2>4
<1> QED
    BY <1>2, <1>3 DEF Publish

LEMMA PublishedInv == ASSUME CallsInv, event' = event, Published PROVE CallsInv'
<1>1. /\ Calling /\ call.at = "publish" /\ DOMAIN call = CallFields
      /\ call.outcome = None /\ world' = world
      /\ DOMAIN world = {"images", "uploads", "messages", "spaces"}
    BY DEF Published, Calling, CallsInv
<1>2. /\ DOMAIN call' = CallFields /\ call'.bot = call.bot /\ call'.as = call.as
      /\ call'.args = call.args /\ call'.attached = call.attached
      /\ call'.outcome = call.outcome /\ call'.operation = call.operation
      /\ call'.at = IF call.operation = "MESSAGES_CREATE" THEN "attach" ELSE "execute"
    BY <1>1 DEF Published, CallFields
<1>3. CASE call.operation = "MESSAGES_CREATE"
  <2>1. Creating
      BY <1>1, <1>3 DEF CallsInv
  <2>2. AttachedSoFar'
      BY <1>2, <2>1 DEF Creating, AttachedSoFar, Attachments, Attachment
  <2>3. Creating'
      BY <1>1, <1>2, <1>3, <2>1, <2>2, CreatingKept DEF Creating
  <2> QED
      BY <1>1, <1>2, <1>3, <2>3, GoesOnInv
<1>4. CASE call.operation # "MESSAGES_CREATE"
  <2>1. OtherCall'
      BY <1>1, <1>2, <1>4 DEF CallsInv, OtherCall
  <2> QED
      BY <1>1, <1>2, <1>4, <2>1, GoesOnInv
<1> QED
    BY <1>3, <1>4

(* Only a message has attachments.                                         *)
LEMMA AttachingCreates ==
    ASSUME CallsInv, Calling, call.at = "attach"
    PROVE  /\ call.operation = "MESSAGES_CREATE" /\ Creating
           /\ DOMAIN call = CallFields /\ call.outcome = None
           /\ DOMAIN world = {"images", "uploads", "messages", "spaces"}
BY DEF CallsInv, OtherCall, Calling

(* The next item attached, the items so far still are, in order.           *)
LEMMA AttachesNext ==
    ASSUME CallsInv, Calling, call.at = "attach",
           Len(call.attached) < Len(call.args.attachments),
           NEW ref, ref = Attachment(call.args, Len(call.attached) + 1),
           call' = [call EXCEPT !.attached = Append(@, ref)], event' = event,
           world'.messages = {}, DOMAIN world' = DOMAIN world
    PROVE  CallsInv'
<1>1. /\ call.operation = "MESSAGES_CREATE" /\ Creating
      /\ DOMAIN call = CallFields /\ call.outcome = None
      /\ DOMAIN world = {"images", "uploads", "messages", "spaces"}
    BY AttachingCreates
<1>2. /\ DOMAIN call' = CallFields /\ call'.bot = call.bot /\ call'.as = call.as
      /\ call'.args = call.args /\ call'.attached = Append(call.attached, ref)
      /\ call'.outcome = call.outcome /\ call'.operation = call.operation
      /\ call'.at = call.at
    BY <1>1 DEF CallFields
<1> DEFINE all == Attachments(call.args)
           n == Len(call.args.attachments)
<1>3. /\ call.attached \in Seq(all) /\ n \in Nat
      /\ \A i \in 1..Len(call.attached) : call.attached[i] = Attachment(call.args, i)
    BY <1>1 DEF Creating, AttachedSoFar, Sendable
<1>4. ref \in all
    BY <1>3 DEF Attachments
<1> HIDE DEF all, n
<1>5. /\ Append(call.attached, ref) \in Seq(all)
      /\ Len(Append(call.attached, ref)) = Len(call.attached) + 1
      /\ Len(call.attached) \in Nat
      /\ \A i \in 1..Len(call.attached) : Append(call.attached, ref)[i] = call.attached[i]
      /\ Append(call.attached, ref)[Len(call.attached) + 1] = ref
    BY <1>3, <1>4
<1>6. Len(call.attached) + 1 <= n
    BY <1>3, <1>5 DEF n
<1>7. \A i \in 1..Len(call.attached) + 1 :
          Append(call.attached, ref)[i] = Attachment(call.args, i)
    BY <1>3, <1>5
<1>8. AttachedSoFar'
  <2>1. /\ Append(call.attached, ref) \in Seq(Attachments(call.args))
        /\ Len(Append(call.attached, ref)) = Len(call.attached) + 1
      BY <1>5 DEF all
  <2>2. Len(call.attached) + 1 <= Len(call.args.attachments)
      BY <1>6 DEF n
  <2>3. call'.attached = Append(call.attached, ref) /\ call'.args = call.args
      BY <1>2
  <2> QED
      BY <2>1, <2>2, <2>3, <1>7 DEF AttachedSoFar, Attachments, Attachment
<1>9. call.args.attachments # <<>>
    BY <1>5, <1>6 DEF n
<1>10. Creating'
    BY <1>1, <1>2, <1>8, <1>9, CreatingKept DEF Creating
<1> QED
    BY <1>1, <1>2, <1>10, GoesOnInv DEF Creating

LEMMA ReferInv == ASSUME CallsInv, event' = event, Refer PROVE CallsInv'
<1>1. /\ Calling /\ call.at = "attach"
      /\ Len(call.attached) < Len(call.args.attachments) /\ world' = world
    BY DEF Refer
<1>2. Creating
    BY <1>1, AttachingCreates
<1> DEFINE next == Len(call.attached) + 1
           item == call.args.attachments[next]
<1>3. next \in DOMAIN call.args.attachments
    BY <1>1, <1>2 DEF Creating, Sendable, AttachedSoFar
<1>4. Canonical(item.space) = Canonical(call.args.space)
    BY <1>2, <1>3 DEF Refer, NextItem, Creating, CreateAccepted, ItemsAccepted, ItemAccepted
<1>5. Ref(Canonical(NextItem.space), "USER", NextItem.file) = Attachment(call.args, next)
    BY <1>4 DEF NextItem, Attachment
<1>6. call' = [call EXCEPT !.attached = Append(@, Attachment(call.args, next))]
    BY <1>5 DEF Refer
<1> QED
    BY <1>1, <1>2, <1>6, AttachesNext DEF Creating

(* Once it has begun, an upload is refused no more.                        *)
LEMMA UploadsArePrepared ==
    ASSUME Creating, NEW i \in DOMAIN call.args.attachments,
           call.args.attachments[i].kind = "file"
    PROVE  ~Unprepared(call.bot, "MEDIA_UPLOAD", "USER")
<1>1. call.args.attachments # <<>>
    BY DEF Creating, Sendable
<1> QED
    BY <1>1 DEF Creating, CreateAccepted, UserPrepared

LEMMA UploadNextInv == ASSUME CallsInv, event' = event, UploadNext PROVE CallsInv'
<1>1. /\ Calling /\ call.at = "attach"
      /\ Len(call.attached) < Len(call.args.attachments)
      /\ NextItem.kind = "file"
    BY DEF UploadNext
<1>2. /\ Creating /\ DOMAIN world = {"images", "uploads", "messages", "spaces"}
      /\ world.messages = {}
    BY <1>1, AttachingCreates, NothingSent
<1> DEFINE next == Len(call.attached) + 1
           ref == Attachment(call.args, next)
<1>3. next \in DOMAIN call.args.attachments
    BY <1>1, <1>2 DEF Creating, Sendable, AttachedSoFar
<1>4. ~Unprepared(call.bot, "MEDIA_UPLOAD", "USER")
    BY <1>1, <1>2, <1>3, UploadsArePrepared DEF NextItem
<1>5. ref = Ref(Canonical(call.args.space), "USER", NextItem.file)
    BY DEF NextItem, Attachment
<1> HIDE DEF ref
<1>6. \/ Ends("failed", "ValueError") /\ UNCHANGED world
      \/ Ends("failed", "ChatAPIError") /\ UNCHANGED world
      \/ /\ world' = [world EXCEPT !.uploads = Append(@, ref)]
         /\ \/ call' = [call EXCEPT !.attached = Append(@, ref)]
            \/ Ends("failed", "ChatAPIError")
    BY <1>4, <1>5 DEF UploadNext
<1>7. world'.messages = {} /\ DOMAIN world' = DOMAIN world
    BY <1>2, <1>6
<1>8. CASE call' = [call EXCEPT !.attached = Append(@, ref)]
    BY <1>1, <1>7, <1>8, AttachesNext DEF ref
<1>9. ASSUME NEW error, Ends("failed", error) PROVE CallsInv'
    BY <1>1, <1>2, <1>7, <1>9, EndInv
<1> QED
    BY <1>6, <1>8, <1>9

LEMMA AttachedInv == ASSUME CallsInv, event' = event, Attached PROVE CallsInv'
<1>1. /\ Calling /\ call.at = "attach" /\ world' = world
      /\ Len(call.attached) = Len(call.args.attachments)
    BY DEF Attached
<1>2. /\ call.operation = "MESSAGES_CREATE" /\ Creating
      /\ DOMAIN call = CallFields /\ call.outcome = None
      /\ DOMAIN world = {"images", "uploads", "messages", "spaces"}
    BY <1>1, AttachingCreates
<1>3. /\ DOMAIN call' = CallFields /\ call'.bot = call.bot /\ call'.as = call.as
      /\ call'.args = call.args /\ call'.attached = call.attached
      /\ call'.outcome = call.outcome /\ call'.operation = call.operation
      /\ call'.at = "execute"
    BY <1>2 DEF Attached, CallFields
<1>4. AttachedSoFar'
    BY <1>2, <1>3 DEF Creating, AttachedSoFar, Attachments, Attachment
<1>5. Creating'
    BY <1>1, <1>2, <1>3, <1>4, CreatingKept DEF Creating
<1> QED
    BY <1>1, <1>2, <1>3, <1>5, GoesOnInv

(* What Google is given, when everything is attached, is what it must be:  *)
(* the rules of Messages.create leave no other message.                    *)
LEMMA SentIsWell ==
    ASSUME Creating, call.at = "execute", NEW landed \in Lands(call.args)
    PROVE  WellSent(Sent(landed))
<1> DEFINE args == call.args
           m == Sent(landed)
<1>1. /\ m.space = Canonical(args.space) /\ m.thread = landed /\ m.as = call.as
      /\ m.viewer = Viewer(args) /\ m.attachments = call.attached
    BY DEF Sent
<1> HIDE DEF m
<1>2. args.private_to # None => m.viewer # None /\ m.viewer = args.private_to.id
  <2> HAVE args.private_to # None
  <2>1. Canonical(args.private_to) # None
      BY DEF Creating, CreateAccepted, PrivateRules
  <2>2. Legible(args.private_to) /\ Canonical(args.private_to) = [id |-> args.private_to.id]
      BY <2>1 DEF Canonical
  <2>3. args.private_to.id # None
      BY <2>2 DEF Creating, Sendable
  <2> QED
      BY <1>1, <2>2, <2>3 DEF Viewer
<1>3. /\ Len(m.attachments) = Len(args.attachments)
      /\ \A i \in DOMAIN m.attachments :
            m.attachments[i] = Ref(m.space, m.as, args.attachments[i].file)
  <2>1. /\ call.attached \in Seq(Attachments(args))
        /\ Len(call.attached) = Len(args.attachments)
        /\ \A i \in 1..Len(call.attached) : call.attached[i] = Attachment(args, i)
      BY DEF Creating, AttachedSoFar
  <2>2. ASSUME NEW i \in DOMAIN call.attached
        PROVE  call.attached[i] = Ref(m.space, m.as, args.attachments[i].file)
    <3>1. i \in 1..Len(call.attached)
        BY <2>1
    <3>2. args.attachments # <<>>
        BY <2>1, <3>1
    <3>3. call.as = "USER"
        BY <3>2 DEF Creating, CreateAccepted, AttachmentRules
    <3> QED
        BY <1>1, <2>1, <3>1, <3>3 DEF Attachment
  <2> QED
      BY <1>1, <2>1, <2>2
<1>4. ASSUME args.by = "reply", HasThread(args.thread)
      PROVE  m.space = [id |-> event.space.name] /\ m.thread = event.thread.name
  <2>1. /\ args.option = "REPLY_MESSAGE_OR_FAIL"
        /\ args.space = NameOf(event.space.name)
        /\ args.thread = Or(event.thread.name, "nameless")
        /\ Canonical(args.space) # None
      BY <1>4 DEF Creating, Sendable, CreateAccepted
  <2>2. Canonical(args.space) = [id |-> event.space.name]
      BY <2>1 DEF Canonical, NameOf, Name
  <2>3. args.thread = event.thread.name
      BY <1>4, <2>1 DEF Or, HasThread
  <2>4. ReplyOption(args) = "REPLY_MESSAGE_OR_FAIL"
      BY <1>4, <2>1, OutcomesAssumption DEF ReplyOption
  <2>5. landed = args.thread
      BY <2>4 DEF Lands
  <2> QED
      BY <1>1, <2>2, <2>3, <2>5
<1> QED
    BY <1>2, <1>3, <1>4 DEF WellSent, m

(* Nor is a message refused that has attachments.                          *)
LEMMA AttachingIsPrepared ==
    ASSUME Creating, call.args.attachments # <<>>
    PROVE  ~Unprepared(call.bot, "MESSAGES_CREATE", call.as)
BY DEF Creating, CreateAccepted, UserPrepared, AttachmentRules

LEMMA ExecuteCreateInv == ASSUME CallsInv, event' = event, ExecuteCreate PROVE CallsInv'
<1>1. /\ Calling /\ call.at = "execute" /\ call.operation = "MESSAGES_CREATE"
      /\ Creating /\ world.messages = {}
      /\ DOMAIN world = {"images", "uploads", "messages", "spaces"}
    BY NothingSent DEF ExecuteCreate, CallsInv
<1>2. CASE /\ Unprepared(call.bot, call.operation, call.as)
           /\ Ends("refused", "CapabilityNotSupported") /\ UNCHANGED world
  <2>1. world'.uploads = <<>>
      BY <1>1, <1>2, AttachingIsPrepared DEF Creating
  <2> QED
      BY <1>1, <1>2, <2>1, EndInv
<1>3. ASSUME NEW landed \in Lands(call.args),
             world' = [world EXCEPT !.messages = @ \cup {Sent(landed)}],
             Ends("done", None) \/ Ends("failed", "ChatServiceUnavailableError")
      PROVE  CallsInv'
  <2>1. WellSent(Sent(landed))
      BY <1>1, SentIsWell
  <2>2. /\ world'.messages = {Sent(landed)}
        /\ DOMAIN world' = {"images", "uploads", "messages", "spaces"}
      BY <1>1, <1>3
  <2>3. \A m \in world'.messages : WellSent(m)
      BY <2>1, <2>2
  <2> QED
      BY <1>1, <1>3, <2>2, <2>3, EndInv
<1>4. ASSUME NEW error, Ends("failed", error), UNCHANGED world PROVE CallsInv'
    BY <1>1, <1>4, EndInv
<1> QED
    BY <1>2, <1>3, <1>4 DEF ExecuteCreate

LEMMA ExecuteInv == ASSUME CallsInv, event' = event, Execute PROVE CallsInv'
<1>1. /\ Calling /\ call.at = "execute" /\ call.operation # "MESSAGES_CREATE"
      /\ OtherCall /\ world.messages = {} /\ world.uploads = <<>>
      /\ DOMAIN world = {"images", "uploads", "messages", "spaces"}
      /\ DOMAIN call = CallFields /\ call.outcome = None
    BY DEF Execute, CallsInv, OtherCall, Calling
<1>2. CASE Ends("refused", "CapabilityNotSupported") /\ UNCHANGED world
    BY <1>1, <1>2, EndInv
<1>3. CASE Done /\ world' = Carried(call.operation)
  <2>1. /\ DOMAIN call' = CallFields /\ call'.outcome = "done"
        /\ call'.args = call.args
      BY <1>1, <1>3 DEF Done, CallFields
  <2>2. /\ DOMAIN world' = {"images", "uploads", "messages", "spaces"}
        /\ world'.messages = {}
    <3>1. CASE call.operation = "SPACES_SETUP"
        BY <1>1, <1>3, <3>1 DEF Carried
    <3>2. CASE call.operation = "MEDIA_UPLOAD"
        BY <1>1, <1>3, <3>2 DEF Carried
    <3>3. CASE call.operation \notin {"SPACES_SETUP", "MEDIA_UPLOAD"}
        BY <1>1, <1>3, <3>3 DEF Carried
    <3> QED
        BY <3>1, <3>2, <3>3
  <2>3. call' # NoCall
      BY <2>1, CallNotNone
  <2>4. ~Calling'
      BY <2>1, OutcomesAssumption DEF Calling
  <2> QED
      BY <2>1, <2>2, <2>3, <2>4 DEF CallsInv
<1>4. CASE call' = [call EXCEPT !.operation = "SPACES_SETUP"] /\ UNCHANGED world
  <2>1. /\ DOMAIN call' = CallFields /\ call'.outcome = None /\ call'.at = "execute"
        /\ call'.args = call.args /\ call'.operation = "SPACES_SETUP"
      BY <1>1, <1>4 DEF CallFields
  <2>2. OtherCall'
      BY <1>1, <1>4, <2>1 DEF OtherCall
  <2> QED
      BY <1>1, <1>4, <2>1, <2>2, GoesOnInv
<1>5. ASSUME NEW error, Ends("failed", error), UNCHANGED world PROVE CallsInv'
    BY <1>1, <1>5, EndInv
<1> QED
    BY <1>2, <1>3, <1>4, <1>5 DEF Execute

LEMMA CallStepInv == ASSUME CallsInv, CallStep, event' = event PROVE CallsInv'
BY SourceUnreadableInv, PublishInv, PublishedInv, ReferInv, UploadNextInv, AttachedInv,
   ExecuteCreateInv, ExecuteInv DEF CallStep

-----------------------------------------------------------------------------
(* Turns and calls together. *)

LEMMA TurnStepInv == ASSUME TurnInv, CallsInv, TurnStep PROVE CallsInv'
<1>1. CASE Finish
    BY <1>1 DEF Finish, CallsInv, Calling, Empty
<1>2. CASE Parse
    BY <1>2, CallsKept DEF Parse, TurnInv, Silent
<1>3. CASE Receive \/ Verify \/ Filter \/ Respond \/ Return \/ Raise \/ Serialize \/ Acknowledge
    BY <1>3, CallsKept
    DEF Receive, Verify, Filter, Respond, Return, Raise, Serialize, Acknowledge
<1> QED
    BY <1>1, <1>2, <1>3 DEF TurnStep

LEMMA NextInv == Inv /\ [Next]_vars => Inv'
<1> SUFFICES ASSUME Inv, [Next]_vars PROVE Inv'
    OBVIOUS
<1>1. TurnInv'
    BY NextTurnInv DEF Inv
<1>2. CASE UNCHANGED vars
    BY <1>1, <1>2, CallsKept DEF Inv, vars, turnVars
<1>3. CASE CallStep /\ UNCHANGED turnVars
    BY <1>1, <1>3, CallStepInv DEF Inv, turnVars
<1>4. CASE TurnStep \/ Speak
    BY <1>1, <1>4, TurnStepInv, SpeakInv DEF Inv
<1> QED
    BY <1>2, <1>3, <1>4 DEF Next

LEMMA Invariance == Spec => []Inv
<1>1. Init => Inv
    BY InitTurnInv, InitCallsInv DEF Inv
<1> QED
    BY <1>1, NextInv, PTL DEF Spec

(* A private message has its one viewer, whatever mode, identity and name  *)
(* the program gave (_resolve_private_viewer, client/resources/messages).  *)
THEOREM PrivateIsKept == Spec => []PrivateStaysPrivate
<1>1. Inv => PrivateStaysPrivate
    BY DEF Inv, CallsInv, WellSent, PrivateStaysPrivate
<1> QED
    BY <1>1, Invariance, PTL

(* Everything a send can be refused for is looked at before the first of   *)
(* its files is uploaded.                                                  *)
THEOREM RefusalComesFirst == Spec => []RefusedUploadsNothing
<1>1. Inv => RefusedUploadsNothing
    BY DEF Inv, CallsInv, RefusedUploadsNothing
<1> QED
    BY <1>1, Invariance, PTL

(* The attachments of a message are the items it was to have, in order,    *)
(* uploaded to its own space by the user that sends it.                    *)
THEOREM AttachmentsBelong == Spec => []AttachmentsFit
<1>1. Inv => AttachmentsFit
    BY DEF Inv, CallsInv, WellSent, AttachmentsFit
<1> QED
    BY <1>1, Invariance, PTL

(* MessageEvent.reply lands in the thread it replies to, or nowhere.       *)
THEOREM ReplyStaysInThread == Spec => []RepliesStayInThread
<1>1. Inv => RepliesStayInThread
    BY DEF Inv, CallsInv, WellSent, RepliesStayInThread
<1> QED
    BY <1>1, Invariance, PTL

-----------------------------------------------------------------------------
(* What a delivery says. *)

LEMMA GetOfMerge ==
    ASSUME NEW f, NEW g, NEW key
    PROVE  Get(With(f, g), key) = IF key \in DOMAIN f THEN f[key] ELSE Get(g, key)
BY DEF With, Get

LEMMA GetWithout ==
    ASSUME NEW f, NEW keys, NEW key
    PROVE  Get(Without(f, keys), key) = IF key \in keys THEN None ELSE Get(f, key)
BY DEF Without, Restrict, Get

(* A mapping that two mappings cannot be told apart from by their fields.  *)
Alike(first, second) ==
    \A key \in DOMAIN Models.InteractionModel : Get(first, key) = Get(second, key)

LEMMA EventFields ==
    DOMAIN Models.InteractionModel =
        {"type", "eventTime", "message", "user", "thread", "space", "action", "isDialogEvent",
         "dialogEventType", "common", "appCommandMetadata"}
BY DEF Models

(* The event that is merged, for each family.                              *)
LEMMA MergedOf ==
    ASSUME NEW raw
    PROVE  /\ Get(raw, "chat") = None => Merged(raw) = Without(raw, {"commonEventObject"})
           /\ IsMapping(Get(raw, "chat")) /\ Get(raw, "type") = None => Merged(raw) = raw.chat
           /\ IsMapping(Get(raw, "chat")) /\ Get(raw, "type") # None =>
                Merged(raw) = With(raw.chat, Without(raw, NotMerged))
<1>1. IsMapping(Get(raw, "chat")) => Get(raw, "chat") = raw.chat
    BY DEF Get, IsMapping
<1>2. ~IsMapping(None)
    BY DEF IsMapping
<1> QED
    BY <1>1, <1>2 DEF Merged

LEMMA TellingsOf ==
    ASSUME NEW raw
    PROVE  /\ Get(raw, "chat") = None /\ Get(raw, "type") # None =>
                Tellings(raw) = {Without(raw, {"chat", "commonEventObject"})}
           /\ IsMapping(Get(raw, "chat")) /\ Get(raw, "type") = None => Tellings(raw) = {raw.chat}
           /\ IsMapping(Get(raw, "chat")) /\ Get(raw, "type") # None =>
                Tellings(raw) = {raw.chat, Without(raw, {"chat", "commonEventObject", "common"})}
           /\ ~IsMapping(Get(raw, "chat")) /\ Get(raw, "type") = None => Tellings(raw) = {}
<1>1. CASE Get(raw, "chat") = None
    BY <1>1 DEF Tellings, Elsewhere, IsMapping
<1>2. CASE Get(raw, "chat") # None
  <2>1. Elsewhere(raw) = {"chat", "commonEventObject", "common"}
      BY <1>2 DEF Elsewhere
  <2> QED
      BY <1>2, <2>1 DEF Tellings, IsMapping
<1> QED
    BY <1>1, <1>2

(* What is told of the common object: the inner one and the outer one.     *)
LEMMA SaidOfCommon ==
    ASSUME NEW raw, Get(raw, "chat") # Malformed, Tellings(raw) # {}
    PROVE  Said(raw, "common") =
               {Get(Merged(raw), "common"), Get(raw, "commonEventObject")} \ {None}
<1> DEFINE told == {t["common"] : t \in {d \in Tellings(raw) : "common" \in DOMAIN d}}
<1>s. Said(raw, "common") = (told \cup {Get(raw, "commonEventObject")}) \ {None}
    BY DEF Said
<1>1. CASE Get(raw, "chat") = None
  <2>1. Tellings(raw) = {Without(raw, {"chat", "commonEventObject"})}
      BY <1>1, TellingsOf DEF IsMapping
  <2>2. told \ {None} = {Get(Without(raw, {"chat", "commonEventObject"}), "common")} \ {None}
      BY <2>1 DEF Get
  <2>3. Get(Without(raw, {"chat", "commonEventObject"}), "common") = Get(raw, "common")
      BY GetWithout
  <2>4. Get(Merged(raw), "common") = Get(raw, "common")
      BY <1>1, GetWithout, MergedOf
  <2> QED
      BY <1>s, <2>2, <2>3, <2>4
<1>2. CASE IsMapping(Get(raw, "chat"))
  <2> DEFINE own == Without(raw, {"chat", "commonEventObject", "common"})
  <2>1. Tellings(raw) = {raw.chat} \/ Tellings(raw) = {raw.chat, own}
      BY <1>2, TellingsOf
  <2>2. "common" \notin DOMAIN own
      BY DEF Without, Restrict
  <2>3. told \ {None} = {Get(raw.chat, "common")} \ {None}
      BY <2>1, <2>2 DEF Get
  <2>4. Get(Merged(raw), "common") = Get(raw.chat, "common")
    <3>1. CASE Get(raw, "type") = None
        BY <1>2, <3>1, MergedOf
    <3>2. CASE Get(raw, "type") # None
      <4>1. Merged(raw) = With(raw.chat, Without(raw, NotMerged))
          BY <1>2, <3>2, MergedOf
      <4>2. Get(Without(raw, NotMerged), "common") = None
          BY GetWithout DEF NotMerged
      <4> QED
          BY <4>1, <4>2, GetOfMerge DEF Get
    <3> QED
        BY <3>1, <3>2
  <2> QED
      BY <1>s, <2>3, <2>4
<1> QED
    BY <1>1, <1>2 DEF IsMapping

(* What is told of any other field is what the merged event has there.     *)
LEMMA SaidOfOthers ==
    ASSUME NEW raw, Sensible(raw), NEW key,
           key \notin {"chat", "commonEventObject", "common"}
    PROVE  Said(raw, key) \ {None} = {Get(Merged(raw), key)} \ {None}
<1> DEFINE told == {t[key] : t \in {d \in Tellings(raw) : key \in DOMAIN d}}
<1>s. Said(raw, key) = told
    BY DEF Said
<1>1. CASE Get(raw, "chat") = None
  <2>1. Tellings(raw) = {Without(raw, {"chat", "commonEventObject"})}
      BY <1>1, TellingsOf DEF Sensible, IsMapping
  <2>2. told \ {None} = {Get(Without(raw, {"chat", "commonEventObject"}), key)} \ {None}
      BY <2>1 DEF Get
  <2>3. Get(Without(raw, {"chat", "commonEventObject"}), key) = Get(raw, key)
      BY GetWithout
  <2>4. Get(Merged(raw), key) = Get(raw, key)
      BY <1>1, GetWithout, MergedOf
  <2> QED
      BY <1>s, <2>2, <2>3, <2>4
<1>2. CASE IsMapping(Get(raw, "chat")) /\ Get(raw, "type") = None
  <2>1. Tellings(raw) = {raw.chat}
      BY <1>2, TellingsOf
  <2>2. Merged(raw) = raw.chat
      BY <1>2, MergedOf
  <2> QED
      BY <1>s, <2>1, <2>2 DEF Get
<1>3. CASE IsMapping(Get(raw, "chat")) /\ Get(raw, "type") # None
  <2> DEFINE own == Without(raw, {"chat", "commonEventObject", "common"})
  <2>1. Tellings(raw) = {raw.chat, own}
      BY <1>3, TellingsOf
  <2>2. Get(own, key) = Get(raw, key)
      BY GetWithout
  <2>3. Merged(raw) = With(raw.chat, Without(raw, NotMerged))
      BY <1>3, MergedOf
  <2>4. CASE key \in DOMAIN raw.chat
    <3>1. Get(Merged(raw), key) = raw.chat[key]
        BY <2>3, <2>4, GetOfMerge
    <3>2. raw.chat[key] \in Said(raw, key)
        BY <1>s, <2>1, <2>4
    <3>3. \A a, b \in Said(raw, key) : a = b
        BY <2>1, <2>4 DEF Sensible, Mentioned
    <3> QED
        BY <3>1, <3>2, <3>3
  <2>5. CASE key \notin DOMAIN raw.chat
    <3>1. Get(Merged(raw), key) = Get(Without(raw, NotMerged), key)
        BY <2>3, <2>5, GetOfMerge
    <3>2. key # "type"
        BY <1>3, <2>1, <2>5 DEF Sensible, Get
    <3>3. Get(Merged(raw), key) = Get(own, key)
        BY <3>1, <3>2, <2>2, GetWithout DEF NotMerged
    <3>4. told \ {None} = {Get(own, key)} \ {None}
        BY <2>1, <2>5 DEF Get
    <3> QED
        BY <1>s, <3>3, <3>4
  <2> QED
      BY <2>4, <2>5
<1> QED
    BY <1>1, <1>2, <1>3 DEF Sensible, IsMapping

(* What describes one event is an envelope that the parser does not refuse *)
(* but for its common object.                                              *)
LEMMA SensibleIsSupported ==
    ASSUME NEW raw, Sensible(raw)
    PROVE  /\ ~Unsupported(raw) /\ ~Conflicting(raw)
           /\ CommonRefused(raw) <=> Malformed \in Said(raw, "common")
<1>1. ~Unsupported(raw)
  <2>1. CASE IsMapping(Get(raw, "chat"))
    <3>1. raw.chat \in Tellings(raw)
        BY <2>1, TellingsOf
    <3> QED
        BY <2>1, <3>1 DEF Unsupported, Sensible, IsMapping, Get
  <2>2. CASE ~IsMapping(Get(raw, "chat"))
      BY <2>2, TellingsOf DEF Unsupported, Sensible, IsMapping
  <2> QED
      BY <2>1, <2>2
<1>2. ~Conflicting(raw)
  <2> SUFFICES ASSUME IsMapping(Get(raw, "chat")), Get(raw, "type") # None,
                      NEW key \in (DOMAIN raw \ (NotMerged \ {"type"})) \cap DOMAIN raw.chat,
                      raw[key] # raw.chat[key]
               PROVE  FALSE
    <3>1. ASSUME IsMapping(Get(raw, "chat")) PROVE Get(raw.chat, "type") # None
        BY <3>1, TellingsOf DEF Sensible
    <3> QED
        BY <3>1 DEF Conflicting, NotMerged, Get
  <2> DEFINE own == Without(raw, {"chat", "commonEventObject", "common"})
  <2>1. Tellings(raw) = {raw.chat, own}
      BY TellingsOf
  <2>2. key \in DOMAIN own /\ own[key] = raw[key]
      BY DEF Without, Restrict, NotMerged
  <2>3. key # "common"
      BY DEF NotMerged
  <2>4. {raw[key], raw.chat[key]} \subseteq Said(raw, key)
      BY <2>1, <2>2, <2>3 DEF Said
  <2>5. key \in Mentioned(raw)
      BY <2>1 DEF Mentioned
  <2> QED
      BY <2>4, <2>5 DEF Sensible
<1>3. CommonRefused(raw) <=> Malformed \in Said(raw, "common")
  <2>1. \A a, b \in Said(raw, "common") : a = b
      BY DEF Sensible, Mentioned
  <2> QED
      BY <2>1, SaidOfCommon, MalformedAssumption DEF Sensible, CommonRefused, IsMapping
<1> QED
    BY <1>1, <1>2, <1>3

(* Normalizing leaves what the delivery says, field by field.              *)
LEMMA NormalizedSays ==
    ASSUME NEW raw, NEW e, Carries(raw, e)
    PROVE  Alike(normalize_envelope(raw), e)
<1> DEFINE outer == Get(raw, "commonEventObject")
<1>1. ASSUME NEW key \in DOMAIN Models.InteractionModel, key # "common"
      PROVE  Get(normalize_envelope(raw), key) = Get(e, key)
  <2>1. Get(normalize_envelope(raw), key) = Get(Merged(raw), key)
    <3>1. CASE outer = None
        BY <3>1 DEF normalize_envelope
    <3>2. CASE outer # None
      <4>1. normalize_envelope(raw) = With([common |-> outer], Merged(raw))
          BY <3>2 DEF normalize_envelope
      <4>2. key \notin DOMAIN [common |-> outer]
          BY <1>1
      <4> QED
          BY <4>1, <4>2, GetOfMerge
    <3> QED
        BY <3>1, <3>2
  <2>2. key \notin {"chat", "commonEventObject", "common"}
      BY <1>1, EventFields
  <2>3. {Get(Merged(raw), key)} \ {None} = {Get(e, key)} \ {None}
      BY <2>2, SaidOfOthers DEF Carries
  <2> QED
      BY <2>1, <2>3
<1>2. Get(normalize_envelope(raw), "common") = Get(e, "common")
  <2>1. {Get(Merged(raw), "common"), outer} \ {None} = {Get(e, "common")} \ {None}
      BY SaidOfCommon, EventFields DEF Carries, Sensible
  <2>2. CASE outer = None
      BY <2>1, <2>2 DEF normalize_envelope
  <2>3. CASE outer # None
    <3>1. normalize_envelope(raw) = With([common |-> outer], Merged(raw))
        BY <2>3 DEF normalize_envelope
    <3>2. Get(normalize_envelope(raw), "common") = outer
        BY <3>1, GetOfMerge
    <3> QED
        BY <2>1, <2>3, <3>2
  <2> QED
      BY <2>2, <2>3
<1> QED
    BY <1>1, <1>2 DEF Alike

(* An event in the direct family describes itself.                         *)
LEMMA DirectCarriesItself ==
    ASSUME NEW e, DirectEvent(e)
    PROVE  Carries(e, e)
<1> DEFINE own == Without(e, {"chat", "commonEventObject"})
<1>n. /\ Get(e, "chat") = None /\ Get(e, "type") # None /\ Get(e, "commonEventObject") = None
      /\ ~IsMapping(None)
    BY DEF DirectEvent, IsMapping
<1>1. Tellings(e) = {own}
    BY <1>n, TellingsOf
<1>2. \A key : key \notin {"chat", "commonEventObject"} => Get(own, key) = Get(e, key)
    BY GetWithout
<1>3. Sensible(e)
  <2>1. Get(e, "chat") # Malformed
      BY <1>n, MalformedAssumption
  <2>2. \A key : \A a, b \in Said(e, key) : a = b
      BY <1>n, <1>1 DEF Said
  <2> QED
      BY <1>n, <1>1, <1>2, <2>1, <2>2 DEF Sensible, DirectEvent
<1>4. ASSUME NEW key \in DOMAIN Models.InteractionModel
      PROVE  Said(e, key) \ {None} = {Get(e, key)} \ {None}
  <2>1. key \notin {"chat", "commonEventObject"}
      BY <1>4, EventFields
  <2>2. Said(e, key) \ {None} = {Get(own, key)} \ {None}
      BY <1>n, <1>1 DEF Said, Get
  <2> QED
      BY <1>2, <2>1, <2>2
<1> QED
    BY <1>n, <1>3, <1>4 DEF Carries

-----------------------------------------------------------------------------
(* The parser looks at the fields of an event through Get. *)

LEMMA SubIsGet ==
    ASSUME NEW mapping, NEW field, NEW inner
    PROVE  Sub(mapping, field, inner) =
               IF IsMapping(Get(mapping, field)) THEN Get(Get(mapping, field), inner) ELSE None
BY DEF Sub, Get, IsMapping

LEMMA AlikeFields ==
    ASSUME NEW n, NEW m, Alike(n, m)
    PROVE  /\ \A key \in DOMAIN Models.InteractionModel : Get(n, key) = Get(m, key)
           /\ \A key \in DOMAIN Models.InteractionModel : \A inner :
                Sub(n, key, inner) = Sub(m, key, inner)
BY SubIsGet DEF Alike

LEMMA AlikePeople ==
    ASSUME NEW n, NEW m, Alike(n, m)
    PROVE  _user(n) = _user(m) /\ _space(n) = _space(m) /\ _thread(n) = _thread(m)
<1> {"user", "space", "thread", "message"} \subseteq DOMAIN Models.InteractionModel
    BY EventFields
<1>1. _user(n) = _user(m)
    BY AlikeFields DEF _user
<1>2. _space(n) = _space(m)
    BY AlikeFields DEF _space
<1> QED
    BY <1>1, <1>2, AlikeFields DEF _thread

LEMMA CommonIsGet ==
    ASSUME NEW model
    PROVE  Common(model) = IF Get(model, "common") = None THEN <<>> ELSE Get(model, "common")
BY DEF Common, Get

LEMMA AlikeActions ==
    ASSUME NEW n, NEW m, Alike(n, m)
    PROVE  /\ Common(n) = Common(m)
           /\ ActionItems(n) = ActionItems(m)
           /\ Parameters(n) = Parameters(m) /\ Function(n) = Function(m)
           /\ FormInputs(n) = FormInputs(m)
           /\ _common_actionAccepted(n) <=> _common_actionAccepted(m)
<1> {"common", "action"} \subseteq DOMAIN Models.InteractionModel
    BY EventFields
<1>1. Common(n) = Common(m)
    BY AlikeFields, CommonIsGet
<1>2. ActionItems(n) = ActionItems(m)
    BY AlikeFields DEF ActionItems
<1>3. Function(n) = Function(m) /\ FormInputs(n) = FormInputs(m)
  <2>1. \A inner : Sub(n, "action", inner) = Sub(m, "action", inner)
      BY AlikeFields
  <2>2. Function(n) = Function(m)
      BY <1>1, <2>1, Zenon DEF Function
  <2>3. FormInputs(n) = FormInputs(m)
      BY <1>1 DEF FormInputs
  <2> QED
      BY <2>2, <2>3
<1>4. ActionParameters(n) = ActionParameters(m)
  <2> DEFINE Of(items) == [key \in {items[i].key : i \in DOMAIN items} |->
                              (CHOOSE item \in Range(items) : item.key = key).value]
  <2>1. ActionParameters(n) = Of(ActionItems(n)) /\ ActionParameters(m) = Of(ActionItems(m))
      BY DEF ActionParameters
  <2> HIDE DEF Of
  <2> QED
      BY <1>2, <2>1
<1>5. CommonParameters(n) = CommonParameters(m)
    BY <1>1 DEF CommonParameters
<1>6. _common_actionAccepted(n) <=> _common_actionAccepted(m)
    BY <1>1, <1>2, <1>3, <1>4, <1>5, AlikeFields DEF _common_actionAccepted
<1> QED
    BY <1>1, <1>2, <1>3, <1>4, <1>5, <1>6 DEF Parameters

LEMMA AlikeBase ==
    ASSUME NEW n, NEW m, Alike(n, m), NEW raw
    PROVE  Base(n, raw) = Base(m, raw)
<1> {"eventTime", "dialogEventType"} \subseteq DOMAIN Models.InteractionModel
    BY EventFields
<1> QED
    BY AlikeFields, AlikePeople, AlikeActions DEF Base

LEMMA AlikeWellTyped ==
    ASSUME NEW n, NEW m, Alike(n, m)
    PROVE  WellTyped(n) <=> WellTyped(m)
<1> "type" \in DOMAIN Models.InteractionModel
    BY EventFields
<1>1. Given("InteractionModel", n) = Given("InteractionModel", m)
  <2>1. ASSUME NEW e
        PROVE  Given("InteractionModel", e) =
                   {field \in DOMAIN Models.InteractionModel : Get(e, field) # None}
      BY DEF Given, Get
  <2> QED
      BY <2>1 DEF Alike
<1>2. \A field \in Given("InteractionModel", n) : n[field] = m[field]
    BY <1>1 DEF Given, Alike, Get
<1>3. Objects("InteractionModel", n) = Objects("InteractionModel", m)
    BY <1>1 DEF Objects
<1>4. Flat("InteractionModel", n) <=> Flat("InteractionModel", m)
    BY <1>1, <1>2 DEF Flat
<1>5. \A field \in Objects("InteractionModel", n) : n[field] = m[field]
    BY <1>2 DEF Objects
<1>6. Get(n, "type") = Get(m, "type")
    BY DEF Alike
<1> QED
    BY <1>3, <1>4, <1>5, <1>6 DEF WellTyped

(* What is accepted has a type.                                            *)
LEMMA AcceptedHasType ==
    ASSUME NEW model, ModelAccepted(model)
    PROVE  model.type = Get(model, "type") /\ Get(model, "type") # None
BY DEF ModelAccepted, WellTyped, Get

LEMMA AlikeModelAccepted ==
    ASSUME NEW n, NEW m, Alike(n, m)
    PROVE  ModelAccepted(n) <=> ModelAccepted(m)
<1> {"type", "eventTime", "isDialogEvent", "dialogEventType"} \subseteq DOMAIN Models.InteractionModel
    BY EventFields
<1>1. \A key \in {"type", "eventTime", "isDialogEvent", "dialogEventType"} : Get(n, key) = Get(m, key)
    BY AlikeFields
<1>2. _dialogAccepted(n) <=> _dialogAccepted(m)
    BY <1>1 DEF _dialogAccepted
<1>3. WellTyped(n) <=> WellTyped(m)
    BY AlikeWellTyped
<1>4. WellTyped(n) => n.type = m.type
    BY <1>1, <1>3 DEF WellTyped, Get
<1> QED
    BY <1>1, <1>2, <1>3, <1>4 DEF ModelAccepted

(* What has a message object has the one that Get finds.                   *)
LEMMA AlikeMessage ==
    ASSUME NEW n, NEW m, Alike(n, m)
    PROVE  /\ IsMapping(Get(n, "message")) <=> IsMapping(Get(m, "message"))
           /\ IsMapping(Get(n, "message")) => n.message = m.message
           /\ IsMapping(Get(n, "appCommandMetadata")) => n.appCommandMetadata = m.appCommandMetadata
<1> {"message", "appCommandMetadata"} \subseteq DOMAIN Models.InteractionModel
    BY EventFields
<1>1. Get(n, "message") = Get(m, "message") /\ Get(n, "appCommandMetadata") = Get(m, "appCommandMetadata")
    BY AlikeFields
<1> QED
    BY <1>1 DEF Get, IsMapping

LEMMA AlikeMessageAccepted ==
    ASSUME NEW n, NEW m, Alike(n, m)
    PROVE  /\ IsSlash(n) <=> IsSlash(m)
           /\ MessageAccepted(n) <=> MessageAccepted(m)
<1> "message" \in DOMAIN Models.InteractionModel
    BY EventFields
<1>1. IsSlash(n) <=> IsSlash(m)
    BY AlikeFields DEF IsSlash
<1> QED
    BY <1>1, AlikeMessage DEF MessageAccepted

LEMMA AlikeTypeAccepted ==
    ASSUME NEW n, NEW m, Alike(n, m), n.type = m.type
    PROVE  TypeAccepted(n) <=> TypeAccepted(m)
<1> {"appCommandMetadata"} \subseteq DOMAIN Models.InteractionModel
    BY EventFields
<1>1. PresenceAccepted(n) <=> PresenceAccepted(m)
    BY AlikePeople DEF PresenceAccepted
<1>2. AppCommandAccepted(n) <=> AppCommandAccepted(m)
    BY AlikeFields DEF AppCommandAccepted
<1>3. MessageAccepted(n) <=> MessageAccepted(m)
    BY AlikeMessageAccepted
<1>4. Function(n) = Function(m) /\ (_common_actionAccepted(n) <=> _common_actionAccepted(m))
    BY AlikeActions
<1>5. /\ MessageAccepted(n) \in BOOLEAN /\ PresenceAccepted(n) \in BOOLEAN
      /\ AppCommandAccepted(n) \in BOOLEAN
      /\ MessageAccepted(m) \in BOOLEAN /\ PresenceAccepted(m) \in BOOLEAN
      /\ AppCommandAccepted(m) \in BOOLEAN
    BY DEF MessageAccepted, PresenceAccepted, AppCommandAccepted
<1>6. /\ MessageAccepted(n) = MessageAccepted(m) /\ PresenceAccepted(n) = PresenceAccepted(m)
      /\ AppCommandAccepted(n) = AppCommandAccepted(m)
    BY <1>1, <1>2, <1>3, <1>5
<1> QED
    BY <1>4, <1>6 DEF TypeAccepted

-----------------------------------------------------------------------------
(* The events that two families become. *)

(* The fields of an event that do not say how it came.                     *)
Same(first, second) ==
    /\ DOMAIN first = DOMAIN second
    /\ \A field \in DOMAIN first \ {"raw", "source"} : first[field] = second[field]

LEMMA AlikeMessageFields ==
    ASSUME NEW n, NEW m, Alike(n, m), MessageAccepted(n)
    PROVE  MessageFields(n) = MessageFields(m)
<1> "message" \in DOMAIN Models.InteractionModel
    BY EventFields
<1>1. n.message = m.message
    BY AlikeMessage DEF MessageAccepted
<1> QED
    BY <1>1, AlikeFields, AlikeMessageAccepted DEF MessageFields

LEMMA AlikeActionFields ==
    ASSUME NEW n, NEW m, Alike(n, m), NEW raw, NEW e
    PROVE  Same(ActionFields(n, raw), ActionFields(m, e))
<1> "message" \in DOMAIN Models.InteractionModel
    BY EventFields
<1>1. IsMapping(Sub(n, "message", "sender")) => n.message = m.message
    BY AlikeMessage DEF Sub, IsMapping
<1>2. ActionFields(n, raw).sender_type = ActionFields(m, e).sender_type
    BY <1>1, AlikeFields DEF ActionFields
<1>3. parse_form_inputs(FormInputs(n)) = parse_form_inputs(FormInputs(m))
    BY AlikeActions
<1> QED
    BY <1>2, <1>3, AlikeFields, AlikeActions DEF ActionFields, Same

LEMMA AlikeAppCommand ==
    ASSUME NEW n, NEW m, Alike(n, m), AppCommandAccepted(n)
    PROVE  AppCommandFields(n) = AppCommandFields(m)
<1> {"message", "appCommandMetadata"} \subseteq DOMAIN Models.InteractionModel
    BY EventFields
<1>1. n.appCommandMetadata = m.appCommandMetadata
    BY AlikeMessage DEF AppCommandAccepted, Sub
<1>2. /\ Sub(n, "message", "text") = Sub(m, "message", "text")
      /\ Sub(n, "message", "name") = Sub(m, "message", "name")
    BY AlikeFields
<1> QED
    BY <1>1, <1>2, Zenon DEF AppCommandFields

LEMMA AlikeWidgetFields ==
    ASSUME NEW n, NEW m, Alike(n, m), NEW class
    PROVE  WidgetFields(class, n) = WidgetFields(class, m)
<1>1. parse_form_inputs(FormInputs(n)) = parse_form_inputs(FormInputs(m))
    BY AlikeActions
<1> QED
    BY <1>1, AlikeActions DEF WidgetFields

LEMMA AlikeTypeFields ==
    ASSUME NEW n, NEW m, Alike(n, m), n.type = m.type, TypeAccepted(n), NEW raw, NEW e
    PROVE  /\ Same(TypeFields(n, raw), TypeFields(m, e))
           /\ "raw" \notin DOMAIN TypeFields(n, raw)
<1>p. DOMAIN Presence = {"ADDED_TO_SPACE", "REMOVED_FROM_SPACE", "APP_HOME"}
    BY DEF Presence
<1>1. CASE n.type = "MESSAGE"
  <2>1. TypeFields(n, raw) = MessageFields(n) /\ TypeFields(m, e) = MessageFields(m)
      BY <1>1, <1>p DEF TypeFields
  <2>2. MessageAccepted(n)
      BY <1>1, <1>p DEF TypeAccepted
  <2>3. "raw" \notin DOMAIN MessageFields(n)
      BY DEF MessageFields
  <2> QED
      BY <2>1, <2>2, <2>3, AlikeMessageFields DEF Same
<1>2. CASE n.type \in DOMAIN Presence
  <2>1. TypeFields(n, raw) = [class |-> Presence[n.type]] /\ TypeFields(m, e) = [class |-> Presence[n.type]]
      BY <1>2, <1>p DEF TypeFields
  <2> QED
      BY <2>1 DEF Same
<1>3. CASE n.type = "CARD_CLICKED"
  <2>1. TypeFields(n, raw) = ActionFields(n, raw) /\ TypeFields(m, e) = ActionFields(m, e)
      BY <1>3, <1>p DEF TypeFields
  <2>2. "raw" \notin DOMAIN ActionFields(n, raw)
      BY DEF ActionFields
  <2> QED
      BY <2>1, <2>2, AlikeActionFields
<1>4. CASE n.type = "WIDGET_UPDATED"
  <2>1. /\ TypeFields(n, raw) = WidgetFields("WidgetUpdatedEvent", n)
        /\ TypeFields(m, e) = WidgetFields("WidgetUpdatedEvent", m)
      BY <1>4, <1>p DEF TypeFields
  <2>2. "raw" \notin DOMAIN WidgetFields("WidgetUpdatedEvent", n)
      BY DEF WidgetFields
  <2> QED
      BY <2>1, <2>2, AlikeWidgetFields DEF Same
<1>5. CASE n.type = "APP_COMMAND"
  <2>1. TypeFields(n, raw) = AppCommandFields(n) /\ TypeFields(m, e) = AppCommandFields(m)
      BY <1>5, <1>p DEF TypeFields
  <2>2. AppCommandAccepted(n)
      BY <1>5, <1>p DEF TypeAccepted
  <2>3. "raw" \notin DOMAIN AppCommandFields(n)
      BY DEF AppCommandFields
  <2> QED
      BY <2>1, <2>2, <2>3, AlikeAppCommand DEF Same
<1>6. CASE n.type = "SUBMIT_FORM"
  <2>1. /\ TypeFields(n, raw) = WidgetFields("FormSubmitEvent", n)
        /\ TypeFields(m, e) = WidgetFields("FormSubmitEvent", m)
      BY <1>6, <1>p DEF TypeFields
  <2>2. "raw" \notin DOMAIN WidgetFields("FormSubmitEvent", n)
      BY DEF WidgetFields
  <2> QED
      BY <2>1, <2>2, AlikeWidgetFields DEF Same
<1>7. CASE n.type \notin {"MESSAGE", "CARD_CLICKED", "WIDGET_UPDATED", "APP_COMMAND", "SUBMIT_FORM"}
                         \cup DOMAIN Presence
  <2>1. /\ TypeFields(n, raw) = [class |-> "UnknownEvent", original_type |-> n.type]
        /\ TypeFields(m, e) = [class |-> "UnknownEvent", original_type |-> n.type]
      BY <1>7 DEF TypeFields
  <2> QED
      BY <2>1 DEF Same
<1> QED
    BY <1>1, <1>2, <1>3, <1>4, <1>5, <1>6, <1>7

(* A delivery is refused exactly when the event that it describes is.      *)
LEMMA CarriedIsRefused ==
    ASSUME NEW raw, NEW e, Carries(raw, e)
    PROVE  Refused(raw) <=> Refused(e)
<1>1. ASSUME NEW d, Carries(d, e)
      PROVE  Interpretable(d) <=> /\ Get(e, "common") # Malformed
                                  /\ ModelAccepted(e) /\ TypeAccepted(e)
  <2> DEFINE n == normalize_envelope(d)
  <2>1. Alike(n, e)
      BY <1>1, NormalizedSays
  <2>2. EnvelopeRefused(d) <=> Malformed \in Said(d, "common")
      BY <1>1, SensibleIsSupported DEF EnvelopeRefused, Carries
  <2>3. Said(d, "common") \ {None} = {Get(e, "common")} \ {None}
      BY <1>1, EventFields DEF Carries
  <2>4. EnvelopeRefused(d) <=> Get(e, "common") = Malformed
      BY <2>2, <2>3, MalformedAssumption
  <2>5. ModelAccepted(n) <=> ModelAccepted(e)
      BY <2>1, AlikeModelAccepted
  <2>6. ModelAccepted(n) => n.type = e.type
      BY <2>1, <2>5, AcceptedHasType, EventFields DEF Alike
  <2>7. ModelAccepted(n) => (TypeAccepted(n) <=> TypeAccepted(e))
      BY <2>1, <2>6, AlikeTypeAccepted
  <2>8. IsMapping(d)
      BY <1>1 DEF Carries, Sensible
  <2> QED
      BY <2>4, <2>5, <2>7, <2>8 DEF Interpretable
<1>2. Carries(e, e)
    BY DirectCarriesItself DEF Carries
<1> QED
    BY <1>1, <1>2 DEF Refused

(* It becomes the event that it describes, but for raw and the source.     *)
LEMMA CarriedIsParsed ==
    ASSUME NEW raw, NEW e, Carries(raw, e), ~Refused(raw)
    PROVE  /\ Same(parse_interaction(raw), parse_interaction(e))
           /\ "raw" \in DOMAIN parse_interaction(raw)
           /\ parse_interaction(raw).raw = raw
<1> DEFINE n == normalize_envelope(raw)
           m == normalize_envelope(e)
<1>1. Carries(e, e)
    BY DirectCarriesItself DEF Carries
<1>2. Alike(n, m)
    BY <1>1, NormalizedSays DEF Alike
<1>3. ModelAccepted(n) /\ TypeAccepted(n)
    BY DEF Refused, Interpretable
<1>4. ModelAccepted(m)
    BY <1>2, <1>3, AlikeModelAccepted
<1>5. n.type = m.type
    BY <1>2, <1>3, <1>4, AcceptedHasType, EventFields DEF Alike
<1>6. /\ Same(TypeFields(n, raw), TypeFields(m, e))
      /\ "raw" \notin DOMAIN TypeFields(n, raw)
    BY <1>2, <1>3, <1>5, AlikeTypeFields
<1>7. Same(Base(n, raw), Base(m, e)) /\ "raw" \in DOMAIN Base(n, raw) /\ Base(n, raw).raw = raw
  <2>1. Base(n, e) = Base(m, e)
      BY <1>2, AlikeBase
  <2>2. Same(Base(n, raw), Base(n, e))
      BY DEF Same, Base
  <2>3. "raw" \in DOMAIN Base(n, raw) /\ Base(n, raw).raw = raw
      BY DEF Base
  <2> QED
      BY <2>1, <2>2, <2>3
<1>8. /\ parse_interaction(raw) = With(TypeFields(n, raw), Base(n, raw))
      /\ parse_interaction(e) = With(TypeFields(m, e), Base(m, e))
    BY DEF parse_interaction
<1> HIDE DEF n, m
<1> QED
    BY <1>6, <1>7, <1>8 DEF Same, With

(* The views of a message are those of the message it describes, where they *)
(* look for it.                                                            *)
LEMMA CarriedLooksAlike ==
    ASSUME NEW raw, NEW e, Carries(raw, e), MessageInside(raw, e)
    PROVE  Views(raw) = Views(e)
<1>1. _raw_message(raw) = _raw_message(e)
  <2>0. ~IsMapping(None) /\ Get(e, "chat") = None
      BY DEF IsMapping, Carries, DirectEvent
  <2>1. _raw_message(e) = IF IsMapping(Get(e, "message")) THEN Get(e, "message") ELSE <<>>
      BY <2>0 DEF _raw_message, Get, IsMapping
  <2>2. CASE IsMapping(Get(raw, "chat"))
      BY <2>1, <2>2 DEF MessageInside, _raw_message, Get, IsMapping
  <2>3. CASE ~IsMapping(Get(raw, "chat"))
    <3>1. Get(raw, "chat") = None
        BY <2>3 DEF Carries, Sensible, IsMapping
    <3>2. Merged(raw) = Without(raw, {"commonEventObject"})
        BY <3>1, MergedOf
    <3>3. Get(Merged(raw), "message") = Get(raw, "message")
        BY <3>2, GetWithout
    <3>4. {Get(raw, "message")} \ {None} = {Get(e, "message")} \ {None}
        BY <3>3, SaidOfOthers, EventFields DEF Carries
    <3>5. Get(raw, "message") = Get(e, "message")
        BY <3>4
    <3> QED
        BY <2>1, <2>3, <3>5 DEF _raw_message, Get, IsMapping
  <2> QED
      BY <2>2, <2>3
<1> QED
    BY <1>1 DEF Views

(* What describes no event is refused.                                     *)
LEMMA SenselessIsRefused ==
    ASSUME NEW raw, ~Sensible(raw)
    PROVE  Refused(raw)
<1> SUFFICES ASSUME IsMapping(raw), ~Unsupported(raw), ~Conflicting(raw), ~CommonRefused(raw)
             PROVE  Sensible(raw)
    BY DEF Refused, Interpretable, EnvelopeRefused
<1> DEFINE own == Without(raw, {"chat", "commonEventObject", "common"})
<1>0. ~IsMapping(None) /\ ~IsMapping(Malformed)
    BY DEF IsMapping
<1>1. Get(raw, "chat") # Malformed
    BY DEF Unsupported
<1>2. IsMapping(Get(raw, "chat")) => Get(raw.chat, "type") # None
    BY DEF Unsupported, Get, IsMapping
<1>3. Tellings(raw) # {}
    BY <1>1, TellingsOf DEF Unsupported, IsMapping
<1>4. \A t \in Tellings(raw) : Get(t, "type") # None
    BY <1>1, <1>2, TellingsOf, GetWithout DEF Unsupported, IsMapping
<1>5. ASSUME NEW a \in Said(raw, "common"), NEW b \in Said(raw, "common")
      PROVE  a = b
    BY <1>1, <1>3, SaidOfCommon DEF CommonRefused, IsMapping
<1>6. ASSUME NEW key, key # "common", NEW a \in Said(raw, key), NEW b \in Said(raw, key), a # b
      PROVE  FALSE
  <2>1. Said(raw, key) = {t[key] : t \in {d \in Tellings(raw) : key \in DOMAIN d}}
      BY <1>6 DEF Said
  <2>2. PICK s, t \in Tellings(raw) : key \in DOMAIN s \cap DOMAIN t /\ a = s[key] /\ b = t[key]
      BY <1>6, <2>1
  <2>3. s # t
      BY <1>6, <2>2
  <2>4. IsMapping(Get(raw, "chat")) /\ Get(raw, "type") # None
      BY <1>0, <1>1, <2>2, <2>3, TellingsOf DEF IsMapping
  <2>5. {s, t} = {raw.chat, own}
      BY <2>2, <2>3, <2>4, TellingsOf
  <2>6. key \in DOMAIN raw.chat \cap DOMAIN own /\ raw.chat[key] # own[key]
      BY <1>6, <2>2, <2>5
  <2>7. key \in DOMAIN raw \ {"chat", "commonEventObject", "common"} /\ own[key] = raw[key]
      BY <2>6 DEF Without, Restrict
  <2> HIDE DEF own
  <2> QED
      BY <2>4, <2>6, <2>7 DEF Conflicting, NotMerged
<1> QED
    BY <1>1, <1>3, <1>4, <1>5, <1>6 DEF Sensible

-----------------------------------------------------------------------------
(* An interaction means the same however it is delivered. *)

(* The event is that of the delivery. *)
Understood == ~Refused(Interaction(request)) /\ event = Parsed(request)

(* What has been made of the delivery, and of the event.                   *)
Meant ==
    /\ pc = "idle" => answer = None
    /\ pc \in {"idle", "received", "verified"} => event = None /\ data = None
    /\ pc \in {"handling", "running", "returned"} => Understood
    /\ event # None => Understood
    /\ data # None => Understood
    /\ data # None /\ data.by = "data" => data.is = ActionDataFilter(DataModel, event)
    /\ answer # None /\ answer.status = 400 => Refused(Interaction(request))

LEMMA TurnStepMeant == ASSUME Meant, TurnStep PROVE Meant'
<1>1. CASE Receive
    BY <1>1 DEF Receive, Meant, Understood
<1>2. CASE Verify
    BY <1>2 DEF Verify, Answers, Meant, Understood
<1>3. CASE Parse
    BY <1>3 DEF Parse, Answers, Meant, Understood
<1>4. CASE Filter
    BY <1>4 DEF Filter, Filtered, Meant, Understood
<1>5. CASE Respond
    BY <1>5 DEF Respond, Answers, Meant, Understood
<1>6. CASE Return
    BY <1>6 DEF Return, Meant, Understood
<1>7. CASE Raise
    BY <1>7 DEF Raise, Answers, Meant, Understood
<1>8. CASE Serialize
    BY <1>8 DEF Serialize, Answers, Meant, Understood
<1>9. CASE Acknowledge
    BY <1>9 DEF Acknowledge, Answers, Meant, Understood
<1>10. CASE Finish
    BY <1>10 DEF Finish, Meant, Understood
<1> QED
    BY <1>1, <1>2, <1>3, <1>4, <1>5, <1>6, <1>7, <1>8, <1>9, <1>10 DEF TurnStep

LEMMA NextMeant == Meant /\ [Next]_vars => Meant'
<1>1. ASSUME Meant, UNCHANGED turnVars PROVE Meant'
    BY <1>1 DEF turnVars, Meant, Understood
<1> QED
    BY <1>1, TurnStepMeant DEF Next, Speak, vars

LEMMA MeantOnce == TurnInv /\ Meant => OneMeaning
<1> SUFFICES ASSUME TurnInv, Meant PROVE OneMeaning
    OBVIOUS
<1> DEFINE raw == Interaction(request)
           meaning == request.meaning
<1>1. ASSUME pc # "idle"
      PROVE  IF meaning = None THEN ~Sensible(raw) ELSE Carries(raw, meaning)
    BY <1>1, DeliveriesAssumption DEF TurnInv, Heard
<1>2. ASSUME event # None
      PROVE  /\ meaning # None /\ ~Refused(meaning)
             /\ LET meant == parse_interaction(meaning)
                    fields == DOMAIN meant \ {"raw", "source"}
                IN  Restrict(event, fields) = Restrict(meant, fields)
             /\ request.channel # "push" /\ MessageInside(raw, meaning) =>
                 Views(event.raw) = Views(meaning)
  <2>0. ~Refused(raw) /\ event = Parsed(request)
      BY <1>2 DEF Meant, Understood
  <2>1. meaning # None /\ Carries(raw, meaning)
      BY <1>1, <1>2, <2>0, SenselessIsRefused DEF Meant
  <2>2. ~Refused(meaning)
      BY <2>0, <2>1, CarriedIsRefused
  <2> DEFINE parsed == parse_interaction(raw)
             meant == parse_interaction(meaning)
             fields == DOMAIN meant \ {"raw", "source"}
  <2>3. Same(parsed, meant) /\ parsed.raw = raw
      BY <2>0, <2>1, CarriedIsParsed
  <2>4. event = IF request.channel = "push" THEN [parsed EXCEPT !.raw = request.body] ELSE parsed
      BY <2>0 DEF Parsed
  <2>5. MessageInside(raw, meaning) => Views(raw) = Views(meaning)
      BY <2>1, CarriedLooksAlike
  <2>6. request.channel # "push" /\ MessageInside(raw, meaning) => Views(event.raw) = Views(meaning)
      BY <2>3, <2>4, <2>5
  <2> HIDE DEF raw, meaning, parsed, meant
  <2>7. \A field \in fields : event[field] = meant[field]
      BY <2>3, <2>4 DEF Same
  <2>8. Restrict(event, fields) = Restrict(meant, fields)
      BY <2>7 DEF Restrict
  <2> QED
      BY <2>1, <2>2, <2>6, <2>8 DEF meant
<1>3. ASSUME answer # None, answer.status = 400
      PROVE  meaning = None \/ Refused(meaning)
  <2>1. pc # "idle" /\ Refused(raw)
      BY <1>3 DEF Meant
  <2> QED
      BY <1>1, <2>1, CarriedIsRefused
<1> QED
    BY <1>2, <1>3 DEF OneMeaning

(* The parser makes of a delivery the event that it describes, or refuses  *)
(* both, whichever family and transport carries it; what describes no      *)
(* event becomes none.                                                     *)
THEOREM FamiliesAgree == Spec => []OneMeaning
<1>1. Init => Meant
    BY DEF Init, TurnInit, Meant
<1> QED
    BY <1>1, MeantOnce, NextMeant, InitTurnInv, NextTurnInv, PTL DEF Spec

-----------------------------------------------------------------------------
(* A button gives its handler back the data that it was made from. *)

LEMMA KindsDiffer ==
    ASSUME NEW kind \in {"str", "int", "float", "bool"}
    PROVE  kind \notin DOMAIN Members
BY MembersAssumption

(* The readings of a text, by the type that it is read as.                 *)
LEMMA Decoded ==
    ASSUME NEW text
    PROVE  /\ _decode_value(text, "str") = {Written("str", text)}
           /\ _decode_value(text, "int") =
                {Written("int", IntTexts[t]) : t \in {text} \cap DOMAIN IntTexts}
           /\ _decode_value(text, "float") =
                {Written("float", FloatTexts[t]) : t \in {text} \cap DOMAIN FloatTexts}
           /\ _decode_value(text, "bool") = {value \in Booleans : value.text = text}
           /\ \A kind \in DOMAIN Members :
                _decode_value(text, kind) = {member \in Members[kind] : member.text = text}
<1>1. "str" \notin DOMAIN Members /\ "int" \notin DOMAIN Members
      /\ "float" \notin DOMAIN Members /\ "bool" \notin DOMAIN Members
    BY KindsDiffer
<1>2. _decode_value(text, "str") = {Written("str", text)}
    BY <1>1, Zenon DEF _decode_value
<1>3. _decode_value(text, "int") = {Written("int", IntTexts[t]) : t \in {text} \cap DOMAIN IntTexts}
    BY <1>1, Zenon DEF _decode_value
<1>4. _decode_value(text, "float") = {Written("float", FloatTexts[t]) : t \in {text} \cap DOMAIN FloatTexts}
    BY <1>1, Zenon DEF _decode_value
<1>5. _decode_value(text, "bool") = {value \in Booleans : value.text = text}
    BY <1>1, Zenon DEF _decode_value
<1>6. ASSUME NEW kind \in DOMAIN Members
      PROVE  _decode_value(text, kind) = {member \in Members[kind] : member.text = text}
  <2>1. kind \notin {"str", "int", "float", "bool"}
      BY <1>1
  <2> QED
      BY <2>1, Zenon DEF _decode_value
<1> QED
    BY <1>2, <1>3, <1>4, <1>5, <1>6

LEMMA BooleansDiffer ==
    ASSUME NEW a \in Booleans
    PROVE  /\ _encode_value(a) = a.text
           /\ \A b \in Booleans : a.text = b.text => a = b
BY DEF Booleans, _encode_value

(* What a value is written as reads as that value, and as no other.        *)
LEMMA CodecRoundTrips ==
    ASSUME NEW kind, NEW value, kind # "int mixin", Holds(kind, value)
    PROVE  _decode_value(_encode_value(value), kind) = {value}
<1>1. CASE kind = "str"
  <2>1. value = Written("str", value.text)
      BY <1>1, KindsDiffer DEF Holds
  <2>2. value.type = "str"
    <3>1. Written("str", value.text).type = "str"
        BY DEF Written
    <3> QED
        BY <2>1, <3>1, Zenon
  <2>3. _encode_value(value) = value.text
      BY <2>2 DEF _encode_value, IsInt
  <2> QED
      BY <1>1, <2>1, <2>3, Decoded
<1>2. CASE kind = "int"
  <2>1. PICK t \in DOMAIN IntTexts : value = Written("int", IntTexts[t])
      BY <1>2, KindsDiffer DEF Holds
  <2>2. _encode_value(value) = IntTexts[t]
      BY <2>1 DEF _encode_value, IsInt, Written
  <2>3. IntTexts[t] \in DOMAIN IntTexts /\ IntTexts[IntTexts[t]] = IntTexts[t]
      BY NumbersAssumption
  <2> QED
      BY <1>2, <2>1, <2>2, <2>3, Decoded
<1>3. CASE kind = "float"
  <2>1. PICK t \in DOMAIN FloatTexts : value = Written("float", FloatTexts[t])
      BY <1>3, KindsDiffer DEF Holds
  <2>2. _encode_value(value) = FloatTexts[t]
      BY <2>1 DEF _encode_value, IsInt, Written
  <2>3. FloatTexts[t] \in DOMAIN FloatTexts /\ FloatTexts[FloatTexts[t]] = FloatTexts[t]
      BY NumbersAssumption
  <2> QED
      BY <1>3, <2>1, <2>2, <2>3, Decoded
<1>4. CASE kind = "bool"
  <2>1. value \in Booleans
      BY <1>4, KindsDiffer DEF Holds
  <2>2. _decode_value(_encode_value(value), kind) = {other \in Booleans : other.text = value.text}
      BY <1>4, <2>1, BooleansDiffer, Decoded
  <2> QED
      BY <2>1, <2>2, BooleansDiffer
<1>5. CASE kind \in DOMAIN Members
  <2>1. value \in Members[kind] /\ value.type = kind
      BY <1>5, KindsDiffer, MembersAssumption DEF Holds
  <2>2. _encode_value(value) = value.text
      BY <1>5, <2>1, MembersAssumption DEF _encode_value, IsInt
  <2>3. \A member \in Members[kind] : member.text = value.text => member = value
      BY <1>5, <2>1, MembersAssumption
  <2>4. _decode_value(value.text, kind) = {member \in Members[kind] : member.text = value.text}
      BY <1>5, Decoded
  <2> QED
      BY <2>1, <2>2, <2>3, <2>4
<1> QED
    BY <1>1, <1>2, <1>3, <1>4, <1>5 DEF Holds

(* The parameters of a click are decoded to the data they were made from.  *)
LEMMA ParametersRoundTrip ==
    ASSUME NEW instance, Filled(instance), NEW parameters,
           \A field \in DOMAIN DataModel :
               /\ field \in DOMAIN parameters <=> field \in DOMAIN to_parameters(instance)
               /\ field \in DOMAIN to_parameters(instance) =>
                    parameters[field] = to_parameters(instance)[field]
    PROVE  /\ ~Undecodable(DataModel, parameters)
           /\ \A field \in DOMAIN DataModel :
                from_parameters(DataModel, parameters)[field] =
                    IF instance[field] = NoneValue THEN DataModel[field].default
                    ELSE instance[field]
<1>1. ASSUME NEW field \in DOMAIN DataModel, instance[field] # NoneValue
      PROVE  /\ field \in DOMAIN parameters
             /\ _decode_value(parameters[field], DataModel[field].type) = {instance[field]}
  <2>1. field \in DOMAIN to_parameters(instance)
      BY <1>1 DEF to_parameters, Filled
  <2>2. parameters[field] = _encode_value(instance[field])
      BY <1>1, <2>1 DEF to_parameters
  <2>3. DataModel[field].type # "int mixin" /\ Holds(DataModel[field].type, instance[field])
      BY <1>1 DEF Filled
  <2> QED
      BY <2>1, <2>2, <2>3, CodecRoundTrips
<1>2. ASSUME NEW field \in DOMAIN DataModel, instance[field] = NoneValue
      PROVE  /\ field \notin DOMAIN parameters
             /\ field \notin _required_field_names(DataModel)
    BY <1>2 DEF to_parameters, Filled, _required_field_names
<1>3. ~Undecodable(DataModel, parameters)
    BY <1>1, <1>2 DEF Undecodable
<1>4. ASSUME NEW field \in DOMAIN DataModel
      PROVE  from_parameters(DataModel, parameters)[field] =
                 IF instance[field] = NoneValue THEN DataModel[field].default ELSE instance[field]
  <2>1. CASE instance[field] = NoneValue
      BY <1>2, <2>1 DEF from_parameters
  <2>2. CASE instance[field] # NoneValue
    <3>1. field \in DOMAIN parameters
        BY <1>1, <2>2
    <3>2. (CHOOSE value \in _decode_value(parameters[field], DataModel[field].type) : TRUE) = instance[field]
        BY <1>1, <2>2
    <3> QED
        BY <2>2, <3>1, <3>2 DEF from_parameters
  <2> QED
      BY <2>1, <2>2
<1> QED
    BY <1>3, <1>4

(* The event of a click has the parameters of the common object.           *)
LEMMA ClickParameters ==
    ASSUME NEW e, DirectEvent(e), ~Refused(e), NEW instance, ClickOf(e, instance)
    PROVE  LET meant == parse_interaction(e)
               sent == Get(Get(e, "common"), "parameters")
           IN  /\ {"class", "parameters"} \subseteq DOMAIN meant
               /\ meant.class = "ActionEvent"
               /\ DOMAIN meant.parameters = DOMAIN sent
               /\ \A key \in DOMAIN sent : meant.parameters[key] = sent[key]
<1> DEFINE n == normalize_envelope(e)
           sent == Get(Get(e, "common"), "parameters")
<1> {"type", "common", "action"} \subseteq DOMAIN Models.InteractionModel
    BY EventFields
<1>0. ~IsMapping(None)
    BY DEF IsMapping
<1>1. Alike(n, e)
    BY DirectCarriesItself, NormalizedSays
<1>2. ModelAccepted(n)
    BY DEF Refused, Interpretable
<1>3. n.type = "CARD_CLICKED"
    BY <1>1, <1>2, AcceptedHasType DEF Alike, ClickOf
<1>4. TypeFields(n, e) = ActionFields(n, e)
  <2>1. DOMAIN Presence = {"ADDED_TO_SPACE", "REMOVED_FROM_SPACE", "APP_HOME"}
      BY DEF Presence
  <2> QED
      BY <1>3, <2>1 DEF TypeFields
<1>5. CommonParameters(n) = sent
  <2>1. Common(n) = Get(e, "common")
      BY <1>0, <1>1, CommonIsGet DEF Alike, ClickOf
  <2> QED
      BY <1>0, <2>1 DEF CommonParameters, Mapping, ClickOf
<1>6. DOMAIN Parameters(n) = DOMAIN sent /\ \A key \in DOMAIN sent : Parameters(n)[key] = sent[key]
  <2>1. CASE DOMAIN sent # {}
      BY <1>5, <2>1 DEF Parameters
  <2>2. CASE DOMAIN sent = {}
    <3>1. Sub(n, "action", "parameters") = None
        BY <1>0, <1>1, <2>2, SubIsGet DEF Alike, ClickOf
    <3>2. ActionItems(n) = <<>>
        BY <3>1 DEF ActionItems, Mapping
    <3>3. DOMAIN ActionParameters(n) = {}
        BY <3>2 DEF ActionParameters
    <3> QED
        BY <1>5, <2>2, <3>3 DEF Parameters
  <2> QED
      BY <2>1, <2>2
<1>7. /\ {"class", "parameters"} \subseteq DOMAIN ActionFields(n, e)
      /\ ActionFields(n, e).class = "ActionEvent"
      /\ ActionFields(n, e).parameters = Parameters(n)
    BY DEF ActionFields
<1>8. parse_interaction(e) = With(ActionFields(n, e), Base(n, e))
    BY <1>4 DEF parse_interaction
<1> HIDE DEF n, sent
<1>9. /\ {"class", "parameters"} \subseteq DOMAIN parse_interaction(e)
      /\ parse_interaction(e).class = "ActionEvent"
      /\ parse_interaction(e).parameters = Parameters(n)
    BY <1>7, <1>8 DEF With
<1> QED
    BY <1>6, <1>9 DEF sent

LEMMA MeantClicks == TurnInv /\ Meant => ClicksRoundTrip
<1> SUFFICES ASSUME TurnInv, Meant, data # None, data.by = "data", request.clicked # None
             PROVE  \E instance \in data.is : \A field \in DOMAIN DataModel :
                        instance[field] = IF request.clicked[field] = NoneValue
                                          THEN DataModel[field].default
                                          ELSE request.clicked[field]
    BY DEF ClicksRoundTrip
<1> DEFINE raw == Interaction(request)
           meaning == request.meaning
           parsed == parse_interaction(raw)
           meant == parse_interaction(meaning)
           sent == Get(Get(meaning, "common"), "parameters")
<1>1. request \in Requests
    BY DEF Meant, TurnInv, Heard
<1>2. /\ Carries(raw, meaning) /\ Filled(request.clicked)
      /\ ClickOf(meaning, request.clicked)
    BY <1>1, DeliveriesAssumption, ClicksAssumption
<1>3. ~Refused(raw) /\ event = Parsed(request)
    BY DEF Meant, Understood
<1>4. DirectEvent(meaning) /\ ~Refused(meaning)
    BY <1>2, <1>3, CarriedIsRefused DEF Carries
<1>5. Same(parsed, meant)
    BY <1>2, <1>3, CarriedIsParsed
<1>6. /\ {"class", "parameters"} \subseteq DOMAIN meant
      /\ meant.class = "ActionEvent"
      /\ DOMAIN meant.parameters = DOMAIN sent
      /\ \A key \in DOMAIN sent : meant.parameters[key] = sent[key]
    BY <1>2, <1>4, ClickParameters
<1>7. event = IF request.channel = "push" THEN [parsed EXCEPT !.raw = request.body] ELSE parsed
    BY <1>3 DEF Parsed
<1>8. \A field \in DOMAIN DataModel :
          /\ field \in DOMAIN sent <=> field \in DOMAIN to_parameters(request.clicked)
          /\ field \in DOMAIN to_parameters(request.clicked) =>
               sent[field] = to_parameters(request.clicked)[field]
    BY <1>2 DEF ClickOf
<1> HIDE DEF raw, meaning, parsed, meant, sent
<1>9. event.class = meant.class /\ event.parameters = meant.parameters
    BY <1>5, <1>6, <1>7 DEF Same
<1>10. ~Undecodable(DataModel, event.parameters)
    BY <1>2, <1>6, <1>8, <1>9, ParametersRoundTrip
<1>11. data.is = {from_parameters(DataModel, event.parameters)}
    BY <1>6, <1>9, <1>10 DEF Meant, ActionDataFilter
<1>12. \A field \in DOMAIN DataModel :
           from_parameters(DataModel, event.parameters)[field] =
               IF request.clicked[field] = NoneValue THEN DataModel[field].default
               ELSE request.clicked[field]
    BY <1>2, <1>6, <1>8, <1>9, ParametersRoundTrip
<1> QED
    BY <1>11, <1>12

(* The data of a button survives its way through Google's parameters: the  *)
(* encoding, the envelopes, the parser and the decoding put together.      *)
THEOREM ButtonsRoundTrip == Spec => []ClicksRoundTrip
<1>1. Init => Meant
    BY DEF Init, TurnInit, Meant
<1> QED
    BY <1>1, MeantClicks, NextMeant, InitTurnInv, NextTurnInv, PTL DEF Spec
===============================================================================
