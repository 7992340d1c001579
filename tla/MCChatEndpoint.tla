---------------------------- MODULE MCChatEndpoint ----------------------------
EXTENDS ChatEndpoint

\* Claims and headers: Chat itself, the push account, a stranger that Google
\* knows, and what is no token at all.
Claims(iss, email, verified) == [iss |-> iss, email |-> email, email_verified |-> verified]

Token(check, signer, claims) == [check |-> check, signer |-> signer, claims |-> claims]

Bearer(token) == [scheme |-> "bearer", words |-> 1, token |-> token]

Google == "https://accounts.google.com"

FromChatUrl == Bearer(Token("valid", "google", Claims(Google, Chat, TRUE)))
FromChat == Bearer(Token("valid", "chat", Claims(Chat, None, FALSE)))
FromChatOidc == Bearer(Token("valid", "chat", Claims(Google, Chat, TRUE)))
FromPush == Bearer(Token("valid", "google", Claims(Google, "push@project", TRUE)))

BadHeaders ==
    { Bearer(Token("valid", "google", Claims(Google, "stranger@project", TRUE))),
      Bearer(Token("valid", "google", Claims(Google, Chat, FALSE))),
      Bearer(Token("valid", "chat", Claims("elsewhere", Chat, TRUE))),
      Bearer(Token("invalid", "chat", Claims(Chat, None, FALSE))),
      Bearer(Token("unreachable", "google", Claims(Google, Chat, TRUE))),
      [FromChatUrl EXCEPT !.words = 2], [FromChatUrl EXCEPT !.scheme = "basic"] }

--------------------------------------------------------------------------------
\* Interactions, in the direct family.

Human == [name |-> "users/ann", type |-> "HUMAN"]
Robot == [name |-> "users/app", type |-> "BOT"]
Room == [name |-> "spaces/S", spaceType |-> "SPACE"]
Topic == [name |-> "spaces/S/threads/T"]

Letter(text) ==
    [name |-> "spaces/S/messages/M", text |-> text, sender |-> Human, space |-> Room, thread |-> Topic]

Message(fields) ==
    [type |-> "MESSAGE", eventTime |-> "Zulu", user |-> Human, space |-> Room,
     message |-> fields @@ Letter("@app ping")]

Ping == Message("argumentText" :> " ping ")
Rich == Message(("attachment" :> <<[name |-> "A"]>>) @@ ("silent" :> TRUE)
                @@ ("annotations" :> <<[type |-> "USER_MENTION"], [type |-> "SLASH_COMMAND"]>>))
Link == Message("matchedUrl" :> [url |-> "https://example"])
Bare == Without(Message(<<>>), {"user", "space"})
Adrift == [Bare EXCEPT !.message = Without(@, {"space"})]
Slash(id) == Message(("slashCommand" :> [commandId |-> id]) @@ ("argumentText" :> "  "))

Present(type) == [type |-> type, user |-> Human, space |-> Room]

MCIntTexts == ("7" :> "7") @@ ("007" :> "7") @@ ("1" :> "1")
MCFloatTexts == ("0.5" :> "0.5") @@ ("7" :> "7.0") @@ ("7.0" :> "7.0")

Member(kind, text, str) == [type |-> kind, text |-> text, str |-> str]

Red == Member("enum", "red", "Color.RED")
Blue == Member("enum", "blue", "Color.BLUE")
Low == Member("int enum", "1", "1")

MCMembers ==
    ("enum" :> {Red, Blue}) @@ ("str enum" :> {Member("str enum", "red", "red")})
    @@ ("int enum" :> {Low}) @@ ("int mixin" :> {Member("int mixin", "1", "Level.LOW")})

Int7 == Written("int", "7")
True == Member("bool", "true", "True")
Half == Written("float", "0.5")
Note == Written("str", "true")

Instance(count, on, colour, ratio) ==
    [count |-> count, on |-> on, colour |-> colour, ratio |-> ratio, level |-> Low, note |-> Note]

MCDataModel ==
    [ count |-> [type |-> "int", default |-> Required],
      on |-> [type |-> "bool", default |-> Required],
      colour |-> [type |-> "enum", default |-> Red],
      ratio |-> [type |-> "float", default |-> NoneValue],
      level |-> [type |-> "int enum", default |-> NoneValue],
      note |-> [type |-> "str", default |-> NoneValue] ]

Instances ==
    {Instance(Int7, True, Blue, Half), [Instance(Int7, True, Red, NoneValue) EXCEPT !.colour = NoneValue]}

\* The button as Google sends its click: the parameters, and those it adds.
Clicked(parameters, dialog, sender) ==
    [type |-> "CARD_CLICKED", user |-> Human, space |-> Room,
     message |-> [Letter("card") EXCEPT !.sender = sender],
     common |-> [invokedFunction |-> "go",
                 parameters |-> parameters @@ ("autocomplete_widget_query" :> "x")]] @@ dialog

NoDialog == <<>>
Dialog(type) == ("isDialogEvent" :> TRUE) @@ ("dialogEventType" :> type)

\* The same button, as the older action object has it.
Action(items) ==
    [type |-> "CARD_CLICKED", user |-> Human, space |-> Room,
     action |-> [actionMethodName |-> "go", parameters |-> items]]

OldItems == <<[key |-> "count", value |-> "007"], [key |-> "on", value |-> "true"]>>

Form(input) ==
    [type |-> "SUBMIT_FORM", user |-> Human, space |-> Room,
     common |-> [invokedFunction |-> "save", formInputs |-> [when |-> input]]]

Time(hours, minutes) == [timeInput |-> [hours |-> hours, minutes |-> minutes]]

MCFormModel == [when |-> [type |-> "TimeInput", default |-> Required]]

Plainly ==
    { Ping, Rich, Link, Bare, Adrift, Slash("1"), Present("ADDED_TO_SPACE"),
      Present("REMOVED_FROM_SPACE"), Present("APP_HOME"),
      [type |-> "NEW_KIND"], [type |-> "UNSPECIFIED"],
      Slash("one"), Without(Present("APP_HOME"), {"user"}),
      [Ping EXCEPT !.eventTime = "naive"],
      [Ping EXCEPT !.message.sender.name = Malformed],
      [type |-> "APP_COMMAND", user |-> Human, space |-> Room, message |-> Letter("hi"),
       appCommandMetadata |-> [appCommandId |-> 1, appCommandType |-> "MESSAGE_ACTION"]],
      [type |-> "APP_COMMAND", appCommandMetadata |-> [appCommandId |-> 1]],
      [type |-> "WIDGET_UPDATED", common |-> [invokedFunction |-> "suggest"]],
      [type |-> "WIDGET_UPDATED"],
      Clicked("count" :> "many", NoDialog, Robot),
      Clicked("count" :> "7", Dialog("REQUEST_DIALOG"), Without(Robot, {"type"})),
      Clicked("count" :> "7", Dialog("SUBMIT_DIALOG"), Human),
      Clicked("count" :> "7", "isDialogEvent" :> TRUE, Human),
      Action(OldItems), Action(OldItems \o OldItems),
      Action(OldItems) @@ [common |-> [invokedFunction |-> "stop"]],
      Action(OldItems) @@ [common |-> [parameters |-> [count |-> "7"]]],
      Form(Time(9, 59)), Form(Time(9, 60)), Form([stringInputs |-> [value |-> <<"a">>]]),
      Form([dateInput |-> [msSinceEpoch |-> "digits"]]),
      Form([dateInput |-> [msSinceEpoch |-> "minus digits"]]),
      Form([dateTimeInput |-> [msSinceEpoch |-> "superscript digit", hasDate |-> TRUE]]),
      Form(Time(9, 0) @@ [dateInput |-> [msSinceEpoch |-> "number"]]),
      Form([newInput |-> [value |-> "x"]]),
      [Form([dateInput |-> [msSinceEpoch |-> "superscript digit"]])
        EXCEPT !.common.formInputs = @ @@ [until |-> Time(9, 60)]],
      [Action(OldItems) EXCEPT !.action.parameters = None],
      [Form(Time(9, 59)) EXCEPT !.common.formInputs = None] }

\* The wrapped family, and both at once: what only the direct event has counts.
Wrap(raw) ==
    [chat |-> Without(raw, {"common"})] @@
    (IF "common" \in DOMAIN raw THEN [commonEventObject |-> raw.common] ELSE <<>>)

Both(raw) ==
    [chat |-> Restrict(raw, {"type", "message"} \cap DOMAIN raw)] @@
    (IF "common" \in DOMAIN raw THEN [commonEventObject |-> raw.common] ELSE <<>>) @@ raw

\* Both at once, with the message in the direct event only.
Apart(raw) == [Both(raw) EXCEPT !.chat = Without(@, {"message"})]

Push(body) == [subscription |-> "s", message |-> [data |-> body, messageId |-> "1"]]

Delivery(channel, audience, header, body, meaning, clicked) ==
    [channel |-> channel, audience |-> audience, header |-> header, body |-> body,
     meaning |-> meaning, clicked |-> clicked]

\* Every way to deliver an interaction.
Ways(raw, clicked) ==
    { Delivery("http", "endpoint url", FromChatUrl, raw, raw, clicked),
      Delivery("http", "project number", FromChat, Wrap(raw), raw, clicked),
      Delivery("http", "project number", FromChatOidc, Both(raw), raw, clicked),
      Delivery("push", "push", FromPush, Push(raw), raw, clicked),
      Delivery("pull", None, None, raw, raw, clicked),
      Delivery("pull", None, None, Push(Wrap(raw)), raw, clicked) }

\* Deliveries that are no interaction, or contradict themselves.
Senseless ==
    { Malformed, <<>>, [chat |-> Malformed], [chat |-> [message |-> Letter("x")]],
      [type |-> "ADDED_TO_SPACE", chat |-> Ping],
      ("user" :> Robot) @@ Ping @@ [chat |-> Ping],
      [Wrap(Form(Time(1, 1))) EXCEPT !.chat = [common |-> [invokedFunction |-> "other"]] @@ @] }

Direct(body) == Delivery("http", "endpoint url", FromChatUrl, body, None, None)

MCRequests ==
    UNION {Ways(raw, None) : raw \in Plainly} \cup
    {Delivery("pull", None, None, Apart(raw), raw, None) : raw \in {Ping, Rich}} \cup
    UNION {Ways(Clicked(to_parameters(i), NoDialog, Human), i) : i \in Instances} \cup
    {Direct(body) : body \in Senseless} \cup
    {Delivery("push", "push", FromPush, body, None, None) :
        body \in {Ping, Push(Malformed), Malformed}} \cup
    {Delivery("pull", None, None, Malformed, None, None)} \cup
    {Delivery(c, a, h, Ping, Ping, None) :
        c \in {"http"}, a \in {"endpoint url", "project number"}, h \in BadHeaders} \cup
    {Delivery("push", "push", FromChatUrl, Push(Ping), Ping, None)}

MCPayloads ==
    {[type |-> t, json |-> TRUE] : t \in PayloadTypes} \cup {[type |-> "raw", json |-> FALSE]}

--------------------------------------------------------------------------------
\* Bots: both identities, one of them, credentials that cannot be told apart,
\* none, and scopes that do not do.

MCBot(primary, user, publisher) ==
    [primary |-> primary, user |-> user, auth_mode |-> None, publisher |-> publisher]

AppAccount == ServiceAccount({"chat.bot"})
UserAccount == AuthorizedUser({"chat.messages"}, None)

Dual == MCBot(AppAccount, UserAccount, TRUE)

MCBots ==
    { Dual, MCBot(AppAccount, None, FALSE), MCBot(UserAccount, None, TRUE),
      MCBot(AppAccount, DelegatedUser({"chat.spaces"}), TRUE),
      MCBot(AppAccount, AppAccount, TRUE),
      MCBot(AppAccount, AuthorizedUser({"chat.messages"}, {"chat.messages.readonly"}), TRUE),
      MCBot(ServiceAccount({}), UserAccount, TRUE),
      MCBot(Opaque, Opaque, TRUE), MCBot(None, None, TRUE),
      [Dual EXCEPT !.auth_mode = "NONE"] }

File(name, fits) == [kind |-> "file", file |-> name, fits |-> fits]
Uploaded(space, name) == [kind |-> "uploaded", space |-> space, file |-> name]

MCAttachments ==
    { <<>>, <<File("f", TRUE), Uploaded(Name("canonical", "spaces/S"), "g")>>,
      <<File("f", TRUE), Uploaded(Name("bare", "spaces/Q"), "g")>>,
      <<File("f", TRUE), File("h", TRUE)>>, <<File("f", FALSE)>> }

Image(name) == [local |-> TRUE, image |-> name]

Pictures ==
    (<<1, 1>> :> Image("i1")) @@ (<<2, 1>> :> Image("i2")) @@
    (<<2, 2>> :> [local |-> FALSE, image |-> "https"])

Text == <<1, 1>> :> [local |-> FALSE, image |-> None]

Viewers == {None, Name("padded", "users/ann"), Name("blank", None)}

SendArguments ==
    {[Plain EXCEPT !.attachments = a, !.notify = n, !.private_to = v, !.accessory = w] :
        a \in MCAttachments, n \in {None, "silent", "loud"}, v \in Viewers, w \in BOOLEAN} \cup
    {[Plain EXCEPT !.card = c, !.accessory = w, !.private_to = v] :
        c \in {None, Text, Pictures}, w \in BOOLEAN, v \in Viewers} \cup
    {[Plain EXCEPT !.space = s] : s \in {Name("foreign", "users/ann"), Name("nameless", None)}}

Identities == {"APP", "USER"}

MCSends == MCBots \X Identities \X SendArguments

MCReplies ==
    {Dual, MCBot(UserAccount, None, TRUE)} \X
    {Plain, [Plain EXCEPT !.option = "REPLY_MESSAGE_FALLBACK_TO_NEW_THREAD"],
     [Plain EXCEPT !.private_to = Name("bare", "users/ann")],
     [Plain EXCEPT !.attachments = <<File("f", TRUE)>>]}

MCUpdates ==
    MCBots \X Identities \X
    {[text |-> t, card |-> c] : t \in BOOLEAN, c \in {None, Pictures}}

SpaceBot == MCBot(AppAccount, AuthorizedUser({"chat.spaces"}, None), TRUE)

MCDirectMessages ==
    {Dual, SpaceBot} \X Identities \X
    {[user |-> u, setup |-> s] :
        u \in {Name("bare", "users/ann"), Name("foreign", "spaces/S")}, s \in BOOLEAN}

Everything ==
    [ items |-> <<"m1", "m2">>, limit |-> 1, source |-> "UPLOADED_CONTENT", resource_name |-> TRUE,
      space |-> Name("canonical", "spaces/S"), fits |-> TRUE, file |-> "f",
      name |-> Name("canonical", "spaces/S/members/M"), user |-> Name("bare", "users/ann"),
      group |-> None ]

MCArguments ==
    { Everything, [Everything EXCEPT !.source = "DRIVE_FILE", !.limit = 0],
      [Everything EXCEPT !.name = Name("bare", "M"), !.user = None, !.limit = None],
      [Everything EXCEPT !.user = None, !.group = Name("bare", "groups/G"), !.fits = FALSE] }

MCInvocations ==
    {Dual, SpaceBot} \X
    (DOMAIN SPECS \ {"MESSAGES_CREATE", "MESSAGES_UPDATE", "SPACES_SETUP", "SPACES_FIND_DIRECT_MESSAGE"}) \X
    Identities \X MCArguments

MCSpeaking ==
    {Delivery("http", "endpoint url", FromChatUrl, raw, raw, None) : raw \in {Ping, Adrift}}
===============================================================================
