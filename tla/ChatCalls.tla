------------------------------- MODULE ChatCalls -------------------------------
(***************************************************************************)
(* The calls a program makes to the Chat API: the resource clients         *)
(* (client/resources/), the media endpoints (media/), the publication of   *)
(* card images (cards/_assets.py) and the executor all of them end in.     *)
(*                                                                         *)
(* Google and the image store are external: a call may be answered with an *)
(* error, and a message may have been created although its answer is lost. *)
(***************************************************************************)
EXTENDS Operations, Naturals, FiniteSets, SequencesExt

ASSUME OutcomesAssumption ==
    None \notin {"done", "failed", "refused", "REPLY_MESSAGE_OR_FAIL"}

VARIABLES
    call,       \* the call under way, or the last one
    world       \* what Google and the image store hold because of it

callVars == <<call, world>>

NoCall == [at |-> "none"]

Empty == [images |-> <<>>, uploads |-> <<>>, messages |-> {}, spaces |-> 0]

CallInit == call = NoCall /\ world = Empty

Calling == call # NoCall /\ call.outcome = None

\* What ends a call: a refusal is local, a failure is a remote error or a file.
Ends(outcome, error) == call' = [call EXCEPT !.at = "ended", !.outcome = outcome, !.error = error]

Fresh(bot, operation, as, args, at) ==
    [bot |-> bot, operation |-> operation, as |-> as, args |-> args, at |-> at,
     images |-> <<>>, attached |-> <<>>, result |-> None, outcome |-> None, error |-> None]

Starts(bot, operation, as, args, at) == call' = Fresh(bot, operation, as, args, at)

Refuses(bot, operation, as, args) ==
    call' = [Fresh(bot, operation, as, args, "ended") EXCEPT !.outcome = "refused"]

--------------------------------------------------------------------------------
\* Messages.create

EffectiveMode(bot, args) == IF args.attachments # <<>> THEN "USER" ELSE _auth_mode(bot)

LocalImages(card) == IF card = None THEN {} ELSE {p \in DOMAIN card : card[p].local}

Publishable(bot, card) == LocalImages(card) # {} => bot.publisher

\* Faulty: the facade's identity is not looked at.
AttachmentRulesAnyIdentity(as, args) ==
    args.attachments # <<>> => args.private_to = None /\ ~args.accessory /\ args.notify = None

\* An attachment goes by itself, and with the identity of a user.
AttachmentRules(as, args) ==
    args.attachments # <<>> =>
        args.private_to = None /\ ~args.accessory /\ args.notify = None /\ as = "USER"

NotifyRules(mode, args) == args.notify # None => args.notify \in {"force", "silent"} /\ mode = "APP"

PrivateRules(mode, args) ==
    args.private_to # None => Canonical(args.private_to) # None /\ mode = "APP" /\ ~args.accessory

ModeRules(mode, args) ==
    /\ args.card # None => mode # "USER"
    /\ args.accessory => mode = "APP"
    /\ mode # "NONE"

\* Faulty: what is already uploaded is taken to be in this space.
ItemFits(parent, item) == item.kind = "uploaded" \/ item.fits

\* Every item is looked at before the first one is uploaded.
ItemAccepted(parent, item) ==
    IF item.kind = "uploaded" THEN Canonical(item.space) = parent ELSE item.fits

ItemsAccepted(args) ==
    \A i \in DOMAIN args.attachments : ItemAccepted(Canonical(args.space), args.attachments[i])

\* The user's credentials and scopes are looked at before any media I/O.
UserPrepared(bot, args) ==
    args.attachments # <<>> =>
        /\ _resolve_user_credentials(bot) # None
        /\ _classify(_resolve_user_credentials(bot)) # "APP"
        /\ ~Unprepared(bot, "MESSAGES_CREATE", "USER")
        /\ \A i \in DOMAIN args.attachments :
            args.attachments[i].kind = "file" => ~Unprepared(bot, "MEDIA_UPLOAD", "USER")

CreateAccepted(bot, as, args) ==
    LET mode == EffectiveMode(bot, args)
    IN  /\ Publishable(bot, args.card)
        /\ AttachmentRules(as, args) /\ NotifyRules(mode, args)
        /\ PrivateRules(mode, args) /\ ModeRules(mode, args)
        /\ Canonical(args.space) # None /\ ItemsAccepted(args)
        /\ UserPrepared(bot, args)

Create(bot, as, args) ==
    /\ ~Calling
    /\ IF CreateAccepted(bot, as, args)
       THEN Starts(bot, "MESSAGES_CREATE", as, args, "publish")
       ELSE Refuses(bot, "MESSAGES_CREATE", as, args)
    /\ UNCHANGED world

\* resolve_card_assets: every source is read before the first is published.
Sources(card) == SetToSortSeq(LocalImages(card), LAMBDA p, q :
                    p[1] < q[1] \/ (p[1] = q[1] /\ p[2] < q[2]))

Unpublished == SubSeq(Sources(call.args.card), Len(call.images) + 1, Cardinality(LocalImages(call.args.card)))

SourceUnreadable ==
    /\ Calling /\ call.at = "publish"
    /\ call.images = <<>> /\ LocalImages(call.args.card) # {}
    /\ Ends("failed", "AssetPublishError")
    /\ UNCHANGED world

\* The publisher returns an address, or fails, or returns none.
Publish ==
    /\ Calling /\ call.at = "publish" /\ Unpublished # <<>>
    /\ LET image == call.args.card[Head(Unpublished)].image
       IN  \/ /\ world' = [world EXCEPT !.images = Append(@, image)]
              /\ call' = [call EXCEPT !.images = Append(@, image)]
           \/ Ends("failed", "AssetPublishError") /\ UNCHANGED world

Published ==
    /\ Calling /\ call.at = "publish" /\ Unpublished = <<>>
    /\ call' = [call EXCEPT !.at = IF call.operation = "MESSAGES_CREATE" THEN "attach" ELSE "execute"]
    /\ UNCHANGED world

\* The card that is sent: the images are put where they were taken from.
ResolvedCard(card, images) ==
    IF card = None THEN None
    ELSE LET order == Sources(card)
         IN  [p \in DOMAIN card |->
                IF p \in LocalImages(card)
                THEN [local |-> FALSE, image |-> images[CHOOSE i \in DOMAIN order : order[i] = p]]
                ELSE card[p]]

NextItem == call.args.attachments[Len(call.attached) + 1]

Ref(space, by, file) == [space |-> space, by |-> by, file |-> file]

\* What is uploaded already is only referred to.
Refer ==
    /\ Calling /\ call.at = "attach" /\ Len(call.attached) < Len(call.args.attachments)
    /\ NextItem.kind = "uploaded"
    /\ call' = [call EXCEPT !.attached =
                    Append(@, Ref(Canonical(NextItem.space), "USER", NextItem.file))]
    /\ UNCHANGED world

\* bot.user.attachments.upload for one file: it may be gone or have grown
\* since, the upload may fail, or succeed and return no reference.
UploadNext ==
    /\ Calling /\ call.at = "attach" /\ Len(call.attached) < Len(call.args.attachments)
    /\ NextItem.kind = "file"
    /\ LET ref == Ref(Canonical(call.args.space), "USER", NextItem.file)
       IN  IF Unprepared(call.bot, "MEDIA_UPLOAD", "USER")
           THEN Ends("refused", "CapabilityNotSupported") /\ UNCHANGED world
           ELSE \/ Ends("failed", "ValueError") /\ UNCHANGED world
                \/ Ends("failed", "ChatAPIError") /\ UNCHANGED world
                \/ /\ world' = [world EXCEPT !.uploads = Append(@, ref)]
                   /\ \/ call' = [call EXCEPT !.attached = Append(@, ref)]
                      \/ Ends("failed", "ChatAPIError")

Attached ==
    /\ Calling /\ call.at = "attach" /\ Len(call.attached) = Len(call.args.attachments)
    /\ call' = [call EXCEPT !.at = "execute"]
    /\ UNCHANGED world

--------------------------------------------------------------------------------
\* The message that is sent and where Google may put it.

HasThread(thread) == thread # None /\ thread # "nameless"

ReplyOption(args) == IF args.option # None /\ HasThread(args.thread) THEN args.option ELSE "UNSPECIFIED"

Lands(args) ==
    CASE ReplyOption(args) = "UNSPECIFIED" -> {"new"}
      [] ReplyOption(args) = "REPLY_MESSAGE_OR_FAIL" -> {args.thread}
      [] ReplyOption(args) = "REPLY_MESSAGE_FALLBACK_TO_NEW_THREAD" -> {args.thread, "new"}

Viewer(args) == IF args.private_to = None THEN None ELSE Canonical(args.private_to).id

Sent(landed) ==
    [space |-> Canonical(call.args.space), thread |-> landed, as |-> call.as,
     viewer |-> Viewer(call.args), attachments |-> call.attached, notify |-> call.args.notify,
     card |-> ResolvedCard(call.args.card, call.images)]

Failures == {"NotFound", "Aborted"}

\* OperationExecutor.execute: the preflight, then one call, whose errors are
\* wrapped.  A call that fails may have been carried out.
ExecuteCreate ==
    /\ Calling /\ call.at = "execute" /\ call.operation = "MESSAGES_CREATE"
    /\ IF Unprepared(call.bot, call.operation, call.as)
       THEN Ends("refused", "CapabilityNotSupported") /\ UNCHANGED world
       ELSE \/ \E landed \in Lands(call.args) :
                  /\ world' = [world EXCEPT !.messages = @ \cup {Sent(landed)}]
                  /\ Ends("done", None) \/ Ends("failed", "ChatServiceUnavailableError")
            \/ \E failure \in Failures :
                  Ends("failed", wrap_api_error(failure)) /\ UNCHANGED world

--------------------------------------------------------------------------------
\* The other operations: what each looks at itself, then the executor.

UpdateAccepted(bot, args) ==
    /\ args.text \/ args.card # None
    /\ _auth_mode(bot) # "NONE"
    /\ Publishable(bot, args.card)

Update(bot, as, args) ==
    /\ ~Calling
    /\ IF UpdateAccepted(bot, args)
       THEN Starts(bot, "MESSAGES_UPDATE", as, args, IF args.card # None THEN "publish" ELSE "execute")
       ELSE Refuses(bot, "MESSAGES_UPDATE", as, args)
    /\ UNCHANGED world

\* Attachments.download of a reference, or of the name it holds.
DownloadAccepted(args) == args.source # "DRIVE_FILE" /\ args.resource_name

\* spaces.find_direct_message, and the setup when there is none.
FindDirectMessage(bot, as, args) ==
    /\ ~Calling
    /\ IF (args.setup => as = "USER") /\ Canonical(args.user) # None
       THEN Starts(bot, "SPACES_FIND_DIRECT_MESSAGE", as, args, "execute")
       ELSE Refuses(bot, "SPACES_FIND_DIRECT_MESSAGE", as, args)
    /\ UNCHANGED world

\* Memberships of users and groups.
Memberships == {"MEMBERSHIPS_CREATE", "MEMBERSHIPS_GET", "MEMBERSHIPS_LIST", "MEMBERSHIPS_DELETE"}

MembershipAccepted(operation, args) ==
    CASE operation = "MEMBERSHIPS_CREATE" ->
            /\ Canonical(args.space) # None
            /\ IF args.user # None THEN Canonical(args.user) # None
               ELSE args.group # None /\ Canonical(args.group) # None
      [] operation = "MEMBERSHIPS_LIST" -> Canonical(args.space) # None
      [] operation \in {"MEMBERSHIPS_GET", "MEMBERSHIPS_DELETE"} -> _membership_name(args.name) # None

Accepted(operation, args) ==
    CASE operation = "MEDIA_DOWNLOAD" -> DownloadAccepted(args)
      [] operation = "MEDIA_UPLOAD" -> Canonical(args.space) # None /\ args.fits
      [] operation \in Memberships -> MembershipAccepted(operation, args)
      [] OTHER -> TRUE

Invoke(bot, operation, as, args) ==
    /\ ~Calling
    /\ IF Accepted(operation, args)
       THEN Starts(bot, operation, as, args, "execute")
       ELSE Refuses(bot, operation, as, args)
    /\ UNCHANGED world

\* Pager.collect: the item that reaches the limit ends the loop, so a limit of
\* zero collects one.
collect(items, limit) ==
    IF limit = None \/ Len(items) <= limit THEN items
    ELSE SubSeq(items, 1, IF limit < 1 THEN 1 ELSE limit)

Paged == {"MESSAGES_LIST", "SPACES_LIST", "MEMBERSHIPS_LIST", "REACTIONS_LIST"}

Done ==
    call' = [call EXCEPT !.at = "ended", !.outcome = "done",
                         !.result = IF call.operation \in Paged
                                    THEN collect(call.args.items, call.args.limit) ELSE None]

\* What Google holds when the call has been carried out.
Carried(operation) ==
    CASE operation = "SPACES_SETUP" -> [world EXCEPT !.spaces = @ + 1]
      [] operation = "MEDIA_UPLOAD" ->
            [world EXCEPT !.uploads = Append(@, Ref(Canonical(call.args.space), call.as, call.args.file))]
      [] OTHER -> world

Execute ==
    /\ Calling /\ call.at = "execute" /\ call.operation # "MESSAGES_CREATE"
    /\ IF Unprepared(call.bot, call.operation, call.as)
       THEN Ends("refused", "CapabilityNotSupported") /\ UNCHANGED world
       ELSE \/ Done /\ world' = Carried(call.operation)
            \/ \E failure \in Failures :
                  /\ IF /\ call.operation = "SPACES_FIND_DIRECT_MESSAGE" /\ call.args.setup
                        /\ wrap_api_error(failure) = "ChatNotFoundError"
                     THEN call' = [call EXCEPT !.operation = "SPACES_SETUP"]
                     ELSE Ends("failed", wrap_api_error(failure))
                  /\ UNCHANGED world

CallStep ==
    \/ SourceUnreadable \/ Publish \/ Published
    \/ Refer \/ UploadNext \/ Attached \/ ExecuteCreate
    \/ Execute
===============================================================================
