------------------------------ MODULE Operations ------------------------------
(***************************************************************************)
(* Who may call what: the credentials of a Bot (auth/providers.py, the     *)
(* classification in client/bot.py), the operation registry                *)
(* (capabilities/registry.py), the local preflight, the names of resources *)
(* and the errors that come back (client/_names.py, client/errors.py).     *)
(***************************************************************************)
EXTENDS Optional, Sequences

\* Google credentials: a service account signs, a delegated one has a subject,
\* a user's token can be refreshed.  A scope set is None when it is unknown.
ServiceAccount(scopes) ==
    [subject |-> FALSE, signer |-> TRUE, refresh_token |-> FALSE,
     granted |-> None, scopes |-> scopes, defaults |-> None]

DelegatedUser(scopes) == [ServiceAccount(scopes) EXCEPT !.subject = TRUE]

AuthorizedUser(scopes, granted) ==
    [subject |-> FALSE, signer |-> FALSE, refresh_token |-> TRUE,
     granted |-> granted, scopes |-> scopes, defaults |-> None]

\* Metadata credentials, say: neither a signer nor a refresh token.
Opaque == [AuthorizedUser(None, None) EXCEPT !.refresh_token = FALSE]

\* "APP", "USER", or None when it cannot tell.
_classify(credentials) ==
    IF credentials = None THEN None
    ELSE CASE credentials.subject -> "USER"
           [] ~credentials.subject /\ credentials.signer -> "APP"
           [] ~credentials.subject /\ ~credentials.signer ->
                IF credentials.refresh_token THEN "USER" ELSE None

\* What a user granted wins over what was asked for.
_credential_scopes(mode, credentials) ==
    IF mode = "USER"
    THEN IF credentials.granted # None THEN credentials.granted ELSE credentials.scopes
    ELSE IF credentials.scopes = None THEN credentials.defaults
    ELSE IF credentials.defaults = None THEN credentials.scopes
    ELSE credentials.scopes \cup credentials.defaults

\* A Bot: its primary credentials, those of its user provider if it has one,
\* the auth mode it was told and whether it has an AssetPublisher.
_resolve_user_credentials(bot) ==
    IF bot.user # None THEN bot.user
    ELSE IF _classify(bot.primary) = "USER" THEN bot.primary ELSE None

Credentials(bot, identity) ==
    IF identity = "USER" THEN _resolve_user_credentials(bot) ELSE bot.primary

_auth_mode(bot) == IF bot.auth_mode # None THEN bot.auth_mode ELSE _classify(bot.primary)

--------------------------------------------------------------------------------
\* The registry: the scopes that admit an operation, for each identity that has
\* a path to it.

Paths(app, user) == [APP |-> app, USER |-> user]

MessageSpecs ==
    [ MESSAGES_CREATE |->
        Paths({"chat.bot"}, {"chat.messages.create", "chat.messages", "chat.import"}),
      MESSAGES_UPDATE |-> Paths({"chat.bot"}, {"chat.messages", "chat.import"}),
      MESSAGES_GET |-> Paths({"chat.bot"}, {"chat.messages.readonly", "chat.messages"}),
      MESSAGES_LIST |->
        Paths({"chat.app.messages.readonly"}, {"chat.messages.readonly", "chat.messages"}),
      MESSAGES_DELETE |-> Paths({"chat.bot"}, {"chat.messages"}),
      MEDIA_UPLOAD |-> Paths({}, {"chat.messages.create", "chat.messages", "chat.import"}),
      MEDIA_DOWNLOAD |-> Paths({"chat.bot"}, {"chat.messages.readonly", "chat.messages"}),
      ATTACHMENT_METADATA_GET |-> Paths({"chat.bot"}, {}) ]

SpaceSpecs ==
    [ SPACES_GET |->
        Paths({"chat.bot", "chat.spaces"}, {"chat.spaces", "chat.spaces.readonly"}),
      SPACES_LIST |-> Paths({"chat.bot"}, {}),
      SPACES_FIND_DIRECT_MESSAGE |->
        Paths({"chat.bot"}, {"chat.spaces", "chat.spaces.readonly"}),
      SPACES_SETUP |-> Paths({}, {"chat.spaces", "chat.spaces.create"}),
      MEMBERSHIPS_CREATE |-> Paths({"chat.app.memberships"}, {}),
      MEMBERSHIPS_GET |-> Paths({"chat.bot", "chat.app.memberships"}, {}),
      MEMBERSHIPS_LIST |-> Paths({"chat.bot", "chat.app.memberships"}, {}),
      MEMBERSHIPS_DELETE |-> Paths({"chat.app.memberships"}, {}) ]

UserSpecs ==
    [ REACTIONS_CREATE |->
        Paths({}, {"chat.messages.reactions", "chat.messages.reactions.create"}),
      REACTIONS_LIST |->
        Paths({}, {"chat.messages.reactions", "chat.messages.reactions.readonly"}),
      REACTIONS_DELETE |-> Paths({}, {"chat.messages.reactions"}),
      SPACE_READ_STATE_GET |->
        Paths({}, {"chat.users.readstate", "chat.users.readstate.readonly"}),
      SPACE_READ_STATE_UPDATE |-> Paths({}, {"chat.users.readstate"}),
      THREAD_READ_STATE_GET |->
        Paths({}, {"chat.users.readstate", "chat.users.readstate.readonly"}),
      NOTIFICATION_SETTING_GET |-> Paths({}, {"chat.users.spacesettings"}),
      NOTIFICATION_SETTING_UPDATE |-> Paths({}, {"chat.users.spacesettings"}) ]

SPECS == MessageSpecs @@ SpaceSpecs @@ UserSpecs

\* Unknown scopes admit whoever has a path: Google decides.
preflight(operation, identity, known) ==
    LET any_scope == SPECS[operation][identity]
    IN  any_scope # {} /\ (known = None \/ any_scope \cap known # {})

\* Bot._preflight_operation refuses: no credentials, credentials of the other
\* identity, or scopes that are known not to do.
Unprepared(bot, operation, identity) ==
    LET credentials == Credentials(bot, identity)
        mode == _classify(credentials)
    IN  \/ credentials = None
        \/ mode \notin {None, identity}
        \/ mode = identity
            /\ ~preflight(operation, identity, _credential_scopes(mode, credentials))

--------------------------------------------------------------------------------
\* Resource names: a bare id and the canonical name, with blanks around them or
\* not, name the same resource; what names none is refused.

Name(form, id) == [form |-> form, id |-> id]

Legible(name) == name.form \in {"bare", "canonical", "padded"}

\* Faulty: a name that names nobody is passed on as it is.
NamedOrNobody(name) == IF Legible(name) THEN [id |-> name.id] ELSE [id |-> None]

\* _canonical_space, _canonical_user, _canonical_group: None when they raise
\* ChatAPIError.
Canonical(name) == IF Legible(name) THEN [id |-> name.id] ELSE None

\* A membership has no bare form.
_membership_name(name) == IF name.form = "bare" THEN None ELSE Canonical(name)

--------------------------------------------------------------------------------
\* wrap_api_error: what Google's answer becomes; 409 only when it is exactly
\* that, and every other failure is a plain ChatAPIError.
Wrapped ==
    [ NotFound |-> "ChatNotFoundError",
      Conflict |-> "ChatAlreadyExistsError",
      Forbidden |-> "ChatPermissionDeniedError",
      InvalidArgument |-> "ChatInvalidArgumentError",
      TooManyRequests |-> "ChatRateLimitError",
      GatewayTimeout |-> "ChatServiceUnavailableError",
      Unauthorized |-> "ChatUnauthenticatedError" ]

wrap_api_error(failure) ==
    IF failure \in DOMAIN Wrapped THEN Wrapped[failure] ELSE "ChatAPIError"
===============================================================================
