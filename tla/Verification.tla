------------------------------ MODULE Verification ------------------------------
(***************************************************************************)
(* Who may speak to an endpoint: transports/http/verifier.py for the       *)
(* webhook, GooglePubSubVerifier (transports/pubsub.py) for Pub/Sub push.  *)
(* Signature, expiry, audience and certificates are google-auth's; a token *)
(* is what it says of one: whether it verifies ("valid", "invalid", or     *)
(* "unreachable" certificates), by whose certificates, and its claims.     *)
(***************************************************************************)
EXTENDS Naturals

Chat == "chat@system.gserviceaccount.com"

GoogleIssuers == {"accounts.google.com", "https://accounts.google.com"}

\* extract_bearer: a header that is one bearer token.  The lookup of the header
\* ignores case.
extract_bearer(header) == header.scheme = "bearer" /\ header.words = 1

_validate_issuer(claims) ==
    \/ claims.iss = Chat
    \/ claims.iss \in GoogleIssuers /\ claims.email = Chat

\* google.oauth2.id_token: verify_oauth2_token takes Google's certificates and
\* checks the issuer, verify_token takes the certificates it is told.
verify_oauth2_token(token) ==
    token.check = "valid" /\ token.signer = "google" /\ token.claims.iss \in GoogleIssuers

verify_token(token, certificates) == token.check = "valid" /\ token.signer = certificates

\* Faulty: the audience is trusted to say who calls.
VerifiedByAudience(audience, token) ==
    IF audience = "endpoint url" THEN verify_oauth2_token(token)
    ELSE verify_token(token, "chat") /\ _validate_issuer(token.claims)

\* GoogleTokenVerifier: an endpoint URL as the audience means an OIDC token of
\* Google, a project number means a token that Chat signed itself.
TokenVerified(audience, token) ==
    IF audience = "endpoint url"
    THEN verify_oauth2_token(token) /\ token.claims.email = Chat /\ token.claims.email_verified
    ELSE verify_token(token, "chat") /\ _validate_issuer(token.claims)

\* GooglePubSubVerifier: the service account the subscription is configured with.
PushTokenVerified(account, token) ==
    /\ verify_token(token, "google")
    /\ token.claims.iss \in GoogleIssuers
    /\ token.claims.email_verified
    /\ token.claims.email = account

Verified(audience, header) == extract_bearer(header) /\ TokenVerified(audience, header.token)

PushVerified(account, header) == extract_bearer(header) /\ PushTokenVerified(account, header.token)
===============================================================================
