------------------------------ MODULE Identity ------------------------------
(***************************************************************************)
(* Who a request speaks for: AuthVerifier of src/src/auth.rs, and what     *)
(* ws_handler (src/src/server.rs) and resolve_identity (src/src/api.rs)    *)
(* make of it.  A token is what can be told of it: who signed it, whether  *)
(* it has expired, who issued it and its claims.                           *)
(***************************************************************************)

CONSTANTS
    Nothing,         \* None
    Anonymous, Api,  \* the client ids "anonymous" and "api"
    DefaultTenant    \* the tenant id "default"

\* The algorithm a key signs with; a key is "secret", "rsa" or "ed25519".
Algorithm(key) == CASE key = "secret"  -> "HS256"
                    [] key = "rsa"     -> "RS256"
                    [] key = "ed25519" -> "EdDSA"

\* WS_JWT_PUBLIC_KEY: a key, and whether the PEM text spells out "ED25519".  An
\* ordinary PEM does not: it is base64 between two lines that say PUBLIC KEY.
PublicKeys == [key : {"rsa", "ed25519", "unreadable"}, named : {FALSE}]
                \union [key : {"ed25519"}, named : {TRUE}]

\* from_config: the secret comes first, and a PEM that cannot be read leaves
\* authentication off.
Verifier(config) ==
    IF config.secret
    THEN [key |-> "secret", algorithm |-> "HS256", issuer |-> config.issuer]
    ELSE IF config.pem = Nothing \/ config.pem.key = "unreadable"
    THEN Nothing
    ELSE [key       |-> config.pem.key,
          algorithm |-> IF config.pem.named THEN "EdDSA" ELSE "RS256",
          issuer    |-> config.issuer]

Refused(why) == [refused |-> why]
Accepted(who) == "refused" \notin DOMAIN who

\* verify: what a token is rejected for, in the order it is looked at, and the
\* identity that its claims give.
Verify(verifier, token, expired) ==
    IF token.key # verifier.key \/ Algorithm(token.key) # verifier.algorithm
    THEN Refused("invalid")
    ELSE IF expired THEN Refused("expired")
    ELSE IF verifier.issuer # Nothing /\ token.issuer # verifier.issuer
    THEN Refused("issuer_mismatch")
    ELSE [client |-> token.sub,
          tenant |-> IF token.tenant = Nothing THEN DefaultTenant ELSE token.tenant]

OrElse(value, default) == IF value = Nothing THEN default ELSE value

\* The identity of an API request.
ApiIdentity(verifier, token, expired) ==
    IF verifier = Nothing
    THEN [client |-> Api, tenant |-> DefaultTenant]
    ELSE IF token = Nothing
    THEN Refused("missing")
    ELSE Verify(verifier, token, expired)

\* The identity of a WebSocket request: the claims are authoritative, and the
\* query counts only when authentication is off.
\* Mutant QueryWins: ?tenant_id= overrides the claim.
QueryWins(verifier, token, expired, query) ==
    LET who == ApiIdentity(verifier, token, expired)
    IN  IF Accepted(who)
        THEN [who EXCEPT !.tenant = OrElse(query.tenant, @)]
        ELSE who
WsIdentity(verifier, token, expired, query) ==
    IF verifier = Nothing
    THEN [client |-> OrElse(query.client, Anonymous),
          tenant |-> OrElse(query.tenant, DefaultTenant)]
    ELSE IF token = Nothing
    THEN Refused("missing")
    ELSE Verify(verifier, token, expired)
=============================================================================
