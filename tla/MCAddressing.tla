---------------------------- MODULE MCAddressing ----------------------------
(***************************************************************************)
(* Instances of Addressing for TLC: spellings of one name with blanks and  *)
(* slashes, a name with a colon in it, one that is too long and none at    *)
(* all; tenants of which one is a prefix of another with a colon.          *)
(***************************************************************************)
EXTENDS Addressing

MCChars == {"a", "p", " ", "/", ":"}
MCNames == {<<>>, <<"a">>, <<" ", "a">>, <<"a", " ">>, <<"/", "a">>,
            <<" ", "/", "a">>, <<"/", " ", "a">>, <<"a", ":", "a">>,
            <<"a", "a", "a", "a">>}
MCPublic == <<"p">>
Acme     == <<"a">>
Colonial == <<"a", ":", "a">>
Default  == <<"p">>

Token(key, sub, tenant, issuer) ==
    [key |-> key, sub |-> sub, tenant |-> tenant, issuer |-> issuer]
MCTokens == {Token("secret", "ann", Acme, "ours"),
             Token("secret", "bob", Nothing, "ours"),
             Token("secret", "cy", Colonial, "ours"),
             Token("secret", "ann", Acme, "theirs"),
             Token("rsa", "ann", Acme, "ours")}
KeyTokens == {Token(key, "ann", Acme, "ours") : key \in {"secret", "rsa", "ed25519"}}

MCQueries == [client : {Nothing}, tenant : {Nothing, Acme, Colonial}]

Setting(secret, pem, issuer) == [secret |-> secret, pem |-> pem, issuer |-> issuer]
MCConfigs == {Setting(FALSE, Nothing, Nothing),
              Setting(TRUE, Nothing, "ours"),
              Setting(FALSE, [key |-> "rsa", named |-> FALSE], Nothing)}
KeyConfigs == [secret : BOOLEAN, pem : PublicKeys \union {Nothing},
               issuer : {Nothing, "ours"}]
=============================================================================
