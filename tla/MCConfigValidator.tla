------------------------- MODULE MCConfigValidator -------------------------
(***************************************************************************)
(* Configurations for checking ConfigValidator with TLC.  The policy and  *)
(* method lists are those the messages of access_control_test.go quote.   *)
(***************************************************************************)
EXTENDS ConfigValidator, TLC

MCVerbs == {"GET", "HEAD", "POST", "PUT", "PATCH", "DELETE", "TRACE", "CONNECT",
            "OPTIONS", "COPY", "LOCK", "MKCOL", "MOVE", "PROPFIND", "PROPPATCH",
            "UNLOCK"}
MCFold == [s \in MCVerbs \cup {"get", "HOP"} |-> IF s = "get" THEN "GET" ELSE s]

\* Subjects: "user:john", "group:admins", "invalid" and "".
User == <<"user:", "john">>
Admins == <<"group:", "admins">>
Bad == <<"", "invalid">>
Empty == <<"", "">>

Rule(d, rx, p, nw, sb, m) ==
    [domains |-> d, domainsRegex |-> rx, policy |-> p,
     networks |-> nw, subjects |-> sb, methods |-> m]

\* Every field takes an empty value, a valid one and an invalid one; a
\* regex is its set of capture-group names.
RuleOptions ==
    {Rule(d, rx, p, nw, sb, m) :
        d  \in {<<>>, <<"app.example.com">>},
        rx \in {<<>>, <<{"sub"}>>, <<{"User"}, {"Group"}>>},
        p  \in {"bypass", "deny", "wrong"},
        nw \in {<<>>, <<"internal">>, <<"abc.def", "10.0.0.1">>},
        sb \in {<<>>, <<<<User>>>>, <<<<Admins, Bad>>, <<Empty>>>>},
        m  \in {<<>>, <<"get">>, <<"GET", "HOP">>}}

\* Four rules for the two-rule configurations: a valid one, one with every
\* per-rule error, a bad policy without domains, and a bypass rule with
\* subjects and identity regexes.
Rep == {Rule(<<"app.example.com">>, <<>>, "deny", <<>>, <<>>, <<>>),
        Rule(<<>>, <<>>, "bypass", <<"abc.def">>, <<<<Bad>>>>, <<"HOP">>),
        Rule(<<>>, <<>>, "wrong", <<>>, <<>>, <<>>),
        Rule(<<>>, <<{"User"}, {"Group"}>>, "bypass", <<>>, <<<<User>>>>, <<>>)}

NetworkGroup(name, nets) == [name |-> name, networks |-> nets]

MCInputs ==
    {[acl |-> [defaultPolicy |-> dp, networks |-> ng, rules |-> rs], log |-> lg] :
        dp \in {"", "two_factor", "wrong"},
        ng \in {<<>>, <<NetworkGroup("internal", <<"10.0.0.0/8">>)>>,
                <<NetworkGroup("internal", <<"10.0.0.0/8", "abc.def">>),
                  NetworkGroup("external", <<"abc.def">>)>>},
        rs \in {<<>>} \cup {<<r>> : r \in RuleOptions} \cup {<<r, s>> : r, s \in Rep},
        lg \in {[level |-> "", format |-> ""], [level |-> "verbose", format |-> "json"]}}
=============================================================================
