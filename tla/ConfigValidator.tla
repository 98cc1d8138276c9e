--------------------------- MODULE ConfigValidator ---------------------------
(***************************************************************************)
(* The access-control and log validators of internal/configuration/        *)
(* validator (access_control.go, log.go).  Each validator is one action:   *)
(* it reads the configuration, may default some of its fields in place,    *)
(* and pushes errors or warnings onto the shared StructValidator.          *)
(*                                                                         *)
(* Data abstraction.  An error is a record [at, kind, item]: at is the     *)
(* rule position (0 for an error that is not about a rule), kind names    *)
(* the error format, item is the offending value.  ruleDescriptor and the *)
(* message wording are abstracted to at and kind.  A network is a string  *)
(* classified by the sets IPs and CIDRs (what net.ParseIP and             *)
(* net.ParseCIDR accept), a subject is the pair <<prefix, rest>> of its   *)
(* text split after the first colon, a domain regex is the set of its     *)
(* capture-group names (SubexpNames), and Fold is Unicode case folding    *)
(* over the method strings of a model.                                     *)
(***************************************************************************)
EXTENDS Integers, Sequences, SequencesExt, FiniteSets

CONSTANTS
    Inputs,                 \* the configurations the loader hands over
    policyBypass, policyOneFactor, policyTwoFactor, policyDeny,
    validACLHTTPMethodVerbs,
    IdentitySubexpNames,    \* authorization.IdentitySubexpNames
    validLoLevels,
    DefaultLevel, DefaultFormat,  \* schema.DefaultLoggingConfiguration
    IPs, CIDRs,
    Fold

validACLRulePolicies == {policyBypass, policyOneFactor, policyTwoFactor, policyDeny}

\* The callers, in the order the caller picks, and the validator state.
Validators == {"access_control", "rules", "log"}

VARIABLES
    input,      \* the configuration as loaded (never changed)
    config,     \* the configuration the validators read and default
    errors,     \* StructValidator.Errors(), in push order
    warnings,   \* StructValidator.Warnings()
    ran         \* the validators already called

vars == <<input, config, errors, warnings, ran>>

IsPolicyValid(policy) == policy \in validACLRulePolicies

IsSubjectValid(subject) ==
    subject = <<"", "">> \/ subject[1] \in {"user:", "group:"}

IsNetworkGroupValid(acl, network) ==
    \E g \in DOMAIN acl.networks : acl.networks[g].name = network

IsNetworkValid(network) == network \in IPs \/ network \in CIDRs

\* fmt.Errorf(errFmt..., ruleDescriptor(rulePosition, rule), item).
RuleError(rulePosition, kind, item) ==
    [at |-> rulePosition, kind |-> kind, item |-> item]

validateNetworks(rulePosition, rule, acl) ==
    LET bad == SelectSeq(rule.networks, LAMBDA n :
                   ~IsNetworkValid(n) /\ ~IsNetworkGroupValid(acl, n))
    IN  [i \in DOMAIN bad |-> RuleError(rulePosition, "network", bad[i])]

validateSubjects(rulePosition, rule) ==
    LET bad == SelectSeq(FlattenSeq(rule.subjects), LAMBDA s : ~IsSubjectValid(s))
    IN  [i \in DOMAIN bad |-> RuleError(rulePosition, "subject", bad[i])]

validateMethods(rulePosition, rule) ==
    LET bad == SelectSeq(rule.methods, LAMBDA m :
                   \A v \in validACLHTTPMethodVerbs : Fold[m] # Fold[v])
    IN  [i \in DOMAIN bad |-> RuleError(rulePosition, "method", bad[i])]

\* Faulty variant: no return after the first identity regex.
validateBypassNoReturn(rulePosition, rule) ==
    LET idRegex == SelectSeq(rule.domainsRegex, LAMBDA r : r \cap IdentitySubexpNames # {})
    IN  (IF rule.subjects # <<>>
         THEN <<RuleError(rulePosition, "bypass_subjects", "")>> ELSE <<>>)
        \o [i \in DOMAIN idRegex |-> RuleError(rulePosition, "bypass_regex", "")]

\* At most one regex error: the loop returns after the first regex that
\* names an identity capture group.
validateBypass(rulePosition, rule) ==
    (IF rule.subjects # <<>>
     THEN <<RuleError(rulePosition, "bypass_subjects", "")>> ELSE <<>>)
    \o (IF \E i \in DOMAIN rule.domainsRegex :
               rule.domainsRegex[i] \cap IdentitySubexpNames # {}
        THEN <<RuleError(rulePosition, "bypass_regex", "")>> ELSE <<>>)

\* Faulty variant: the bypass check before the subject check.
RuleErrorsBypassFirst(rulePosition, rule, acl) ==
    (IF Len(rule.domains) + Len(rule.domainsRegex) = 0
     THEN <<RuleError(rulePosition, "no_domains", "")>> ELSE <<>>)
    \o (IF ~IsPolicyValid(rule.policy)
        THEN <<RuleError(rulePosition, "policy", rule.policy)>> ELSE <<>>)
    \o validateNetworks(rulePosition, rule, acl)
    \o (IF rule.policy = policyBypass THEN validateBypass(rulePosition, rule) ELSE <<>>)
    \o validateSubjects(rulePosition, rule)
    \o validateMethods(rulePosition, rule)

\* The body of the loop of ValidateRules for the rule at rulePosition.
RuleErrors(rulePosition, rule, acl) ==
    (IF Len(rule.domains) + Len(rule.domainsRegex) = 0
     THEN <<RuleError(rulePosition, "no_domains", "")>> ELSE <<>>)
    \o (IF ~IsPolicyValid(rule.policy)
        THEN <<RuleError(rulePosition, "policy", rule.policy)>> ELSE <<>>)
    \o validateNetworks(rulePosition, rule, acl)
    \o validateSubjects(rulePosition, rule)
    \o validateMethods(rulePosition, rule)
    \o (IF rule.policy = policyBypass THEN validateBypass(rulePosition, rule) ELSE <<>>)

Init ==
    /\ input \in Inputs
    /\ config = input
    /\ errors = <<>>
    /\ warnings = <<>>
    /\ ran = {}

\* Default an empty default_policy to deny, then check it, then every
\* network of every network group.
ValidateAccessControl ==
    LET acl    == config.acl
        policy == IF acl.defaultPolicy = "" THEN policyDeny ELSE acl.defaultPolicy
        groupErrors(g) ==
            LET bad == SelectSeq(acl.networks[g].networks, LAMBDA n : ~IsNetworkValid(n))
            IN  [i \in DOMAIN bad |->
                    RuleError(0, "group_network", <<acl.networks[g].name, bad[i]>>)]
    IN  /\ "access_control" \notin ran
        /\ config' = [config EXCEPT !.acl.defaultPolicy = policy]
        /\ errors' = errors
                     \o (IF IsPolicyValid(policy) THEN <<>>
                         ELSE <<RuleError(0, "default_policy", policy)>>)
                     \o FlattenSeq([g \in DOMAIN acl.networks |-> groupErrors(g)])
        /\ ran' = ran \cup {"access_control"}
        /\ UNCHANGED <<input, warnings>>

\* Without rules the default policy must be one_factor or two_factor (an
\* error and return, else a warning); with rules, every rule in order.
ValidateRules ==
    LET acl == config.acl IN
    /\ "rules" \notin ran
    /\ \/ /\ acl.rules = <<>>
          /\ acl.defaultPolicy \notin {policyOneFactor, policyTwoFactor}
          /\ errors' = Append(errors, RuleError(0, "no_rules", ""))
          /\ UNCHANGED warnings
       \/ /\ acl.rules = <<>>
          /\ acl.defaultPolicy \in {policyOneFactor, policyTwoFactor}
          /\ warnings' = Append(warnings, RuleError(0, "no_rules", acl.defaultPolicy))
          /\ UNCHANGED errors
       \/ /\ acl.rules # <<>>
          /\ errors' = errors \o FlattenSeq([i \in DOMAIN acl.rules |->
                                                RuleErrors(i, acl.rules[i], acl)])
          /\ UNCHANGED warnings
    /\ ran' = ran \cup {"rules"}
    /\ UNCHANGED <<input, config>>

\* Default the level and the format, then check the level.
ValidateLog ==
    LET log   == config.log
        level == IF log.level = "" THEN DefaultLevel ELSE log.level
    IN  /\ "log" \notin ran
        /\ config' = [config EXCEPT !.log = [level  |-> level,
                                             format |-> IF log.format = ""
                                                        THEN DefaultFormat
                                                        ELSE log.format]]
        /\ errors' = IF level \in validLoLevels THEN errors
                     ELSE Append(errors, RuleError(0, "log_level", level))
        /\ ran' = ran \cup {"log"}
        /\ UNCHANGED <<input, warnings>>

\* Every validator has run: the configuration is accepted or refused.
Terminated == ran = Validators /\ UNCHANGED vars

Next == ValidateAccessControl \/ ValidateRules \/ ValidateLog \/ Terminated

Spec == Init /\ [][Next]_vars

-----------------------------------------------------------------------------
(***************************************************************************)
(* Reference: what is wrong with a configuration, stated as a set and     *)
(* without the validators' loops, their order or their early returns.     *)
(***************************************************************************)
When(c, S) == IF c THEN S ELSE {}

EffectivePolicy(cfg) ==
    IF cfg.acl.defaultPolicy = "" THEN policyDeny ELSE cfg.acl.defaultPolicy

RuleViolations(cfg, i) ==
    LET r      == cfg.acl.rules[i]
        groups == {cfg.acl.networks[g].name : g \in DOMAIN cfg.acl.networks}
        verbs  == {Fold[v] : v \in validACLHTTPMethodVerbs}
        subs   == UNION {ToSet(x) : x \in ToSet(r.subjects)}
    IN  When(r.domains = <<>> /\ r.domainsRegex = <<>>, {RuleError(i, "no_domains", "")})
        \cup When(r.policy \notin validACLRulePolicies, {RuleError(i, "policy", r.policy)})
        \cup {RuleError(i, "network", n) : n \in ToSet(r.networks) \ (IPs \cup CIDRs \cup groups)}
        \cup {RuleError(i, "subject", s) :
                 s \in {x \in subs : x # <<"", "">> /\ x[1] \notin {"user:", "group:"}}}
        \cup {RuleError(i, "method", m) : m \in {x \in ToSet(r.methods) : Fold[x] \notin verbs}}
        \cup When(r.policy = policyBypass /\ r.subjects # <<>>,
                  {RuleError(i, "bypass_subjects", "")})
        \cup When(r.policy = policyBypass /\
                  \E x \in ToSet(r.domainsRegex) : x \cap IdentitySubexpNames # {},
                  {RuleError(i, "bypass_regex", "")})

Violations(cfg) ==
    LET acl   == cfg.acl
        level == IF cfg.log.level = "" THEN DefaultLevel ELSE cfg.log.level
    IN  When(EffectivePolicy(cfg) \notin validACLRulePolicies,
             {RuleError(0, "default_policy", EffectivePolicy(cfg))})
        \cup UNION {{RuleError(0, "group_network", <<acl.networks[g].name, n>>) :
                        n \in ToSet(acl.networks[g].networks) \ (IPs \cup CIDRs)} :
                    g \in DOMAIN acl.networks}
        \cup When(acl.rules = <<>> /\
                  EffectivePolicy(cfg) \notin {policyOneFactor, policyTwoFactor},
                  {RuleError(0, "no_rules", "")})
        \cup UNION {RuleViolations(cfg, i) : i \in DOMAIN acl.rules}
        \cup When(level \notin validLoLevels, {RuleError(0, "log_level", level)})

Warned(cfg) ==
    cfg.acl.rules = <<>> /\ EffectivePolicy(cfg) \in {policyOneFactor, policyTwoFactor}

(***************************************************************************)
(* Once every validator has run, in whatever order the caller chose, the  *)
(* errors are exactly the violations of the loaded configuration, each    *)
(* reported once, and the no-rules warning is given exactly when no rules *)
(* are configured and the (defaulted) default policy lets users in.  It   *)
(* covers ValidateRules reading DefaultPolicy before or after             *)
(* ValidateAccessControl defaulted it, the network-group lookup of        *)
(* validateNetworks and the early return of validateBypass.               *)
(***************************************************************************)
ReportMatchesConfig ==
    ran = Validators =>
        /\ ToSet(errors) = Violations(input)
        /\ Len(errors) = Cardinality(Violations(input))
        /\ (warnings # <<>>) = Warned(input)

(***************************************************************************)
(* The errors about rules come in rule order and, within a rule, in the   *)
(* order the checks of ValidateRules run: domains, policy, networks,      *)
(* subjects, methods, then the bypass checks (the order the tests of      *)
(* access_control_test.go assert).                                         *)
(***************************************************************************)
CheckRank == [no_domains |-> 1, policy |-> 2, network |-> 3, subject |-> 4,
              method |-> 5, bypass_subjects |-> 6, bypass_regex |-> 7]

RuleErrorsInConfigOrder ==
    IsSorted(SelectSeq(errors, LAMBDA e : e.at > 0),
             LAMBDA a, b : \/ a.at < b.at
                           \/ a.at = b.at /\ CheckRank[a.kind] <= CheckRank[b.kind])
=============================================================================
