\* Every validator in every order, over one-rule configurations with every
\* combination of field values and two-rule configurations.
CONSTANTS
    Inputs <- MCInputs
    policyBypass = "bypass"
    policyOneFactor = "one_factor"
    policyTwoFactor = "two_factor"
    policyDeny = "deny"
    validACLHTTPMethodVerbs <- MCVerbs
    IdentitySubexpNames = {"User", "Group"}
    validLoLevels = {"trace", "debug", "info", "warn", "error"}
    DefaultLevel = "info"
    DefaultFormat = "text"
    IPs = {"10.0.0.1"}
    CIDRs = {"10.0.0.0/8"}
    Fold <- MCFold
SPECIFICATION Spec
INVARIANT ReportMatchesConfig
INVARIANT RuleErrorsInConfigOrder
