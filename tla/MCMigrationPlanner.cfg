\* Calls of the sqlite dialect with every prior and target a caller of the
\* planner can hold: PreSchema, NoSchema and the versions 1 to 3.
CONSTANTS
    Catalogs <- MCCatalogs
    Dialects = {"sqlite"}
    Priors <- MCVersions
    Goals <- MCVersions
SPECIFICATION Spec
INVARIANT PlanFollowsSpec
 
