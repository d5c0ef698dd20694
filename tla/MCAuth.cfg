CONSTANTS
    c1 = c1
    c2 = c2
    Rules = {c1, c2}
    RuleSpecs <- MCRuleSpecs
    AuthorityLists <- MCAuthorityLists
    MaxChanges = 1
SPECIFICATION FairSpec
INVARIANTS
    TypeOK
    RuleSyncedMeansSet
    AuthorityComparison
PROPERTIES
    RulesSettle
    AuthoritySettles
