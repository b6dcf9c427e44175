SPECIFICATION FairSpec
CONSTANTS
    MaxErrors <- Budgets
    MaxTries = 5
INVARIANTS
    InsertedAtMostOnce
    FailoverWhenDue
PROPERTIES
    ImplementsDbCall
    CallReturns
