CONSTANTS Accounts <- MCAccounts
          NameOf <- MCNameOf
          Criteria <- MCCriteria
SPECIFICATION Spec
INVARIANTS RangeInList
           ListInOrder
           FilterKeepsMatches
PROPERTY ImplementsItemSet
