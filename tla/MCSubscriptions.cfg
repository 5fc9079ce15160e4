\* Two clients and three changes: a lost update, a stale audit and a reload that
\* overlaps the next SIGHUP all fit. Two crashes reuse a revision if it can be.
CONSTANTS
    Clients = {c1, c2}
    Specs = {none, a}
    Empty = none
    MaxChanges = 3
    MaxCrashes = 2
SPECIFICATION FairSpec
INVARIANTS ShownIsDurable RevisionNamesSpec AuditBrackets
PROPERTIES ConditionalReplacesSeen HangupTakesEffect
