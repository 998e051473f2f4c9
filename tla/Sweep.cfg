SPECIFICATION Spec
CONSTANTS
    Keys <- MCKeys
    Plain <- MCPlain
    Fields <- MCFields
    RefField = 1
    ValueField = 4
    KeyName <- MCKeyName
    FieldName <- MCFieldName
    BadParts <- MCBadParts
    Strings <- MCStrings
    Reply <- MCReply
    Entries <- MCEntries
    Rewrites <- MCRewrites
    Stores <- MCStores
    Grants <- MCGrants
    MaxWrites = 1
INVARIANTS
    SweepInv
    QuietSweepIsExact
    UntouchedIsServed
    SecretsAreOfOneVersion
PROPERTIES
    PrecedenceIsFinal
CHECK_DEADLOCK FALSE
