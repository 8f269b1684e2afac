\* Sections 4.3 and 4.1: the registry key of a question with a search domain.
CONSTANTS
    Chars <- MCChars
    ToLower <- MCToLower
    SysNamespace <- MCSysNamespace
    ServerNamespace = ServerNamespace
    CurrentNs = CurrentNs
    NoKey = NoKey
    MaxName = 5
    MaxSuffix = 2
    MaxSearch = 2
    MaxNdots = 2
    LabelKeys <- MCLabelKeys
    LabelValues <- MCLabelValues
    NilDescriptor = NilDescriptor
    NoMethod = NoMethod
    MaxDomain = 4
    MaxNamespace = 2
    MaxEntries = 2
    MaxDescriptors = 3
    MaxHits = 2
    NoConfig = NoConfig
    Absent = Absent
    NilValue = NilValue
SPECIFICATION Spec
INVARIANT LookupKeyMatchesSpec
CHECK_DEADLOCK FALSE
