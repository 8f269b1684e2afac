\* Names: every query name of up to five characters, every suffix and
\* search list of two.  RLS: every domain of up to four characters,
\* namespace of up to two, hits_addend up to 2, and every list of up to
\* three descriptors of up to two entries, nil descriptors included.
\* A state with no successor is an evaluation done.
CONSTANTS
    Chars <- MCChars
    ToLower <- MCToLower
    SysNamespace <- MCSysNamespace
    ServerNamespace = ServerNamespace
    CurrentNs = CurrentNs
    NoKey = NoKey
    MaxName = 5
    MaxSuffix = 2
    MaxSearch = 2
    MaxNdots = 2
    LabelKeys <- MCLabelKeys
    LabelValues <- MCLabelValues
    NilDescriptor = NilDescriptor
    NoMethod = NoMethod
    MaxDomain = 4
    MaxNamespace = 2
    MaxEntries = 2
    MaxDescriptors = 3
    MaxHits = 2
    NoConfig = NoConfig
    Absent = Absent
    NilValue = NilValue
SPECIFICATION Spec
INVARIANTS TypeOK ParseQnameMatchesSpec RequestMatchesSpec RecurseConfigMatchesSpec FitsWithoutEdns OverrunIsAppendedOpt ConfigPrecedence StartupMatchesSpec UpstreamDelayMatchesSpec
CHECK_DEADLOCK FALSE
