SPECIFICATION Spec
CONSTANTS
    Lexicon <- MCLexicon
    TrimSpace <- MCTrimSpace
    TrimSlashes <- MCTrimSlashes
    ToUpper <- MCToUpper
    Absolute <- MCAbsolute
    Plain <- MCPlain
    Belongs <- MCBelongs
    MethodForm <- MCMethodForm
    Pad <- MCPad
    Respell <- MCRespell
    GivenConfigs <- MCConfigs
    Files <- MCFiles
    ServiceOptionses <- MCOptions
    MaxDeployments = 2
INVARIANTS
    TypeOK
    
    AcceptedIsRegistrable
    SameContentSameRegistration
    RegistersTheManifest
    OneInstance
    DefaultsAgree
CHECK_DEADLOCK FALSE
