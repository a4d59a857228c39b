\* The forms with every text that matters to them, a handful of options, and the
\* steps of the builder in any order its interfaces allow.
CONSTANTS
    Malformed = Malformed
    Undefined = Undefined
    FieldText = {"", " "}
    OptionText <- MCOptionText
    MarginSide = {"top", "left"}
    Pasted <- MCPasted
    DefaultFields <- MCDefaultFields
    DirektoratFields <- MCDirektoratFields
    DefaultChoice <- MCDefaultChoice
    DirektoratChoice <- MCDirektoratChoice
    MaxActs = 6
    OtherRequests <- MCOtherRequests
    PdfConfig <- MCPdfConfig
    Metadata <- MCMetadata
SPECIFICATION Spec
INVARIANTS
    OnlyShownFormBlocks
    BuiltRequestAccepted
    AcceptedRequestRenders
    OptionsOverrideTemplate
    FooterNamesTheCase
CHECK_DEADLOCK FALSE
