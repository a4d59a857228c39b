CONSTANTS
    Parsing <- ParsedAST
    Within <- NodesWithin
    HeightOf <- NodesHeight
    Depth = 6
    Template <- MCTemplate
    Input <- MCInput
    Typed <- MCTyped
    Random <- MCRandom
    InitialText <- InitialMd
    InitialVars <- InitialValues
    ExampleText <- ExampleMd
    ExampleVars <- ExampleValues
SPECIFICATION Spec
INVARIANTS
    ParseIsMeaning
    DetectedVariablesSuffice
    ErrorNamesItsSection
PROPERTIES
    FilesLoadClean
