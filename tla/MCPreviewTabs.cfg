\* Both remote tabs in use: three documents, one of which does not parse.
CONSTANTS
    Document = {d1, d2, broken}
    Broken = {broken}
    Options = {o1, o2}
    Tabs <- BothRemote
SYMMETRY PreviewSymmetry
SPECIFICATION Spec
INVARIANT
    QuietTabIsCurrent
