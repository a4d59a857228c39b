\* One tab on a bucket with files of its user, of another one and of nobody;
\* every call may fail, a rename may be cancelled, and a name may be typed with
\* a blank at its end.
CONSTANTS
    me = me
    other = other
    Tab = {t1}
    User = {me, other}
    UserOf <- FirstTabIsMine
    Name = {n1, n2}
    Tags = {"empty"}
    Document = {d1, d2}
    Blanks = {FALSE, TRUE}
SYMMETRY FileSymmetry
SPECIFICATION Spec
PROPERTIES
    RenameKeepsDocument
    NameOutlivesOverwrite
