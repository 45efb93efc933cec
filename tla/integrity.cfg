SPECIFICATION Spec
CONSTANTS
    Folders = {"run", "sub", "Sub"}
    Root = "run"
    Outside = "out"
    a = a
    A = A
    odd = odd
    Names = {a, A, odd}
    Portable = {a, A}
    Lower <- LowerNames
    Contents = {"x", "y"}
    Absent = Absent
    Link = Link
    Layouts <- SmallLayouts
    MaxEdits = 2
    MaxEntries = 3
    None = None
CHECK_DEADLOCK FALSE
INVARIANTS
    ReceiptAccounts
    BuiltVerifies
    ReadAsDeclared
