SPECIFICATION Spec
CONSTANTS
    Tokens = {t1, t2}
    Requests = {r1, r2, r3, r4}
    Operations = {"create", "import", "edit", "merge", "apply_ocr", "correct", "archive", "delete", "bulk_delete", "recover", "purge"}
    Values = {v1}
    Keys = {"matrix_number"}
    Null = Null
SYMMETRY RegistrySymmetry
INVARIANTS
    ContiguousNumbers
    RowReplaysLog
    MergedIsNamed
PROPERTIES
    WritersNeverConflict
    HistoryIsAppendOnly
