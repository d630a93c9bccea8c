SPECIFICATION FairSpec
CONSTANTS
    Tokens = {t1, t2}
    Requests = {r1, r2, r3}
    Operations = {"create", "import", "collection_import", "reimport", "edit", "merge", "apply_ocr", "correct", "genres", "sync", "archive", "delete", "bulk_delete", "recover", "purge"}
    Values = {v1}
    Keys = {"matrix_number"}
    Null = Null
PROPERTY EveryRequestEnds
