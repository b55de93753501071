SPECIFICATION OpsSpec
CONSTANTS
    NoRow = NoRow
    RowId = {a1, a2}
    Name = {n1, n2}
INVARIANTS RecordTrue NamesUniqueAtLatest
