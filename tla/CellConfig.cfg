CONSTANTS
    Notifiers = {recv}
    Worker = worker
    MAX_CELLS = 1
    MAX_FREQS_PER_CELL = 2
    CellIds = {c1, c2}
    Powers = {p1}
    Types = {nr}
    Beams = {b1, b2, b3}
    Bands = {A, B}
    NoBand = NoBand
SPECIFICATION Spec
SYMMETRY Symmetry
INVARIANTS
    TablesConsistent
    SentWasDelivered
    ReplyTruthful
    TxNeedsFreq
