\* Three users, one code of five fen, two packets, two handlers at work, one change of membership.
SPECIFICATION Spec
CONSTANTS
    Users = {a, b, c}
    Packets = {p, q}
    Codes = {k}
    CodeValue = 5
    Amounts = {2, 5}
    Counts = {2, 3}
    MaxChanges = 1
    Requests = {r1, r2}
    NoRequest = NoRequest
SYMMETRY Symmetry
INVARIANTS TypeOK MoneyIsConserved PacketAddsUp EveryShareIsCovered NormalSharesAreEven
CHECK_DEADLOCK FALSE
