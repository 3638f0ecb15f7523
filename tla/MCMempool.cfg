SPECIFICATION Spec
CONSTANTS
    WORD_BITS = 2
    storage = 4
    block_size = 2
    block_count = 5
    Client = {c1, c2, c3}
    BadAddress <- MCBadAddress
INVARIANTS BitmapAgrees BlocksAreExclusive
