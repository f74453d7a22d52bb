CONSTANTS
    t1 = t1
    t2 = t2
    a1 = a1
    a2 = a2
    Threads = {t1, t2}
    Addresses = {a1, a2}
    Sizes = {1, 2}
    NoAddress = NoAddress
SPECIFICATION Spec
PROPERTY Recognized
