SPECIFICATION Spec
CONSTANTS
    Procs = {p1, p2}
    Cores = {c1}
    Servers = {p2}
    Conf <- Events2
    Cycles <- CycleEvents
    Nmi = nmi
    Zero = zero
    p1 = p1
    p2 = p2
    A = A
    B = B
    nmi = nmi
PROPERTIES
    AnswerIsHeeded
CHECK_DEADLOCK FALSE
