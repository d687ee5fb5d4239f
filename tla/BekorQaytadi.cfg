SPECIFICATION Spec
CONSTANTS
    TPSoni = 2
    UmumiyMuddat = 3
    QoldiqMuddat = 2
    Oyna = 3
    Tanaffus = 2
    MaxSham = 3
CHECK_DEADLOCK FALSE
PROPERTY BekorQaytmaydi
