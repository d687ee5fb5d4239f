SPECIFICATION MCSpec
CONSTANTS
    TPSoni = 2
    UmumiyMuddat = 2
    QoldiqMuddat = 1
    Oyna = 2
    Tanaffus = 1
    MaxSham = 4
    Odamlar = {u1}
    Bosishlar = {b1}
    MaxSignal = 2
    MaxUzilish = 1
    Chegara = 1
    Rejalar = {TRUE, FALSE}
    PanelCoinlari = {c1}
    TopHajm = 1
    KuzatuvHajm = 1
    MaxBosish = 1
    MaxNosozlik = 1
CHECK_DEADLOCK FALSE
INVARIANTS
    BelgilanganUrindi
    BegonaOlmaydi
    TakrorChegarasi
PROPERTIES
    SavdoYopiladi
    Tarqatiladi
    EkranTiklanadi
    SorovOlingan
