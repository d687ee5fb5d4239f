SPECIFICATION MCSpec
CONSTANTS
    Coinlar = {c1, c2}
    Zonalar = {z1, z2}
    ZONASIZ = ZONASIZ
    MaxQator = 3
    Avtomatik = TRUE
    QoldaBor = TRUE
    TPSoni = 2
    UmumiyMuddat = 3
    QoldiqMuddat = 2
    Oyna = 3
    Tanaffus = 2
    MaxSham = 4
    KIdlar <- MCIdlar
    Terilgan <- MCTerilgan
    KNarxlar = {11}
    TP1_ULUSH = 50
    MARKET_CHEGARA = 15
    KYoq = KYoq
    MaxTarix = 2
    MaxSorov = 2
    PanelCoinlari = {c1, c2}
    TopHajm = 1
    KuzatuvHajm = 1
    MaxBosish = 1
    MaxNosozlik = 1
    yoq = yoq
    lite = lite
    pro = pro
    Tariflar <- MCTariflar
    Chegara <- MCChegara
    MaxKun = 1
SYMMETRY Simmetriya
INVARIANTS
    YurishButun
    ZanjirBitta
    TakrorEmas
    NatijaBozordan
    BekorHaqiqiy
    SavdoIzchil
    KartochkaRost
    RoyxatButun
    BugunChegarada
PROPERTIES
    HayotSpec
