SPECIFICATION MCSpec
CONSTANTS
    Tarixlar <- MCTarixlar
    Qadamlar <- MCQadamlar
    Dumlar <- MCDumlar
    MaxYangi = 3
    OYNA = 22
    QANOT = 2
    STOP_KAM = 15
    STOP_KOP = 15
    Sanoqlar <- MCSanoqlar
    Balanslar = {100, 101}
    Pogonalar <- MCPogonalar
    Usullar = {"sequential_decay", "equal_split"}
    ULUSH_PCT = 34
    JOYLAR = 3
    ENG_KAM = 30
    MAX_HAJM_PCT = 100
    STRATEGIYA_PCT = 40
    Stoplar = {1, 5}
    Foydalar = {10}
    Miqdorlar = {60, 300}
    MaxSavdo = 3
    MaxKun = 2
    MaxOlish = 3
    MaxTavsiya = 4
    BTC = BTC
    ETH = ETH
    ASOSIY = ASOSIY
    GURUHSIZ = GURUHSIZ
    HECH = HECH
    Ramzlar <- MCRamzlar
    Guruhlar <- MCGuruhlar
    Sigimlar <- MCSigimlar
    Ishonchlar = {1, 2}
    TpSoni = 2
    Umumiy = 3
    Qoldiq = 2
    Shamlar <- MCShamlar
    MaxQadam = 4
INVARIANTS
    ByudjetTogri
    SinovTogri
    YuruvchilarTogri
    DarajalarTogri
    TuzilmaTogri
PROPERTIES
    QarzsizOchiladi
    QarorBarqaror
CHECK_DEADLOCK FALSE
