SPECIFICATION MCSpec
CONSTANTS
    ShamDavri = 4
    KunDavri = 8
    KashfiyotOldin = 3
    TasdiqOldin = 1
    KashfiyotKechikish = 1
    TasdiqKechikish = 0
    Coinlar = {c1}
    HajmQayta = 2
    HajmSoati = 4
    BahoOraligi = 2
    BahoKutish = 2
    VozKechish = 3
    BahoLimit = 1
    MaxSoat = 11
    MaxUzilish = 1
    MaxXato = 1
    MaxSorov = 1
    MIN_TARIX_KUN = 2
    Ch <- MCChegara
    Stablecoinlar = {}
    Harfli = {"c1", "c2", "btc"}
    Symbollar = {1, 2, 3}
    BTC = 3
    MAX_POOL = 2
    BOLAK = 1
    ZAXIRA_SAHIFALAR = 2
    MaxNosoz = 1
INVARIANTS
    SessiyaTogri
    KorinishTogri
    SlotlarTogri
PROPERTIES
    SorovOlinadi
    YurmoqdaYopiladi
    HajmOraligi
CHECK_DEADLOCK FALSE
