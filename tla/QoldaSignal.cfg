SPECIFICATION MCSpec
CONSTANTS
    Odamlar = {o1}
    Idlar = {1, 2}
    Narxlar = {10, 20}
    Yoq = Yoq
    MaxSignal = 3
    MaxXabar = 2
    SIGNAL_OYNASI_KUN = 1
    BIR_MARTALIK_CHEGARA = 1
    MaxKun = 2
    DarsIdlar = {1, 2}
    Fayllar = {f1, f2, f3}
    Hech = Hech
    LIMIT = 2
    Amallar = {h1}
    SAYT = SAYT
    TarifSoni = 2
    Eslatmalar <- IkkiBir
    KUN = 2
    Oylik = 3
    Kunlik = 1
    Oraliq = 2
    MaxTolov = 1
    MaxObuna = 2
    MaxVaqt = 8
    MaxHodisa = 0
    MaxVazifa = 2
    BOT_URINISHLAR = 2
    Hujjatlar = {{}}
    Qoidalar = {}
PROPERTY NamoyishTasdiqqa
CHECK_DEADLOCK FALSE
