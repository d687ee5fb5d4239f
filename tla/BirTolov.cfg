SPECIFICATION Spec
CONSTANTS
    Amallar = {h1, h2}
    SAYT = SAYT
    TarifSoni = 1
    Eslatmalar <- IkkiBir
    KUN = 2
    Oylik = 3
    Kunlik = 1
    Oraliq = 2
    MaxTolov = 1
    MaxObuna = 2
    MaxVaqt = 8
INVARIANTS
    BirTolovBirObuna
