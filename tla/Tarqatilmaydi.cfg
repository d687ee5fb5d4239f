SPECIFICATION TarqAdolatliSpec
CONSTANTS
    Odamlar = {u1}
    Bosishlar = {}
    MaxSignal = 2
    MaxUzilish = 1
    Chegara = 1
    Rejalar = {FALSE}
CHECK_DEADLOCK FALSE
PROPERTY ObunachigaYetadi
