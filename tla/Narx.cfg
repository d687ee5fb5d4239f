SPECIFICATION MCKSpec
CONSTANTS
    BOT_URINISHLAR = 2
    Hujjatlar = {{}}
    Qoidalar = {}
PROPERTY NarxAdminniki
CHECK_DEADLOCK FALSE
