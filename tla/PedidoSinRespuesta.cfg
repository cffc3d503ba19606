CONSTANTS
    Desalojos <- SoloEscribir
    Creaciones <- HayLugar
    Consolas = 1
    Texto <- MCTexto
    Nadie = Nadie
SPECIFICATION FairSpec
PROPERTY FsConfirma
CHECK_DEADLOCK FALSE
