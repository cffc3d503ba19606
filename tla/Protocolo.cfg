CONSTANTS
    Desalojos <- SinMemoriaDelFs
    Creaciones <- HayLugar
    Consolas = 2
    Texto <- MCTexto
    Nadie = Nadie
SPECIFICATION FairSpec
INVARIANTS SeLeeLoEnviado RespuestaPropia NadaDeMas
PROPERTY DespachaSiempre
