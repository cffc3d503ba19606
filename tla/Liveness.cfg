CONSTANTS
    p1 = p1
    p2 = p2
    p3 = p3
    Nadie = Nadie
    Procesos = {p1, p2, p3}
    Programas <- ProgramasExclusion
    Recursos = {"DISCO"}
    Instancias <- UnaInstancia
    Archivos = {}
    Grado = 2
    Algoritmo = "FIFO"
    RespuestasMemoria = {}
SPECIFICATION FairSpec
INVARIANTS UnSoloLugar SinCaida InvViva
PROPERTY TodosTerminan
CHECK_DEADLOCK FALSE
