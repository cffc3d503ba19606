CONSTANTS
    p1 = p1
    p2 = p2
    Nadie = Nadie
    Procesos = {p1, p2}
    Programas <- ProgramasDosArchivos
    Recursos = {}
    Instancias <- SinInstancias
    Archivos = {"Consoles", "Videogames"}
    Grado = 2
    Algoritmo = "FIFO"
    RespuestasMemoria = {}
SPECIFICATION FairSpec
PROPERTY DespachadoEjecuta
CHECK_DEADLOCK FALSE
