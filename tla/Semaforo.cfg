CONSTANTS
    p1 = p1
    p2 = p2
    p3 = p3
    Nadie = Nadie
    Procesos = {p1, p2, p3}
    Programas <- ProgramasExclusion
    Recursos = {"DISCO"}
    Instancias <- UnaInstancia
    Archivos = {}
    Grado = 3
    Algoritmo = "FIFO"
    RespuestasMemoria = {}
SPECIFICATION Spec
SYMMETRY Simetria
INVARIANT SemaforoContador
CHECK_DEADLOCK FALSE
