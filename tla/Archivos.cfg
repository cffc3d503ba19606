CONSTANTS
    p1 = p1
    p2 = p2
    p3 = p3
    Nadie = Nadie
    Procesos = {p1, p2, p3}
    Programas <- ProgramasArchivos
    Recursos = {"DISCO"}
    Instancias <- UnaInstancia
    Archivos = {"Consoles"}
    Grado = 2
    Algoritmo = "FIFO"
    RespuestasMemoria = {"AUX_OK", "COMPACTACION", "OUT_OF_MEMORY"}
SPECIFICATION Spec
SYMMETRY Simetria
INVARIANTS GradoExacto InvInductivo InvSitios
CHECK_DEADLOCK FALSE
