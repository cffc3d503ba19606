CONSTANTS
    p1 = p1
    p2 = p2
    p3 = p3
    Nadie = Nadie
    Procesos = {p1, p2, p3}
    Programas <- ProgramasRecursos
    Recursos = {"DISCO", "IMPRESORA"}
    Instancias <- UnaInstancia
    Archivos = {"Consoles"}
    Grado = 2
    Algoritmo = "HRRN"
    RespuestasMemoria = {"AUX_OK", "COMPACTACION", "OUT_OF_MEMORY"}
SPECIFICATION Spec
SYMMETRY Simetria
INVARIANTS TypeOK UnaCpu SenalDeExecuting PerdidoSinCpu
INVARIANT SoloRecursosDetienen
PROPERTY ImplementaCiclo
CHECK_DEADLOCK FALSE
