CONSTANTS
    p1 = p1
    p2 = p2
    Pids = {p1, p2}
    CANT_REGISTROS = 3
    ANCHO = 2
    NUL = 0
    Letras = {1, 2}
    Basuras = {0, 1}
    Nombre <- MCNombre
    Valores <- MCValores
    TAM_MEMORIA = 6
    TAM_MAX_SEGMENTO = 3
    Tabla <- MCConUno
    Direcciones = {0, 3}
    Largos = {1}
    MaxInstrucciones = 2
    Nadie = Nadie
SPECIFICATION Spec
SYMMETRY Simetria
PROPERTY OtrosSegmentosIntactos
CHECK_DEADLOCK FALSE
