CONSTANTS
    p1 = p1
    p2 = p2
    Nadie = Nadie
    Pids = {p1, p2}
    TAM_MEMORIA = 5
    TAM_SEGMENTO_0 = 1
    CANT_SEGMENTOS = 3
    Tamanios = {1, 2}
    Algoritmos = {"FIRST", "BEST", "WORST"}
SPECIFICATION Spec
SYMMETRY Simetria
CONSTRAINT Acotada
INVARIANT TypeOK
PROPERTIES CubrenSinCompactar CompactaBien ParticionEstable
CHECK_DEADLOCK FALSE
