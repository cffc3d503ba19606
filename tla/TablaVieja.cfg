CONSTANTS
    p1 = p1
    Nadie = Nadie
    Pids = {p1}
    TAM_MEMORIA = 5
    TAM_SEGMENTO_0 = 1
    CANT_SEGMENTOS = 4
    Tamanios = {1, 3}
    Algoritmos = {"BEST"}
SPECIFICATION Spec
CONSTRAINT Acotada
INVARIANT SegmentosSeparados
CHECK_DEADLOCK FALSE
