CONSTANTS
    A1 = A1
    B1 = B1
    Nombres = {A1, B1}
    SIZE_BLOQUE = 2
    CANTIDAD_BLOQUES = 8
    Repartos <- MCRepartos
    Tamanios = {0, 2, 3, 5}
    Posiciones = {0, 1, 4}
    Largos = {1, 4}
    NoHay = NoHay
    Vacio = Vacio
    Roto = Roto
    MaxPedidos = 3
    MaxCaidas = 2
SPECIFICATION Spec
CONSTRAINT AlgunoEntero
INVARIANTS TypeOK InvInductivo BitmapExacto SinCompartir
PROPERTIES ImplementaArchivos EscrituraEntera
CHECK_DEADLOCK FALSE
