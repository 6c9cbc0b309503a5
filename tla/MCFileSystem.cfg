SPECIFICATION Spec
CONSTANTS
    Archivo = {a1, a2}
    BLOCK_COUNT = 6
    BLOCK_SIZE = 2
    Tamanios = {0, 3, 6}
    Accesos <- AccesosQueCruzan
    Dato = {0, 9}
INVARIANTS TipoFileSystem BitmapExacto ReinicioSeguro TrasladoFiel
PROPERTIES AislamientoDeArchivos TruncarConserva
CHECK_DEADLOCK FALSE
SYMMETRY Simetria
