-------------------------- MODULE Llamadas_proofs --------------------------
(***************************************************************************)
(* What the threads of Protocolo do, call by call: the calls of each       *)
(* handler, what each call does to the connection and to the thread, and   *)
(* at each position of a handler which call is next.                       *)
(***************************************************************************)
EXTENDS Protocolo, TLAPS, SequenceTheorems
-----------------------------------------------------------------------------
(* Types *)

Palabras == {Palabra(es, vale) : es \in {"op", "tam", "dato"}, vale \in Int}

envia(de, a, op, datos) ==
    [paso |-> "send", canal |-> <<de, a>>, palabras |-> Paquete(op, datos)]
recibe(de, a) == [paso |-> "recibir_operacion", canal |-> <<de, a>>]
mira(de, a, como) == [paso |-> "switch", canal |-> <<de, a>>, como |-> como]
recibeBuffer(de, a) == [paso |-> "recibir_buffer", canal |-> <<de, a>>]
elige(que) == [paso |-> "elegir", que |-> que]
conecta(de, a) == [paso |-> "connect", canal |-> <<de, a>>]
responde(de, a) ==
    [paso |-> "send", canal |-> <<de, a>>, palabras |-> <<Dato(0)>>]
lanza(hilos) == [paso |-> "pthread_create", hilos |-> hilos]
solo(paso) == [paso |-> paso]

Miradas == {"manejo_instrucciones", "f_open", "crear", "crear_de_nuevo",
            "borrar", "fs", "conexion", "pedidos_fs", "pedidos_cpu",
            "pedidos_kernel"}
Elecciones == {"instruccion", "confirmar", "crear_segmento"}
Sueltas == {"lanzado", "listen", "accept", "lock", "unlock", "sem_wait", "fin"}
Llamadas ==
    {envia(de, a, op, datos) : de \in Modulos, a \in Modulos, op \in Int,
                               datos \in Seq(Palabras)}
    \cup {recibe(de, a) : de \in Modulos, a \in Modulos}
    \cup {mira(de, a, como) : de \in Modulos, a \in Modulos, como \in Miradas}
    \cup {recibeBuffer(de, a) : de \in Modulos, a \in Modulos}
    \cup {elige(que) : que \in Elecciones}
    \cup {conecta(de, a) : de \in Modulos, a \in Modulos}
    \cup {responde(de, a) : de \in Modulos, a \in Modulos}
    \cup {lanza(hilos) : hilos \in SUBSET Hilos}
    \cup {solo(paso) : paso \in Sueltas}

Tipos ==
    /\ canal \in [Canales -> Seq(Palabras)]
    /\ por \in [Hilos -> Seq(Llamadas)]
    /\ escuchan \in SUBSET Hilos
    /\ cola \in [Modulos -> Seq(Modulos)]
    /\ inicializar \in Nat

-----------------------------------------------------------------------------
(* Where a thread is, and what is in a connection *)

\* What is left of s once k of its calls are made.
Quedan(s, k) == SubSeq(s, k + 1, Len(s))
Tras(h, s, k) == IF k = Len(s) THEN Bucle[h] ELSE Quedan(s, k)
En(h, s, k) == por[h] = Quedan(s, k)
EnBucle(h) == por[h] = Bucle[h]
SinEmpezar(h) == por[h] = Fin

\* A packet, once its operation is read.
Resto(datos) == <<Palabra("tam", 4 * Len(datos))>> \o datos

kc == canal[<<"kernel", "cpu">>]
ck == canal[<<"cpu", "kernel">>]
kf == canal[<<"kernel", "fs">>]
fk == canal[<<"fs", "kernel">>]
km == canal[<<"kernel", "memoria">>]
mk == canal[<<"memoria", "kernel">>]
cm == canal[<<"cpu", "memoria">>]
mc == canal[<<"memoria", "cpu">>]
fm == canal[<<"fs", "memoria">>]
mf == canal[<<"memoria", "fs">>]
cf == canal[<<"cpu", "fs">>]
fc == canal[<<"fs", "cpu">>]
De(c) == canal[<<c, "memoria">>]
A(c) == canal[<<"memoria", c>>]

-----------------------------------------------------------------------------
(* Sequences of calls that the proofs name *)

Abrir == manejo_instrucciones(Op.I_F_OPEN)
Truncar == manejo_instrucciones(Op.I_TRUNCATE)
Crear == manejo_instrucciones(Op.I_CREATE_SEGMENT)
Borrar == manejo_instrucciones(Op.I_DELETE_SEGMENT)
Otra == RecibirBuffer("cpu", "kernel")
NoAbierto == TrasAbrir(Op.AUX_ERROR)
Creado == TrasCrear(Op.AUX_OK, "crear")
Compacta == TrasCrear(Op.COMPACTACION, "crear")
CompactaOtraVez == TrasCrear(Op.COMPACTACION, "crear_de_nuevo")
Borrado == TrasBorrar(Op.AUX_OK)

\* What follows the answer of Memoria to a CREATE_SEGMENT.
DatosDe(r) == IF r = Op.AUX_OK THEN Puntero ELSE <<>>

\* How Memoria learns who a client is, and the thread it launches for it.
Soy == [kernel |-> Op.AUX_SOY_KERNEL, cpu |-> Op.AUX_SOY_CPU,
        fs |-> Op.AUX_SOY_FILE_SYSTEM]
PedidosDe == [kernel |-> "pedidos_kernel", cpu |-> "pedidos_cpu",
              fs |-> "pedidos_fs"]
Saludo(c) == Recibir(c, "memoria") \o Responder("memoria", c)
             \o Segun(c, "memoria", "conexion")

\* ... and what the CPU and the FileSystem do when the kernel connects.
SaludoDe(c) == Recibir("kernel", c) \o Responder(c, "kernel") \o Bucle[c]

\* Memoria is at call j of the greeting of its i-th client, and of what it
\* does once it knows who that is.
Saluda(c, i, j) == En("memoria", Saludo(c) \o Quedan(Inicio.memoria, i + 1), j)
Atiende(c, i, j) ==
    En("memoria",
       atender_conexiones(Soy[c]) \o Quedan(Inicio.memoria, i + 1), j)

-----------------------------------------------------------------------------
(* What is left of a sequence *)

\* What is left of s is its next call and what is left after it.
LEMMA LoQueQueda ==
    ASSUME NEW S, NEW s \in Seq(S), NEW k \in 0..Len(s) - 1
    PROVE  /\ Quedan(s, k) \in Seq(S) /\ Quedan(s, k) # <<>>
           /\ Head(Quedan(s, k)) = s[k + 1]
           /\ Tail(Quedan(s, k)) = Quedan(s, k + 1)
<1>1. /\ k + 1 \in 1..Len(s) /\ Len(s) \in (k + 1)..Len(s) /\ Len(s) \in Int
      /\ k + 1 \in Int /\ \A i \in k + 1 .. Len(s) : s[i] \in S
      /\ k + 1 + 1 = (k + 1) + 1 /\ Len(s) - (k + 1) + 1 # 0 /\ k + 1 <= Len(s)
  OBVIOUS
<1>2. Quedan(s, k) \in Seq(S) /\ Len(Quedan(s, k)) # 0
  BY <1>1, SubSeqProperties DEF Quedan
<1>3. Quedan(s, k) # <<>>
  BY <1>2
<1>4. /\ Head(SubSeq(s, k + 1, Len(s))) = s[k + 1]
      /\ Tail(SubSeq(s, k + 1, Len(s))) = SubSeq(s, (k + 1) + 1, Len(s))
  BY <1>1, HeadTailOfSubSeq
<1> QED
  BY <1>2, <1>3, <1>4 DEF Quedan

\* Before the first call all of s is left, after the last nothing.
LEMMA QuedaTodoONada ==
    ASSUME NEW S, NEW s \in Seq(S)
    PROVE  Quedan(s, 0) = s /\ Quedan(s, Len(s)) = <<>>
BY DEF Quedan

\* Once s is made, what is left of s and t is what is left of t.
LEMMA QuedaLaSegunda ==
    ASSUME NEW S, NEW s \in Seq(S), NEW t \in Seq(S), NEW k \in 0..Len(t)
    PROVE  Quedan(s \o t, Len(s) + k) = Quedan(t, k)
BY DEF Quedan

\* What is left of s, element by element.
LEMMA QuedaDeQueda ==
    ASSUME NEW S, NEW s \in Seq(S), NEW k \in 0..Len(s)
    PROVE  Quedan(s, k) \in Seq(S) /\ Len(Quedan(s, k)) = Len(s) - k
           /\ \A i \in 1..Len(s) - k : Quedan(s, k)[i] = s[k + i]
BY DEF Quedan

\* Sequences given element by element.
LEMMA UnaAntes ==
    ASSUME NEW S, NEW s \in Seq(S), NEW a \in S
    PROVE  /\ <<a>> \o s \in Seq(S) /\ Len(<<a>> \o s) = Len(s) + 1
           /\ (<<a>> \o s)[1] = a
           /\ \A i \in 1..Len(s) : (<<a>> \o s)[i + 1] = s[i]
OBVIOUS

\* What is left of a and s, once a is made.
LEMMA QuedaTrasUna ==
    ASSUME NEW S, NEW s \in Seq(S), NEW a \in S, NEW k \in 0..Len(s)
    PROVE  Quedan(<<a>> \o s, k + 1) = Quedan(s, k)
BY DEF Quedan

\* A sequence of a few calls, spelt out.
LEMMA Dos ==
    ASSUME NEW S, NEW a \in S, NEW b \in S
    PROVE  LET s == <<a>> \o <<b>> IN
           s \in Seq(S) /\ Len(s) = 2 /\ s[1] = a /\ s[2] = b
OBVIOUS

LEMMA Tres ==
    ASSUME NEW S, NEW a \in S, NEW b \in S, NEW c \in S
    PROVE  LET s == <<a>> \o <<b>> \o <<c>> IN
           s \in Seq(S) /\ Len(s) = 3 /\ s[1] = a /\ s[2] = b /\ s[3] = c
OBVIOUS

LEMMA Cuatro ==
    ASSUME NEW S, NEW a \in S, NEW b \in S, NEW c \in S, NEW d \in S
    PROVE  LET s == <<a>> \o <<b>> \o <<c>> \o <<d>> IN
           /\ s \in Seq(S) /\ Len(s) = 4
           /\ s[1] = a /\ s[2] = b /\ s[3] = c /\ s[4] = d
OBVIOUS

LEMMA Cinco ==
    ASSUME NEW S, NEW a \in S, NEW b \in S, NEW c \in S, NEW d \in S,
           NEW e \in S
    PROVE  LET s == <<a>> \o <<b>> \o <<c>> \o <<d>> \o <<e>> IN
           /\ s \in Seq(S) /\ Len(s) = 5
           /\ s[1] = a /\ s[2] = b /\ s[3] = c /\ s[4] = d /\ s[5] = e
OBVIOUS

LEMMA Seis ==
    ASSUME NEW S, NEW a \in S, NEW b \in S, NEW c \in S, NEW d \in S,
           NEW e \in S,
           NEW f \in S
    PROVE  LET s == <<a>> \o <<b>> \o <<c>> \o <<d>> \o <<e>> \o <<f>> IN
           /\ s \in Seq(S) /\ Len(s) = 6
           /\ s[1] = a /\ s[2] = b /\ s[3] = c /\ s[4] = d /\ s[5] = e
                /\ s[6] = f
OBVIOUS

-----------------------------------------------------------------------------
(* Words and packets *)

\* The operation codes of Op.
LEMMA Codigos ==
    /\ Op.OP_EXECUTE_PCB \in Int /\ Op.I_MOV_IN \in Int
    /\ Op.I_MOV_OUT \in Int /\ Op.I_F_OPEN \in Int
    /\ Op.I_F_READ \in Int /\ Op.I_F_WRITE \in Int
    /\ Op.I_TRUNCATE \in Int /\ Op.I_CREATE_SEGMENT \in Int
    /\ Op.I_DELETE_SEGMENT \in Int /\ Op.AUX_CREATE_PCB \in Int
    /\ Op.KERNEL_CREAR_ARCHIVO \in Int /\ Op.AUX_OK \in Int
    /\ Op.AUX_ERROR \in Int /\ Op.AUX_SOY_CPU \in Int
    /\ Op.AUX_SOY_KERNEL \in Int /\ Op.AUX_SOY_FILE_SYSTEM \in Int
    /\ Op.OUT_OF_MEMORY \in Int /\ Op.COMPACTACION \in Int
BY DEF Op

\* The three kinds of word.
LEMMA PalabraTipo ==
    ASSUME NEW n \in Int
    PROVE  /\ Dato(n) \in Palabras
           /\ Palabra("op", n) \in Palabras /\ Palabra("tam", n) \in Palabras
BY DEF Palabras, Dato

\* The payloads of the packets are sequences of words.
LEMMA DatosTipos ==
    /\ Entero \in Seq(Palabras) /\ Nombre \in Seq(Palabras)
         /\ Cifras \in Seq(Palabras)
    /\ Pcb \in Seq(Palabras) /\ Tabla \in Seq(Palabras)
         /\ Puntero \in Seq(Palabras)
    /\ <<>> \in Seq(Palabras)
    /\ \A n \in Int : <<Dato(n)>> \in Seq(Palabras)
<1>1. ASSUME NEW n \in Int
      PROVE  <<Dato(n)>> \in Seq(Palabras) /\ 4 * Len(<<Dato(n)>>) \in Int
  BY PalabraTipo
<1>2. Entero \in Seq(Palabras) /\ <<Dato(Texto)>> \in Seq(Palabras)
      /\ 4 * Len(<<Dato(Texto)>>) \in Int
  BY <1>1, TextoAssumption DEF Entero
<1>3. <<Dato(4 * Len(<<Dato(Texto)>>))>> \in Seq(Palabras)
  BY <1>1, <1>2
<1>4. Nombre \in Seq(Palabras) /\ Cifras \in Seq(Palabras)
  BY <1>2, <1>3 DEF Nombre, Cifras, Largo
<1> QED
  BY <1>1, <1>2, <1>4 DEF Pcb, Tabla, Puntero

\* A packet is a sequence of words.
LEMMA PaqueteTipo ==
    ASSUME NEW op \in Int, NEW d \in Seq(Palabras)
    PROVE  Paquete(op, d) \in Seq(Palabras) /\ Resto(d) \in Seq(Palabras)
<1>1. Palabra("op", op) \in Palabras /\ Palabra("tam", 4 * Len(d)) \in Palabras
  BY PalabraTipo
<1> QED
  BY <1>1 DEF Paquete, Resto

\* A packet with words r behind it: its first word is the operation, and then
\* the size, in bytes, and as many words as the size says.
LEMMA PaqueteDe ==
    ASSUME NEW op \in Int, NEW d \in Seq(Palabras), NEW r \in Seq(Palabras)
    PROVE  /\ Paquete(op, d) \in Seq(Palabras) /\ Resto(d) \in Seq(Palabras)
           /\ Paquete(op, d) \o r \in Seq(Palabras)
                /\ Resto(d) \o r \in Seq(Palabras)
           /\ Paquete(op, d) \o r # <<>>
           /\ Head(Paquete(op, d) \o r) = Palabra("op", op)
           /\ Tail(Paquete(op, d) \o r) = Resto(d) \o r
           /\ Resto(d) \o r # <<>>
           /\ Head(Resto(d) \o r) = Palabra("tam", 4 * Len(d))
           /\ Tail(Resto(d) \o r) = d \o r
           /\ Len(Resto(d) \o r) = 1 + Len(d) + Len(r)
           /\ Quedan(Resto(d) \o r, 1 + Len(d)) = r
<1> DEFINE o == Palabra("op", op)
           t == Palabra("tam", 4 * Len(d))
<1>1. o \in Palabras /\ t \in Palabras
  BY PalabraTipo
<1> HIDE DEF o, t
<1>2. <<o, t>> \o d \in Seq(Palabras) /\ <<t>> \o d \in Seq(Palabras)
  BY <1>1
<1>3. <<o, t>> \o d \o r \in Seq(Palabras) /\ <<t>> \o d \o r \in Seq(Palabras)
  BY <1>2
<1>4. /\ <<o, t>> \o d \o r # <<>> /\ <<t>> \o d \o r # <<>>
      /\ Len(<<t>> \o d \o r) = 1 + Len(d) + Len(r)
  BY <1>1
<1>5. Head(<<o, t>> \o d \o r) = o /\ Head(<<t>> \o d \o r) = t
  BY <1>1
<1>6. Tail(<<o, t>> \o d \o r) = <<t>> \o d \o r
  BY <1>1
<1>7. Tail(<<t>> \o d \o r) = d \o r
  BY <1>1
<1>8. Len(<<t>> \o d) = 1 + Len(d)
  BY <1>1
<1>11. 0 \in 0..Len(r)
  OBVIOUS
<1>9. Quedan(<<t>> \o d \o r, Len(<<t>> \o d) + 0) = Quedan(r, 0)
  BY <1>2, QuedaLaSegunda, <1>11
<1>10. Quedan(r, 0) = r /\ Len(<<t>> \o d) + 0 = 1 + Len(d)
  BY <1>8, QuedaTodoONada
<1> QED
  BY <1>2, <1>3, <1>4, <1>5, <1>6, <1>7, <1>8, <1>9, <1>7, <1>9, <1>10
     DEF Paquete, Resto, o, t

\* The same, with nothing behind it.
LEMMA PaqueteSolo ==
    ASSUME NEW op \in Int, NEW d \in Seq(Palabras)
    PROVE  /\ Paquete(op, d) \in Seq(Palabras) /\ Resto(d) \in Seq(Palabras)
           /\ Paquete(op, d) # <<>> /\ Head(Paquete(op, d)) = Palabra("op", op)
           /\ Tail(Paquete(op, d)) = Resto(d)
           /\ Resto(d) # <<>> /\ Head(Resto(d)) = Palabra("tam", 4 * Len(d))
           /\ Tail(Resto(d)) = d
           /\ Len(Resto(d)) = 1 + Len(d)
           /\ Quedan(Resto(d), 1 + Len(d)) = <<>>
<1> SUFFICES ASSUME NEW v \in Seq(Palabras), v = <<>>
             PROVE  /\ Paquete(op, d) \in Seq(Palabras)
                         /\ Resto(d) \in Seq(Palabras)
                    /\ Paquete(op, d) # <<>>
                         /\ Head(Paquete(op, d)) = Palabra("op", op)
                    /\ Tail(Paquete(op, d)) = Resto(d)
                    /\ Resto(d) # <<>>
                         /\ Head(Resto(d)) = Palabra("tam", 4 * Len(d))
                    /\ Tail(Resto(d)) = d
                    /\ Len(Resto(d)) = 1 + Len(d)
                    /\ Quedan(Resto(d), 1 + Len(d)) = v
  BY EmptySeq
<1>1. Len(v) = 0
  OBVIOUS
<1>2. \A s \in Seq(Palabras) : s \o v = s
  BY ConcatEmptySeq
<1>3. Paquete(op, d) \in Seq(Palabras) /\ Resto(d) \in Seq(Palabras)
  BY PaqueteTipo
<1>10. /\ Paquete(op, d) \o v # <<>>
      /\ Head(Paquete(op, d) \o v) = Palabra("op", op)
  BY PaqueteDe
<1>11. Tail(Paquete(op, d) \o v) = Resto(d) \o v
  BY PaqueteDe, ZenonT(40)
<1>12. Resto(d) \o v # <<>>
  BY PaqueteDe
<1>9. Head(Resto(d) \o v) = Palabra("tam", 4 * Len(d))
  BY PaqueteDe
<1>7. Tail(Resto(d) \o v) = d \o v
  BY PaqueteDe
<1>8. Len(Resto(d) \o v) = 1 + Len(d) + Len(v)
  BY PaqueteDe
<1>6. Quedan(Resto(d) \o v, 1 + Len(d)) = v
  BY PaqueteDe
<1>4. Paquete(op, d) \o v = Paquete(op, d) /\ Resto(d) \o v = Resto(d)
        /\ d \o v = d
  BY <1>2, <1>3
<1>5. Len(d) \in Nat /\ 1 + Len(d) + Len(v) = 1 + Len(d)
  BY <1>1
<1> QED
  BY <1>3, <1>4, <1>5, <1>6, <1>7, <1>8, <1>9, <1>10, <1>11, <1>12

\* A packet whose operation is read, with words r behind it.
LEMMA RestoDe ==
    ASSUME NEW d \in Seq(Palabras), NEW r \in Seq(Palabras)
    PROVE  /\ Resto(d) \o r \in Seq(Palabras) /\ Resto(d) \o r # <<>>
           /\ Head(Resto(d) \o r) = Palabra("tam", 4 * Len(d))
           /\ Tail(Resto(d) \o r) = d \o r
           /\ Quedan(Resto(d) \o r, 1 + Len(d)) = r
<1>1. ASSUME NEW op \in Int
      PROVE  /\ Resto(d) \o r \in Seq(Palabras) /\ Resto(d) \o r # <<>>
             /\ Head(Resto(d) \o r) = Palabra("tam", 4 * Len(d))
             /\ Tail(Resto(d) \o r) = d \o r
             /\ Quedan(Resto(d) \o r, 1 + Len(d)) = r
  BY PaqueteDe
<1> QED
  BY <1>1, Codigos

\* The same, with nothing behind it.
LEMMA RestoSolo ==
    ASSUME NEW d \in Seq(Palabras)
    PROVE  /\ Resto(d) \in Seq(Palabras) /\ Resto(d) # <<>>
           /\ Head(Resto(d)) = Palabra("tam", 4 * Len(d)) /\ Tail(Resto(d)) = d
<1>1. ASSUME NEW op \in Int
      PROVE  /\ Resto(d) \in Seq(Palabras) /\ Resto(d) # <<>>
             /\ Head(Resto(d)) = Palabra("tam", 4 * Len(d))
                  /\ Tail(Resto(d)) = d
  BY PaqueteSolo
<1> QED
  BY <1>1, Codigos
-----------------------------------------------------------------------------
(* The calls *)

\* The calls on a connection are calls.
LEMMA LlamadaTipos ==
    ASSUME NEW de \in Modulos, NEW a \in Modulos
    PROVE  /\ \A op \in Int, d \in Seq(Palabras) :
                envia(de, a, op, d) \in Llamadas
           /\ recibe(de, a) \in Llamadas /\ recibeBuffer(de, a) \in Llamadas
           /\ conecta(de, a) \in Llamadas /\ responde(de, a) \in Llamadas
           /\ \A como \in Miradas : mira(de, a, como) \in Llamadas
BY DEF Llamadas

\* ... and so are the others.
LEMMA SueltaTipos ==
    /\ \A que \in Elecciones : elige(que) \in Llamadas
    /\ \A paso \in Sueltas : solo(paso) \in Llamadas
    /\ \A hilos \in SUBSET Hilos : lanza(hilos) \in Llamadas
BY DEF Llamadas

\* A sequence with a length has something in it.
LEMMA NoVacia ==
    \A s \in Seq(Llamadas) : Len(s) # 0 => s # <<>>
OBVIOUS
-----------------------------------------------------------------------------
(* The calls of each handler *)

\* One lemma per handler: s is its sequence of calls, spelt out.

\* The payloads made of several.
LEMMA TresMas ==
    /\ Nombre \o Cifras \in Seq(Palabras) /\ Entero \o Entero \in Seq(Palabras)
    /\ Entero \o Entero \o Entero \in Seq(Palabras)
    /\ Entero \o Entero \o Entero \o Nombre \in Seq(Palabras)
    /\ \A r : DatosDe(r) \in Seq(Palabras)
BY DatosTipos DEF DatosDe

\* The nine threads.
LEMMA HilosSon ==
    Hilos = {"kernel", "ready", "desalojo", "cpu", "fs", "memoria",
      "pedidos_fs",
             "pedidos_cpu", "pedidos_kernel"}
BY DEF Hilos, Bucle

LEMMA ReadyLlama ==
    LET s == enviar_proceso_a_ready IN
    /\ s \in Seq(Llamadas) /\ Len(s) = 6
    /\ s[1] = solo("sem_wait") /\ s[2] = solo("lock")
    /\ s[3] = envia("kernel", "memoria", Op.AUX_CREATE_PCB, Entero)
    /\ s[4] = recibe("memoria", "kernel")
    /\ s[5] = recibeBuffer("memoria", "kernel") /\ s[6] = solo("unlock")
<1> DEFINE c1 == solo("sem_wait")
           c2 == solo("lock")
           c3 == envia("kernel", "memoria", Op.AUX_CREATE_PCB, Entero)
           c4 == recibe("memoria", "kernel")
           c5 == recibeBuffer("memoria", "kernel")
           c6 == solo("unlock")
<1>1. c1 \in Llamadas /\ c2 \in Llamadas /\ c3 \in Llamadas /\ c4 \in Llamadas
        /\ c5 \in Llamadas /\ c6 \in Llamadas
  BY LlamadaTipos, SueltaTipos, DatosTipos, Codigos
     DEF Modulos, Sueltas, Miradas, Elecciones
<1>2. enviar_proceso_a_ready = <<c1>> \o <<c2>> \o <<c3>> \o <<c4>> \o <<c5>>
        \o <<c6>>
  BY DEF enviar_proceso_a_ready, EsperarConsola, EnviarPaquete, Recibir,
         RecibirBuffer, Segun, Elegir, Tomar, Soltar, envia, recibe,
         recibeBuffer, mira, elige, solo
<1> HIDE DEF c1, c2, c3, c4, c5, c6
<1>3. LET s == <<c1>> \o <<c2>> \o <<c3>> \o <<c4>> \o <<c5>> \o <<c6>> IN
      /\ s \in Seq(Llamadas) /\ Len(s) = 6
      /\ s[1] = c1 /\ s[2] = c2 /\ s[3] = c3 /\ s[4] = c4 /\ s[5] = c5
           /\ s[6] = c6
  BY <1>1
<1> QED
  BY <1>2, <1>3 DEF c1, c2, c3, c4, c5, c6

LEMMA DesalojoLlama ==
    LET s == manejo_desalojo_pcb IN
    /\ s \in Seq(Llamadas) /\ Len(s) = 2
    /\ s[1] = envia("kernel", "cpu", Op.OP_EXECUTE_PCB, Pcb)
    /\ s[2] = mira("cpu", "kernel", "manejo_instrucciones")
<1> DEFINE c1 == envia("kernel", "cpu", Op.OP_EXECUTE_PCB, Pcb)
           c2 == mira("cpu", "kernel", "manejo_instrucciones")
<1>1. c1 \in Llamadas /\ c2 \in Llamadas
  BY LlamadaTipos, SueltaTipos, DatosTipos, Codigos
     DEF Modulos, Sueltas, Miradas, Elecciones
<1>2. manejo_desalojo_pcb = <<c1>> \o <<c2>>
  BY DEF manejo_desalojo_pcb, EnviarPaquete, Recibir, RecibirBuffer, Segun,
         Elegir, Tomar, Soltar, envia, recibe, recibeBuffer, mira, elige, solo
<1> HIDE DEF c1, c2
<1>3. LET s == <<c1>> \o <<c2>> IN
      /\ s \in Seq(Llamadas) /\ Len(s) = 2
      /\ s[1] = c1 /\ s[2] = c2
  BY <1>1
<1> QED
  BY <1>2, <1>3 DEF c1, c2

LEMMA AtenderKernelLlama ==
    LET s == atender_kernel IN
    /\ s \in Seq(Llamadas) /\ Len(s) = 3
    /\ s[1] = recibe("kernel", "cpu") /\ s[2] = recibeBuffer("kernel", "cpu")
    /\ s[3] = elige("instruccion")
<1> DEFINE c1 == recibe("kernel", "cpu")
           c2 == recibeBuffer("kernel", "cpu")
           c3 == elige("instruccion")
<1>1. c1 \in Llamadas /\ c2 \in Llamadas /\ c3 \in Llamadas
  BY LlamadaTipos, SueltaTipos, DatosTipos, Codigos
     DEF Modulos, Sueltas, Miradas, Elecciones
<1>2. atender_kernel = <<c1>> \o <<c2>> \o <<c3>>
  BY DEF atender_kernel, EnviarPaquete, Recibir, RecibirBuffer, Segun, Elegir,
         Tomar, Soltar, envia, recibe, recibeBuffer, mira, elige, solo
<1> HIDE DEF c1, c2, c3
<1>3. LET s == <<c1>> \o <<c2>> \o <<c3>> IN
      /\ s \in Seq(Llamadas) /\ Len(s) = 3
      /\ s[1] = c1 /\ s[2] = c2 /\ s[3] = c3
  BY <1>1
<1> QED
  BY <1>2, <1>3 DEF c1, c2, c3

LEMMA FsLlama ==
    LET s == Bucle.fs IN
    /\ s \in Seq(Llamadas) /\ Len(s) = 1
    /\ s[1] = mira("kernel", "fs", "fs")
<1> DEFINE c1 == mira("kernel", "fs", "fs")
<1>1. c1 \in Llamadas
  BY LlamadaTipos, SueltaTipos, DatosTipos, Codigos
     DEF Modulos, Sueltas, Miradas, Elecciones
<1>2. Bucle.fs = <<c1>>
  BY DEF Bucle, EnviarPaquete, Recibir, RecibirBuffer, Segun, Elegir, Tomar,
         Soltar, envia, recibe, recibeBuffer, mira, elige, solo
<1> HIDE DEF c1
<1>3. LET s == <<c1>> IN
      /\ s \in Seq(Llamadas) /\ Len(s) = 1
      /\ s[1] = c1
  BY <1>1
<1> QED
  BY <1>2, <1>3 DEF c1

LEMMA PedidosFsLlama ==
    LET s == Bucle.pedidos_fs IN
    /\ s \in Seq(Llamadas) /\ Len(s) = 2
    /\ s[1] = recibe("fs", "memoria")
    /\ s[2] = mira("fs", "memoria", "pedidos_fs")
<1> DEFINE c1 == recibe("fs", "memoria")
           c2 == mira("fs", "memoria", "pedidos_fs")
<1>1. c1 \in Llamadas /\ c2 \in Llamadas
  BY LlamadaTipos, SueltaTipos, DatosTipos, Codigos
     DEF Modulos, Sueltas, Miradas, Elecciones
<1>2. Bucle.pedidos_fs = <<c1>> \o <<c2>>
  BY DEF Bucle, EnviarPaquete, Recibir, RecibirBuffer, Segun, Elegir, Tomar,
         Soltar, envia, recibe, recibeBuffer, mira, elige, solo
<1> HIDE DEF c1, c2
<1>3. LET s == <<c1>> \o <<c2>> IN
      /\ s \in Seq(Llamadas) /\ Len(s) = 2
      /\ s[1] = c1 /\ s[2] = c2
  BY <1>1
<1> QED
  BY <1>2, <1>3 DEF c1, c2

LEMMA PedidosCpuLlama ==
    LET s == Bucle.pedidos_cpu IN
    /\ s \in Seq(Llamadas) /\ Len(s) = 1
    /\ s[1] = mira("cpu", "memoria", "pedidos_cpu")
<1> DEFINE c1 == mira("cpu", "memoria", "pedidos_cpu")
<1>1. c1 \in Llamadas
  BY LlamadaTipos, SueltaTipos, DatosTipos, Codigos
     DEF Modulos, Sueltas, Miradas, Elecciones
<1>2. Bucle.pedidos_cpu = <<c1>>
  BY DEF Bucle, EnviarPaquete, Recibir, RecibirBuffer, Segun, Elegir, Tomar,
         Soltar, envia, recibe, recibeBuffer, mira, elige, solo
<1> HIDE DEF c1
<1>3. LET s == <<c1>> IN
      /\ s \in Seq(Llamadas) /\ Len(s) = 1
      /\ s[1] = c1
  BY <1>1
<1> QED
  BY <1>2, <1>3 DEF c1

LEMMA PedidosKernelLlama ==
    LET s == Bucle.pedidos_kernel IN
    /\ s \in Seq(Llamadas) /\ Len(s) = 1
    /\ s[1] = mira("kernel", "memoria", "pedidos_kernel")
<1> DEFINE c1 == mira("kernel", "memoria", "pedidos_kernel")
<1>1. c1 \in Llamadas
  BY LlamadaTipos, SueltaTipos, DatosTipos, Codigos
     DEF Modulos, Sueltas, Miradas, Elecciones
<1>2. Bucle.pedidos_kernel = <<c1>>
  BY DEF Bucle, EnviarPaquete, Recibir, RecibirBuffer, Segun, Elegir, Tomar,
         Soltar, envia, recibe, recibeBuffer, mira, elige, solo
<1> HIDE DEF c1
<1>3. LET s == <<c1>> IN
      /\ s \in Seq(Llamadas) /\ Len(s) = 1
      /\ s[1] = c1
  BY <1>1
<1> QED
  BY <1>2, <1>3 DEF c1

LEMMA FinLlama ==
    LET s == Fin IN
    /\ s \in Seq(Llamadas) /\ Len(s) = 1
    /\ s[1] = solo("fin")
<1> DEFINE c1 == solo("fin")
<1>1. c1 \in Llamadas
  BY LlamadaTipos, SueltaTipos, DatosTipos, Codigos
     DEF Modulos, Sueltas, Miradas, Elecciones
<1>2. Fin = <<c1>>
  BY DEF Fin, solo
<1> HIDE DEF c1
<1>3. LET s == <<c1>> IN
      /\ s \in Seq(Llamadas) /\ Len(s) = 1
      /\ s[1] = c1
  BY <1>1
<1> QED
  BY <1>2, <1>3 DEF c1

LEMMA AbrirLlama ==
    LET s == Abrir IN
    /\ s \in Seq(Llamadas) /\ Len(s) = 3
    /\ s[1] = recibeBuffer("cpu", "kernel")
    /\ s[2] = envia("kernel", "fs", Op.I_F_OPEN, Nombre)
    /\ s[3] = mira("fs", "kernel", "f_open")
<1> DEFINE c1 == recibeBuffer("cpu", "kernel")
           c2 == envia("kernel", "fs", Op.I_F_OPEN, Nombre)
           c3 == mira("fs", "kernel", "f_open")
<1>1. c1 \in Llamadas /\ c2 \in Llamadas /\ c3 \in Llamadas
  BY LlamadaTipos, SueltaTipos, DatosTipos, Codigos
     DEF Modulos, Sueltas, Miradas, Elecciones
<1>2. Abrir = <<c1>> \o (<<c2>> \o <<c3>>)
  BY DEF Abrir, manejo_instrucciones, AbrirArchivo, Op, EnviarPaquete, Recibir,
         RecibirBuffer, Segun, Elegir, Tomar, Soltar, envia, recibe,
         recibeBuffer, mira, elige, solo
<1> HIDE DEF c1, c2, c3
<1>3. LET s == <<c1>> \o (<<c2>> \o <<c3>>) IN
      /\ s \in Seq(Llamadas) /\ Len(s) = 3
      /\ s[1] = c1 /\ s[2] = c2 /\ s[3] = c3
  BY <1>1
<1> QED
  BY <1>2, <1>3 DEF c1, c2, c3

LEMMA TruncarLlama ==
    LET s == Truncar IN
    /\ s \in Seq(Llamadas) /\ Len(s) = 4
    /\ s[1] = recibeBuffer("cpu", "kernel")
    /\ s[2] = envia("kernel", "fs", Op.I_TRUNCATE, Nombre \o Cifras)
    /\ s[3] = recibe("fs", "kernel") /\ s[4] = recibe("fs", "kernel")
<1> DEFINE c1 == recibeBuffer("cpu", "kernel")
           c2 == envia("kernel", "fs", Op.I_TRUNCATE, Nombre \o Cifras)
           c3 == recibe("fs", "kernel")
<1>1. c1 \in Llamadas /\ c2 \in Llamadas /\ c3 \in Llamadas
  BY LlamadaTipos, SueltaTipos, DatosTipos, Codigos, TresMas
     DEF Modulos, Sueltas, Miradas, Elecciones
<1>2. Truncar = <<c1>> \o (<<c2>> \o <<c3>> \o <<c3>>)
  BY DEF Truncar, manejo_instrucciones, TruncarArchivo, Op, EnviarPaquete,
         Recibir, RecibirBuffer, Segun, Elegir, Tomar, Soltar, envia, recibe,
         recibeBuffer, mira, elige, solo
<1> HIDE DEF c1, c2, c3
<1>3. LET s == <<c1>> \o (<<c2>> \o <<c3>> \o <<c3>>) IN
      /\ s \in Seq(Llamadas) /\ Len(s) = 4
      /\ s[1] = c1 /\ s[2] = c2 /\ s[3] = c3 /\ s[4] = c3
  BY <1>1
<1> QED
  BY <1>2, <1>3 DEF c1, c2, c3

LEMMA CrearLlama ==
    LET s == Crear IN
    /\ s \in Seq(Llamadas) /\ Len(s) = 5
    /\ s[1] = recibeBuffer("cpu", "kernel") /\ s[2] = solo("lock")
    /\ s[3] = envia("kernel", "memoria", Op.I_CREATE_SEGMENT, Pcb)
    /\ s[4] = envia("kernel", "memoria", Op.I_CREATE_SEGMENT, Entero \o Entero)
    /\ s[5] = mira("memoria", "kernel", "crear")
<1> DEFINE c1 == recibeBuffer("cpu", "kernel")
           c2 == solo("lock")
           c3 == envia("kernel", "memoria", Op.I_CREATE_SEGMENT, Pcb)
           c4 == envia("kernel", "memoria", Op.I_CREATE_SEGMENT,
             Entero \o Entero)
           c5 == mira("memoria", "kernel", "crear")
<1>1. c1 \in Llamadas /\ c2 \in Llamadas /\ c3 \in Llamadas /\ c4 \in Llamadas
        /\ c5 \in Llamadas
  BY LlamadaTipos, SueltaTipos, DatosTipos, Codigos, TresMas
     DEF Modulos, Sueltas, Miradas, Elecciones
<1>2. Crear = <<c1>> \o (<<c2>> \o <<c3>> \o <<c4>> \o <<c5>>)
  BY DEF Crear, manejo_instrucciones, PedirSegmento, Op, EnviarPaquete, Recibir,
         RecibirBuffer, Segun, Elegir, Tomar, Soltar, envia, recibe,
         recibeBuffer, mira, elige, solo
<1> HIDE DEF c1, c2, c3, c4, c5
<1>3. LET s == <<c1>> \o (<<c2>> \o <<c3>> \o <<c4>> \o <<c5>>) IN
      /\ s \in Seq(Llamadas) /\ Len(s) = 5
      /\ s[1] = c1 /\ s[2] = c2 /\ s[3] = c3 /\ s[4] = c4 /\ s[5] = c5
  BY <1>1
<1> QED
  BY <1>2, <1>3 DEF c1, c2, c3, c4, c5

LEMMA BorrarLlama ==
    LET s == Borrar IN
    /\ s \in Seq(Llamadas) /\ Len(s) = 5
    /\ s[1] = recibeBuffer("cpu", "kernel") /\ s[2] = solo("lock")
    /\ s[3] = envia("kernel", "memoria", Op.I_DELETE_SEGMENT, Pcb)
    /\ s[4] = envia("kernel", "memoria", Op.I_DELETE_SEGMENT, Entero)
    /\ s[5] = mira("memoria", "kernel", "borrar")
<1> DEFINE c1 == recibeBuffer("cpu", "kernel")
           c2 == solo("lock")
           c3 == envia("kernel", "memoria", Op.I_DELETE_SEGMENT, Pcb)
           c4 == envia("kernel", "memoria", Op.I_DELETE_SEGMENT, Entero)
           c5 == mira("memoria", "kernel", "borrar")
<1>1. c1 \in Llamadas /\ c2 \in Llamadas /\ c3 \in Llamadas /\ c4 \in Llamadas
        /\ c5 \in Llamadas
  BY LlamadaTipos, SueltaTipos, DatosTipos, Codigos
     DEF Modulos, Sueltas, Miradas, Elecciones
<1>2. Borrar = <<c1>> \o (<<c2>> \o <<c3>> \o <<c4>> \o <<c5>>)
  BY DEF Borrar, manejo_instrucciones, BorrarSegmento, Op, EnviarPaquete,
         Recibir, RecibirBuffer, Segun, Elegir, Tomar, Soltar, envia, recibe,
         recibeBuffer, mira, elige, solo
<1> HIDE DEF c1, c2, c3, c4, c5
<1>3. LET s == <<c1>> \o (<<c2>> \o <<c3>> \o <<c4>> \o <<c5>>) IN
      /\ s \in Seq(Llamadas) /\ Len(s) = 5
      /\ s[1] = c1 /\ s[2] = c2 /\ s[3] = c3 /\ s[4] = c4 /\ s[5] = c5
  BY <1>1
<1> QED
  BY <1>2, <1>3 DEF c1, c2, c3, c4, c5

LEMMA OtraLlama ==
    LET s == Otra IN
    /\ s \in Seq(Llamadas) /\ Len(s) = 1
    /\ s[1] = recibeBuffer("cpu", "kernel")
<1> DEFINE c1 == recibeBuffer("cpu", "kernel")
<1>1. c1 \in Llamadas
  BY LlamadaTipos, SueltaTipos, DatosTipos, Codigos
     DEF Modulos, Sueltas, Miradas, Elecciones
<1>2. Otra = <<c1>>
  BY DEF Otra, EnviarPaquete, Recibir, RecibirBuffer, Segun, Elegir, Tomar,
         Soltar, envia, recibe, recibeBuffer, mira, elige, solo
<1> HIDE DEF c1
<1>3. LET s == <<c1>> IN
      /\ s \in Seq(Llamadas) /\ Len(s) = 1
      /\ s[1] = c1
  BY <1>1
<1> QED
  BY <1>2, <1>3 DEF c1

LEMMA AbiertoLlama ==
    LET s == TrasAbrir(Op.AUX_OK) IN
    /\ s \in Seq(Llamadas) /\ Len(s) = 1
    /\ s[1] = recibe("fs", "kernel")
<1> DEFINE c1 == recibe("fs", "kernel")
<1>1. c1 \in Llamadas
  BY LlamadaTipos, SueltaTipos, DatosTipos, Codigos
     DEF Modulos, Sueltas, Miradas, Elecciones
<1>2. TrasAbrir(Op.AUX_OK) = <<c1>> \o <<>>
  BY DEF TrasAbrir, Op, EnviarPaquete, Recibir, RecibirBuffer, Segun, Elegir,
         Tomar, Soltar, envia, recibe, recibeBuffer, mira, elige, solo
<1> HIDE DEF c1
<1>3. LET s == <<c1>> \o <<>> IN
      /\ s \in Seq(Llamadas) /\ Len(s) = 1
      /\ s[1] = c1
  BY <1>1
<1> QED
  BY <1>2, <1>3 DEF c1

LEMMA NoAbiertoLlama ==
    LET s == NoAbierto IN
    /\ s \in Seq(Llamadas) /\ Len(s) = 4
    /\ s[1] = recibe("fs", "kernel")
    /\ s[2] = envia("kernel", "fs", Op.KERNEL_CREAR_ARCHIVO, Nombre)
    /\ s[3] = recibe("fs", "kernel") /\ s[4] = recibe("fs", "kernel")
<1> DEFINE c1 == recibe("fs", "kernel")
           c2 == envia("kernel", "fs", Op.KERNEL_CREAR_ARCHIVO, Nombre)
<1>1. c1 \in Llamadas /\ c2 \in Llamadas
  BY LlamadaTipos, SueltaTipos, DatosTipos, Codigos
     DEF Modulos, Sueltas, Miradas, Elecciones
<1>2. NoAbierto = <<c1>> \o (<<c2>> \o <<c1>> \o <<c1>>)
  BY DEF NoAbierto, TrasAbrir, CrearArchivo, Op, EnviarPaquete, Recibir,
         RecibirBuffer, Segun, Elegir, Tomar, Soltar, envia, recibe,
         recibeBuffer, mira, elige, solo
<1> HIDE DEF c1, c2
<1>3. LET s == <<c1>> \o (<<c2>> \o <<c1>> \o <<c1>>) IN
      /\ s \in Seq(Llamadas) /\ Len(s) = 4
      /\ s[1] = c1 /\ s[2] = c2 /\ s[3] = c1 /\ s[4] = c1
  BY <1>1
<1> QED
  BY <1>2, <1>3 DEF c1, c2

LEMMA CreadoLlama ==
    LET s == Creado IN
    /\ s \in Seq(Llamadas) /\ Len(s) = 2
    /\ s[1] = recibeBuffer("memoria", "kernel") /\ s[2] = solo("unlock")
<1> DEFINE c1 == recibeBuffer("memoria", "kernel")
           c2 == solo("unlock")
<1>1. c1 \in Llamadas /\ c2 \in Llamadas
  BY LlamadaTipos, SueltaTipos, DatosTipos, Codigos
     DEF Modulos, Sueltas, Miradas, Elecciones
<1>2. Creado = <<c1>> \o <<c2>>
  BY DEF Creado, TrasCrear, Op, EnviarPaquete, Recibir, RecibirBuffer, Segun,
         Elegir, Tomar, Soltar, envia, recibe, recibeBuffer, mira, elige, solo
<1> HIDE DEF c1, c2
<1>3. LET s == <<c1>> \o <<c2>> IN
      /\ s \in Seq(Llamadas) /\ Len(s) = 2
      /\ s[1] = c1 /\ s[2] = c2
  BY <1>1
<1> QED
  BY <1>2, <1>3 DEF c1, c2

LEMMA CompactaLlama ==
    LET s == Compacta IN
    /\ s \in Seq(Llamadas) /\ Len(s) = 9
    /\ s[1] = envia("kernel", "memoria", Op.COMPACTACION, <<>>)
    /\ s[2] = recibe("memoria", "kernel") /\ s[3] = recibe("memoria", "kernel")
    /\ s[4] = recibeBuffer("memoria", "kernel") /\ s[5] = solo("unlock")
    /\ s[6] = solo("lock")
    /\ s[7] = envia("kernel", "memoria", Op.I_CREATE_SEGMENT, Pcb)
    /\ s[8] = envia("kernel", "memoria", Op.I_CREATE_SEGMENT, Entero \o Entero)
    /\ s[9] = mira("memoria", "kernel", "crear_de_nuevo")
<1> DEFINE c1 == envia("kernel", "memoria", Op.COMPACTACION, <<>>)
           c2 == recibe("memoria", "kernel")
           c3 == recibeBuffer("memoria", "kernel")
           c4 == solo("unlock")
           c5 == solo("lock")
           c6 == envia("kernel", "memoria", Op.I_CREATE_SEGMENT, Pcb)
           c7 == envia("kernel", "memoria", Op.I_CREATE_SEGMENT,
             Entero \o Entero)
           c8 == mira("memoria", "kernel", "crear_de_nuevo")
<1>1. c1 \in Llamadas /\ c2 \in Llamadas /\ c3 \in Llamadas /\ c4 \in Llamadas
        /\ c5 \in Llamadas /\ c6 \in Llamadas /\ c7 \in Llamadas
             /\ c8 \in Llamadas
  BY LlamadaTipos, SueltaTipos, DatosTipos, Codigos, TresMas
     DEF Modulos, Sueltas, Miradas, Elecciones
<1>4. PedirSegmento("crear_de_nuevo") = <<c5>> \o <<c6>> \o <<c7>> \o <<c8>>
  BY DEF PedirSegmento, EnviarPaquete, Segun, Tomar, envia, mira, solo
<1>5. Compacta = EnviarOperacion("kernel", "memoria", Op.COMPACTACION)
         \o Recibir("memoria", "kernel") \o Recibir("memoria", "kernel")
         \o RecibirBuffer("memoria", "kernel") \o Soltar \o Reintento("crear")
  BY DEF Compacta, CompactaOtraVez, TrasCrear, Op
<1>6. Reintento("crear") = PedirSegmento("crear_de_nuevo")
  BY DEF Reintento
<1>7. Compacta = <<c1>> \o <<c2>> \o <<c2>> \o <<c3>> \o <<c4>>
                          \o PedirSegmento("crear_de_nuevo")
  BY <1>5, <1>6
     DEF EnviarOperacion, EnviarPaquete, Recibir, RecibirBuffer, Soltar, envia,
         recibe, recibeBuffer, solo
<1>2. Compacta = <<c1>> \o <<c2>> \o <<c2>> \o <<c3>> \o <<c4>>
         \o (<<c5>> \o <<c6>> \o <<c7>> \o <<c8>>)
  BY <1>4, <1>7
<1> HIDE DEF c1, c2, c3, c4, c5, c6, c7, c8
<1>3. LET s == <<c1>> \o <<c2>> \o <<c2>> \o <<c3>> \o <<c4>>
         \o (<<c5>> \o <<c6>> \o <<c7>> \o <<c8>>) IN
      /\ s \in Seq(Llamadas) /\ Len(s) = 9
      /\ s[1] = c1 /\ s[2] = c2 /\ s[3] = c2 /\ s[4] = c3 /\ s[5] = c4
           /\ s[6] = c5 /\ s[7] = c6 /\ s[8] = c7 /\ s[9] = c8
  BY <1>1
<1> QED
  BY <1>2, <1>3 DEF c1, c2, c3, c4, c5, c6, c7, c8

LEMMA CompactaOtraVezLlama ==
    LET s == CompactaOtraVez IN
    /\ s \in Seq(Llamadas) /\ Len(s) = 5
    /\ s[1] = envia("kernel", "memoria", Op.COMPACTACION, <<>>)
    /\ s[2] = recibe("memoria", "kernel") /\ s[3] = recibe("memoria", "kernel")
    /\ s[4] = recibeBuffer("memoria", "kernel") /\ s[5] = solo("unlock")
<1> DEFINE c1 == envia("kernel", "memoria", Op.COMPACTACION, <<>>)
           c2 == recibe("memoria", "kernel")
           c3 == recibeBuffer("memoria", "kernel")
           c4 == solo("unlock")
<1>1. c1 \in Llamadas /\ c2 \in Llamadas /\ c3 \in Llamadas /\ c4 \in Llamadas
  BY LlamadaTipos, SueltaTipos, DatosTipos, Codigos
     DEF Modulos, Sueltas, Miradas, Elecciones
<1>2. CompactaOtraVez = <<c1>> \o <<c2>> \o <<c2>> \o <<c3>> \o <<c4>> \o <<>>
  BY DEF Compacta, CompactaOtraVez, TrasCrear, Reintento, EnviarOperacion, Op,
         EnviarPaquete, Recibir, RecibirBuffer, Segun, Elegir, Tomar, Soltar,
         envia, recibe, recibeBuffer, mira, elige, solo
<1> HIDE DEF c1, c2, c3, c4
<1>3. LET s == <<c1>> \o <<c2>> \o <<c2>> \o <<c3>> \o <<c4>> \o <<>> IN
      /\ s \in Seq(Llamadas) /\ Len(s) = 5
      /\ s[1] = c1 /\ s[2] = c2 /\ s[3] = c2 /\ s[4] = c3 /\ s[5] = c4
  BY <1>1
<1> QED
  BY <1>2, <1>3 DEF c1, c2, c3, c4

LEMMA BorradoLlama ==
    LET s == Borrado IN
    /\ s \in Seq(Llamadas) /\ Len(s) = 2
    /\ s[1] = recibeBuffer("memoria", "kernel") /\ s[2] = solo("unlock")
<1> DEFINE c1 == recibeBuffer("memoria", "kernel")
           c2 == solo("unlock")
<1>1. c1 \in Llamadas /\ c2 \in Llamadas
  BY LlamadaTipos, SueltaTipos, DatosTipos, Codigos
     DEF Modulos, Sueltas, Miradas, Elecciones
<1>2. Borrado = <<c1>> \o <<c2>>
  BY DEF Borrado, TrasBorrar, EnviarPaquete, Recibir, RecibirBuffer, Segun,
         Elegir, Tomar, Soltar, envia, recibe, recibeBuffer, mira, elige, solo
<1> HIDE DEF c1, c2
<1>3. LET s == <<c1>> \o <<c2>> IN
      /\ s \in Seq(Llamadas) /\ Len(s) = 2
      /\ s[1] = c1 /\ s[2] = c2
  BY <1>1
<1> QED
  BY <1>2, <1>3 DEF c1, c2

LEMMA MovInLlama ==
    LET s == MovIn IN
    /\ s \in Seq(Llamadas) /\ Len(s) = 4
    /\ s[1] = envia("cpu", "memoria", Op.I_MOV_IN, Entero \o Entero \o Entero)
    /\ s[2] = recibe("memoria", "cpu") /\ s[3] = recibeBuffer("memoria", "cpu")
    /\ s[4] = elige("instruccion")
<1> DEFINE c1 == envia("cpu", "memoria", Op.I_MOV_IN,
      Entero \o Entero \o Entero)
           c2 == recibe("memoria", "cpu")
           c3 == recibeBuffer("memoria", "cpu")
           c4 == elige("instruccion")
<1>1. c1 \in Llamadas /\ c2 \in Llamadas /\ c3 \in Llamadas /\ c4 \in Llamadas
  BY LlamadaTipos, SueltaTipos, DatosTipos, Codigos, TresMas
     DEF Modulos, Sueltas, Miradas, Elecciones
<1>2. MovIn = <<c1>> \o <<c2>> \o <<c3>> \o <<c4>>
  BY DEF MovIn, EnviarPaquete, Recibir, RecibirBuffer, Segun, Elegir, Tomar,
         Soltar, envia, recibe, recibeBuffer, mira, elige, solo
<1> HIDE DEF c1, c2, c3, c4
<1>3. LET s == <<c1>> \o <<c2>> \o <<c3>> \o <<c4>> IN
      /\ s \in Seq(Llamadas) /\ Len(s) = 4
      /\ s[1] = c1 /\ s[2] = c2 /\ s[3] = c3 /\ s[4] = c4
  BY <1>1
<1> QED
  BY <1>2, <1>3 DEF c1, c2, c3, c4

LEMMA MovOutLlama ==
    LET s == MovOut IN
    /\ s \in Seq(Llamadas) /\ Len(s) = 4
    /\ s[1] = envia("cpu", "memoria", Op.I_MOV_OUT,
         Entero \o Entero \o Entero \o Nombre)
    /\ s[2] = recibe("memoria", "cpu") /\ s[3] = recibe("memoria", "cpu")
    /\ s[4] = elige("instruccion")
<1> DEFINE c1 == envia("cpu", "memoria", Op.I_MOV_OUT,
      Entero \o Entero \o Entero \o Nombre)
           c2 == recibe("memoria", "cpu")
           c3 == elige("instruccion")
<1>1. c1 \in Llamadas /\ c2 \in Llamadas /\ c3 \in Llamadas
  BY LlamadaTipos, SueltaTipos, DatosTipos, Codigos, TresMas
     DEF Modulos, Sueltas, Miradas, Elecciones
<1>2. MovOut = <<c1>> \o <<c2>> \o <<c2>> \o <<c3>>
  BY DEF MovOut, EnviarPaquete, Recibir, RecibirBuffer, Segun, Elegir, Tomar,
         Soltar, envia, recibe, recibeBuffer, mira, elige, solo
<1> HIDE DEF c1, c2, c3
<1>3. LET s == <<c1>> \o <<c2>> \o <<c2>> \o <<c3>> IN
      /\ s \in Seq(Llamadas) /\ Len(s) = 4
      /\ s[1] = c1 /\ s[2] = c2 /\ s[3] = c2 /\ s[4] = c3
  BY <1>1
<1> QED
  BY <1>2, <1>3 DEF c1, c2, c3

LEMMA DevolverLlama ==
    ASSUME NEW op \in Int, op \notin {Op.I_F_READ, Op.I_F_WRITE}
    PROVE  LET s == Devolver(op) IN
           /\ s \in Seq(Llamadas) /\ Len(s) = 1
           /\ s[1] = envia("cpu", "kernel", op, Pcb)
<1> DEFINE c1 == envia("cpu", "kernel", op, Pcb)
<1>1. c1 \in Llamadas
  BY LlamadaTipos, SueltaTipos, DatosTipos, Codigos
     DEF Modulos, Sueltas, Miradas, Elecciones
<1>2. Devolver(op) = <<c1>> \o <<>>
  BY DEF Devolver, EnviarPaquete, Recibir, RecibirBuffer, Segun, Elegir, Tomar,
         Soltar, envia, recibe, recibeBuffer, mira, elige, solo
<1> HIDE DEF c1
<1>3. LET s == <<c1>> \o <<>> IN
      /\ s \in Seq(Llamadas) /\ Len(s) = 1
      /\ s[1] = c1
  BY <1>1
<1> QED
  BY <1>2, <1>3 DEF c1

LEMMA FsPedidoLlama ==
    ASSUME NEW op \in {Op.KERNEL_CREAR_ARCHIVO, Op.I_F_OPEN, Op.I_TRUNCATE}
    PROVE  LET s == ejecutar_instrucciones_kernel(op) IN
           /\ s \in Seq(Llamadas) /\ Len(s) = 2
           /\ s[1] = recibeBuffer("kernel", "fs") /\ s[2] = elige("confirmar")
<1> DEFINE c1 == recibeBuffer("kernel", "fs")
           c2 == elige("confirmar")
<1>1. c1 \in Llamadas /\ c2 \in Llamadas
  BY LlamadaTipos, SueltaTipos, DatosTipos, Codigos
     DEF Modulos, Sueltas, Miradas, Elecciones
<1>2. ejecutar_instrucciones_kernel(op) = <<c1>> \o <<c2>>
  <2>1. ejecutar_instrucciones_kernel(op)
          = RecibirBuffer("kernel", "fs") \o Elegir("confirmar")
    BY DEF ejecutar_instrucciones_kernel, Op
  <2> QED
    BY <2>1 DEF RecibirBuffer, Elegir, recibeBuffer, elige
<1> HIDE DEF c1, c2
<1>3. LET s == <<c1>> \o <<c2>> IN
      /\ s \in Seq(Llamadas) /\ Len(s) = 2
      /\ s[1] = c1 /\ s[2] = c2
  BY <1>1
<1> QED
  BY <1>2, <1>3 DEF c1, c2

LEMMA ConfirmarLlama ==
    ASSUME NEW r \in Int
    PROVE  LET s == Confirmar(r) IN
           /\ s \in Seq(Llamadas) /\ Len(s) = 1
           /\ s[1] = envia("fs", "kernel", r, <<>>)
<1> DEFINE c1 == envia("fs", "kernel", r, <<>>)
<1>1. c1 \in Llamadas
  BY LlamadaTipos, SueltaTipos, DatosTipos, Codigos
     DEF Modulos, Sueltas, Miradas, Elecciones
<1>2. Confirmar(r) = <<c1>>
  BY DEF Confirmar, EnviarOperacion, EnviarPaquete, Recibir, RecibirBuffer,
         Segun, Elegir, Tomar, Soltar, envia, recibe, recibeBuffer, mira, elige,
         solo
<1> HIDE DEF c1
<1>3. LET s == <<c1>> IN
      /\ s \in Seq(Llamadas) /\ Len(s) = 1
      /\ s[1] = c1
  BY <1>1
<1> QED
  BY <1>2, <1>3 DEF c1

LEMMA PedidoMovInLlama ==
    LET s == ejecutar_cpu_pedido(Op.I_MOV_IN) IN
    /\ s \in Seq(Llamadas) /\ Len(s) = 2
    /\ s[1] = recibeBuffer("cpu", "memoria")
    /\ s[2] = envia("memoria", "cpu", Op.AUX_OK, Nombre)
<1> DEFINE c1 == recibeBuffer("cpu", "memoria")
           c2 == envia("memoria", "cpu", Op.AUX_OK, Nombre)
<1>1. c1 \in Llamadas /\ c2 \in Llamadas
  BY LlamadaTipos, SueltaTipos, DatosTipos, Codigos
     DEF Modulos, Sueltas, Miradas, Elecciones
<1>2. ejecutar_cpu_pedido(Op.I_MOV_IN) = <<c1>> \o <<c2>>
  BY DEF ejecutar_cpu_pedido, Op, EnviarPaquete, Recibir, RecibirBuffer, Segun,
         Elegir, Tomar, Soltar, envia, recibe, recibeBuffer, mira, elige, solo
<1> HIDE DEF c1, c2
<1>3. LET s == <<c1>> \o <<c2>> IN
      /\ s \in Seq(Llamadas) /\ Len(s) = 2
      /\ s[1] = c1 /\ s[2] = c2
  BY <1>1
<1> QED
  BY <1>2, <1>3 DEF c1, c2

LEMMA PedidoMovOutLlama ==
    LET s == ejecutar_cpu_pedido(Op.I_MOV_OUT) IN
    /\ s \in Seq(Llamadas) /\ Len(s) = 2
    /\ s[1] = recibeBuffer("cpu", "memoria")
    /\ s[2] = envia("memoria", "cpu", Op.AUX_OK, <<>>)
<1> DEFINE c1 == recibeBuffer("cpu", "memoria")
           c2 == envia("memoria", "cpu", Op.AUX_OK, <<>>)
<1>1. c1 \in Llamadas /\ c2 \in Llamadas
  BY LlamadaTipos, SueltaTipos, DatosTipos, Codigos
     DEF Modulos, Sueltas, Miradas, Elecciones
<1>2. ejecutar_cpu_pedido(Op.I_MOV_OUT) = <<c1>> \o <<c2>>
  BY DEF ejecutar_cpu_pedido, EnviarOperacion, Op, EnviarPaquete, Recibir,
         RecibirBuffer, Segun, Elegir, Tomar, Soltar, envia, recibe,
         recibeBuffer, mira, elige, solo
<1> HIDE DEF c1, c2
<1>3. LET s == <<c1>> \o <<c2>> IN
      /\ s \in Seq(Llamadas) /\ Len(s) = 2
      /\ s[1] = c1 /\ s[2] = c2
  BY <1>1
<1> QED
  BY <1>2, <1>3 DEF c1, c2

LEMMA PedidoPcbLlama ==
    LET s == ejecutar_kernel_pedido(Op.AUX_CREATE_PCB) IN
    /\ s \in Seq(Llamadas) /\ Len(s) = 2
    /\ s[1] = recibeBuffer("kernel", "memoria")
    /\ s[2] = envia("memoria", "kernel", Op.AUX_CREATE_PCB, Tabla)
<1> DEFINE c1 == recibeBuffer("kernel", "memoria")
           c2 == envia("memoria", "kernel", Op.AUX_CREATE_PCB, Tabla)
<1>1. c1 \in Llamadas /\ c2 \in Llamadas
  BY LlamadaTipos, SueltaTipos, DatosTipos, Codigos
     DEF Modulos, Sueltas, Miradas, Elecciones
<1>2. ejecutar_kernel_pedido(Op.AUX_CREATE_PCB) = <<c1>> \o <<c2>>
  BY DEF ejecutar_kernel_pedido, Op, EnviarPaquete, Recibir, RecibirBuffer,
         Segun, Elegir, Tomar, Soltar, envia, recibe, recibeBuffer, mira, elige,
         solo
<1> HIDE DEF c1, c2
<1>3. LET s == <<c1>> \o <<c2>> IN
      /\ s \in Seq(Llamadas) /\ Len(s) = 2
      /\ s[1] = c1 /\ s[2] = c2
  BY <1>1
<1> QED
  BY <1>2, <1>3 DEF c1, c2

LEMMA PedidoCrearLlama ==
    LET s == ejecutar_kernel_pedido(Op.I_CREATE_SEGMENT) IN
    /\ s \in Seq(Llamadas) /\ Len(s) = 4
    /\ s[1] = recibeBuffer("kernel", "memoria")
    /\ s[2] = recibe("kernel", "memoria")
    /\ s[3] = recibeBuffer("kernel", "memoria")
         /\ s[4] = elige("crear_segmento")
<1> DEFINE c1 == recibeBuffer("kernel", "memoria")
           c2 == recibe("kernel", "memoria")
           c3 == elige("crear_segmento")
<1>1. c1 \in Llamadas /\ c2 \in Llamadas /\ c3 \in Llamadas
  BY LlamadaTipos, SueltaTipos, DatosTipos, Codigos
     DEF Modulos, Sueltas, Miradas, Elecciones
<1>2. ejecutar_kernel_pedido(Op.I_CREATE_SEGMENT) = <<c1>> \o <<c2>> \o <<c1>>
        \o <<c3>>
  BY DEF ejecutar_kernel_pedido, Op, EnviarPaquete, Recibir, RecibirBuffer,
         Segun, Elegir, Tomar, Soltar, envia, recibe, recibeBuffer, mira, elige,
         solo
<1> HIDE DEF c1, c2, c3
<1>3. LET s == <<c1>> \o <<c2>> \o <<c1>> \o <<c3>> IN
      /\ s \in Seq(Llamadas) /\ Len(s) = 4
      /\ s[1] = c1 /\ s[2] = c2 /\ s[3] = c1 /\ s[4] = c3
  BY <1>1
<1> QED
  BY <1>2, <1>3 DEF c1, c2, c3

LEMMA PedidoBorrarLlama ==
    LET s == ejecutar_kernel_pedido(Op.I_DELETE_SEGMENT) IN
    /\ s \in Seq(Llamadas) /\ Len(s) = 4
    /\ s[1] = recibeBuffer("kernel", "memoria")
    /\ s[2] = recibe("kernel", "memoria")
    /\ s[3] = recibeBuffer("kernel", "memoria")
    /\ s[4] = envia("memoria", "kernel", Op.AUX_OK, Tabla)
<1> DEFINE c1 == recibeBuffer("kernel", "memoria")
           c2 == recibe("kernel", "memoria")
           c3 == envia("memoria", "kernel", Op.AUX_OK, Tabla)
<1>1. c1 \in Llamadas /\ c2 \in Llamadas /\ c3 \in Llamadas
  BY LlamadaTipos, SueltaTipos, DatosTipos, Codigos
     DEF Modulos, Sueltas, Miradas, Elecciones
<1>2. ejecutar_kernel_pedido(Op.I_DELETE_SEGMENT) = <<c1>> \o <<c2>> \o <<c1>>
        \o <<c3>>
  BY DEF ejecutar_kernel_pedido, Op, EnviarPaquete, Recibir, RecibirBuffer,
         Segun, Elegir, Tomar, Soltar, envia, recibe, recibeBuffer, mira, elige,
         solo
<1> HIDE DEF c1, c2, c3
<1>3. LET s == <<c1>> \o <<c2>> \o <<c1>> \o <<c3>> IN
      /\ s \in Seq(Llamadas) /\ Len(s) = 4
      /\ s[1] = c1 /\ s[2] = c2 /\ s[3] = c1 /\ s[4] = c3
  BY <1>1
<1> QED
  BY <1>2, <1>3 DEF c1, c2, c3

LEMMA CompactarLlama ==
    LET s == Compactar IN
    /\ s \in Seq(Llamadas) /\ Len(s) = 2
    /\ s[1] = recibe("kernel", "memoria")
    /\ s[2] = envia("memoria", "kernel", Op.AUX_OK, Tabla)
<1> DEFINE c1 == recibe("kernel", "memoria")
           c2 == envia("memoria", "kernel", Op.AUX_OK, Tabla)
<1>1. c1 \in Llamadas /\ c2 \in Llamadas
  BY LlamadaTipos, SueltaTipos, DatosTipos, Codigos
     DEF Modulos, Sueltas, Miradas, Elecciones
<1>2. Compactar = <<c1>> \o <<c2>>
  BY DEF Compactar, EnviarPaquete, Recibir, RecibirBuffer, Segun, Elegir, Tomar,
         Soltar, envia, recibe, recibeBuffer, mira, elige, solo
<1> HIDE DEF c1, c2
<1>3. LET s == <<c1>> \o <<c2>> IN
      /\ s \in Seq(Llamadas) /\ Len(s) = 2
      /\ s[1] = c1 /\ s[2] = c2
  BY <1>1
<1> QED
  BY <1>2, <1>3 DEF c1, c2

LEMMA CrearSegmentoLlama ==
    ASSUME NEW r \in Int
    PROVE  LET s == crear_segmento(r) IN
           /\ s \in Seq(Llamadas) /\ Len(s) = 1
           /\ s[1] = envia("memoria", "kernel", r, DatosDe(r))
<1> DEFINE c1 == envia("memoria", "kernel", r, DatosDe(r))
<1>1. c1 \in Llamadas
  BY LlamadaTipos, SueltaTipos, DatosTipos, Codigos, TresMas
     DEF Modulos, Sueltas, Miradas, Elecciones
<1>2. crear_segmento(r) = <<c1>>
  BY DEF crear_segmento, DatosDe, EnviarPaquete, Recibir, RecibirBuffer, Segun,
         Elegir, Tomar, Soltar, envia, recibe, recibeBuffer, mira, elige, solo
<1> HIDE DEF c1
<1>3. LET s == <<c1>> IN
      /\ s \in Seq(Llamadas) /\ Len(s) = 1
      /\ s[1] = c1
  BY <1>1
<1> QED
  BY <1>2, <1>3 DEF c1

LEMMA InicioKernelLlama ==
    LET s == Inicio.kernel IN
    /\ s \in Seq(Llamadas) /\ Len(s) = 10
    /\ s[1] = solo("lanzado") /\ s[2] = conecta("kernel", "memoria")
    /\ s[3] = recibe("memoria", "kernel")
    /\ s[4] = envia("kernel", "memoria", Op.AUX_SOY_KERNEL, <<>>)
    /\ s[5] = conecta("kernel", "cpu") /\ s[6] = recibe("cpu", "kernel")
    /\ s[7] = conecta("kernel", "fs") /\ s[8] = recibe("fs", "kernel")
    /\ s[9] = lanza({"ready", "desalojo"}) /\ s[10] = solo("fin")
<1> DEFINE c1 == solo("lanzado")
           c2 == conecta("kernel", "memoria")
           c3 == recibe("memoria", "kernel")
           c4 == envia("kernel", "memoria", Op.AUX_SOY_KERNEL, <<>>)
           c5 == conecta("kernel", "cpu")
           c6 == recibe("cpu", "kernel")
           c7 == conecta("kernel", "fs")
           c8 == recibe("fs", "kernel")
           c9 == lanza({"ready", "desalojo"})
           c10 == solo("fin")
<1>1. c1 \in Llamadas /\ c2 \in Llamadas /\ c3 \in Llamadas /\ c4 \in Llamadas
        /\ c5 \in Llamadas /\ c6 \in Llamadas /\ c7 \in Llamadas
             /\ c8 \in Llamadas /\ c9 \in Llamadas /\ c10 \in Llamadas
  BY LlamadaTipos, SueltaTipos, DatosTipos, Codigos, HilosSon
     DEF Modulos, Sueltas, Miradas, Elecciones
<1>2. Inicio.kernel = <<c1>> \o (<<c2>> \o <<c3>>) \o <<c4>>
        \o (<<c5>> \o <<c6>>)
         \o (<<c7>> \o <<c8>>) \o <<c9>> \o <<c10>>
  BY DEF Inicio, Lanzado, crear_conexion, Conectar, Recibir, EnviarOperacion,
         EnviarPaquete, Lanzar, Fin, Bucle, Hilos, envia, recibe, conecta,
         lanza, solo
<1> HIDE DEF c1, c2, c3, c4, c5, c6, c7, c8, c9, c10
<1>3. LET s == <<c1>> \o (<<c2>> \o <<c3>>) \o <<c4>> \o (<<c5>> \o <<c6>>)
         \o (<<c7>> \o <<c8>>) \o <<c9>> \o <<c10>> IN
      /\ s \in Seq(Llamadas) /\ Len(s) = 10
      /\ s[1] = c1 /\ s[2] = c2 /\ s[3] = c3 /\ s[4] = c4 /\ s[5] = c5
           /\ s[6] = c6 /\ s[7] = c7 /\ s[8] = c8 /\ s[9] = c9 /\ s[10] = c10
  BY <1>1
<1> QED
  BY <1>2, <1>3 DEF c1, c2, c3, c4, c5, c6, c7, c8, c9, c10

LEMMA InicioMemoriaLlama ==
    LET s == Inicio.memoria IN
    /\ s \in Seq(Llamadas) /\ Len(s) = 5
    /\ s[1] = solo("listen") /\ s[2] = solo("accept") /\ s[3] = solo("accept")
    /\ s[4] = solo("accept") /\ s[5] = solo("fin")
<1> DEFINE c1 == solo("listen")
           c2 == solo("accept")
           c3 == solo("fin")
<1>1. c1 \in Llamadas /\ c2 \in Llamadas /\ c3 \in Llamadas
  BY LlamadaTipos, SueltaTipos, DatosTipos, Codigos
     DEF Modulos, Sueltas, Miradas, Elecciones
<1>2. Inicio.memoria = <<c1>> \o <<c2>> \o <<c2>> \o <<c2>> \o <<c3>>
  BY DEF Inicio, Escuchar, Aceptar, Fin, Bucle, Hilos, solo
<1> HIDE DEF c1, c2, c3
<1>3. LET s == <<c1>> \o <<c2>> \o <<c2>> \o <<c2>> \o <<c3>> IN
      /\ s \in Seq(Llamadas) /\ Len(s) = 5
      /\ s[1] = c1 /\ s[2] = c2 /\ s[3] = c2 /\ s[4] = c2 /\ s[5] = c3
  BY <1>1
<1> QED
  BY <1>2, <1>3 DEF c1, c2, c3

LEMMA SaludoLlama ==
    ASSUME NEW c \in Modulos
    PROVE  LET s == Saludo(c) IN
           /\ s \in Seq(Llamadas) /\ Len(s) = 3
           /\ s[1] = recibe(c, "memoria") /\ s[2] = responde("memoria", c)
           /\ s[3] = mira(c, "memoria", "conexion")
<1> DEFINE c1 == recibe(c, "memoria")
           c2 == responde("memoria", c)
           c3 == mira(c, "memoria", "conexion")
<1>1. c1 \in Llamadas /\ c2 \in Llamadas /\ c3 \in Llamadas
  BY LlamadaTipos, SueltaTipos, DatosTipos, Codigos
     DEF Modulos, Sueltas, Miradas, Elecciones
<1>2. Saludo(c) = <<c1>> \o <<c2>> \o <<c3>>
  BY DEF Saludo, Recibir, Responder, Segun, recibe, responde, mira
<1> HIDE DEF c1, c2, c3
<1>3. LET s == <<c1>> \o <<c2>> \o <<c3>> IN
      /\ s \in Seq(Llamadas) /\ Len(s) = 3
      /\ s[1] = c1 /\ s[2] = c2 /\ s[3] = c3
  BY <1>1
<1> QED
  BY <1>2, <1>3 DEF c1, c2, c3

LEMMA ConexionFsLlama ==
    LET s == atender_conexiones(Soy.fs) IN
    /\ s \in Seq(Llamadas) /\ Len(s) = 1
    /\ s[1] = lanza({"pedidos_fs"})
<1> DEFINE c1 == lanza({"pedidos_fs"})
<1>1. c1 \in Llamadas
  BY LlamadaTipos, SueltaTipos, DatosTipos, Codigos, HilosSon
     DEF Modulos, Sueltas, Miradas, Elecciones
<1>2. atender_conexiones(Soy.fs) = <<c1>>
  BY DEF atender_conexiones, Soy, Lanzar, Op, lanza
<1> HIDE DEF c1
<1>3. LET s == <<c1>> IN
      /\ s \in Seq(Llamadas) /\ Len(s) = 1
      /\ s[1] = c1
  BY <1>1
<1> QED
  BY <1>2, <1>3 DEF c1

LEMMA ConexionCpuLlama ==
    LET s == atender_conexiones(Soy.cpu) IN
    /\ s \in Seq(Llamadas) /\ Len(s) = 2
    /\ s[1] = recibe("cpu", "memoria") /\ s[2] = lanza({"pedidos_cpu"})
<1> DEFINE c1 == recibe("cpu", "memoria")
           c2 == lanza({"pedidos_cpu"})
<1>1. c1 \in Llamadas /\ c2 \in Llamadas
  BY LlamadaTipos, SueltaTipos, DatosTipos, Codigos, HilosSon
     DEF Modulos, Sueltas, Miradas, Elecciones
<1>2. atender_conexiones(Soy.cpu) = <<c1>> \o <<c2>>
  BY DEF atender_conexiones, Soy, Lanzar, Recibir, Op, lanza, recibe
<1> HIDE DEF c1, c2
<1>3. LET s == <<c1>> \o <<c2>> IN
      /\ s \in Seq(Llamadas) /\ Len(s) = 2
      /\ s[1] = c1 /\ s[2] = c2
  BY <1>1
<1> QED
  BY <1>2, <1>3 DEF c1, c2

LEMMA ConexionKernelLlama ==
    LET s == atender_conexiones(Soy.kernel) IN
    /\ s \in Seq(Llamadas) /\ Len(s) = 3
    /\ s[1] = recibe("kernel", "memoria") /\ s[2] = lanza({"pedidos_kernel"})
    /\ s[3] = solo("fin")
<1> DEFINE c1 == recibe("kernel", "memoria")
           c2 == lanza({"pedidos_kernel"})
           c3 == solo("fin")
<1>1. c1 \in Llamadas /\ c2 \in Llamadas /\ c3 \in Llamadas
  BY LlamadaTipos, SueltaTipos, DatosTipos, Codigos, HilosSon
     DEF Modulos, Sueltas, Miradas, Elecciones
<1>2. atender_conexiones(Soy.kernel) = <<c1>> \o <<c2>> \o <<c3>>
  BY DEF atender_conexiones, Soy, Lanzar, Recibir, Fin, Op, lanza, recibe, solo
<1> HIDE DEF c1, c2, c3
<1>3. LET s == <<c1>> \o <<c2>> \o <<c3>> IN
      /\ s \in Seq(Llamadas) /\ Len(s) = 3
      /\ s[1] = c1 /\ s[2] = c2 /\ s[3] = c3
  BY <1>1
<1> QED
  BY <1>2, <1>3 DEF c1, c2, c3
-----------------------------------------------------------------------------
(* What a call does *)

\* The loop of every thread is a sequence of calls, and not empty.
LEMMA BucleTipos == \A h \in Hilos : Bucle[h] \in Seq(Llamadas)
  /\ Bucle[h] # <<>>
<1> DEFINE Bien(s) == s \in Seq(Llamadas) /\ Len(s) \in 1..6
<1>1. /\ Bien(Fin) /\ Bien(enviar_proceso_a_ready) /\ Bien(manejo_desalojo_pcb)
      /\ Bien(atender_kernel)
  BY FinLlama, ReadyLlama, DesalojoLlama, AtenderKernelLlama
<1>2. /\ Bien(Bucle.fs) /\ Bien(Bucle.pedidos_fs) /\ Bien(Bucle.pedidos_cpu)
      /\ Bien(Bucle.pedidos_kernel)
  BY FsLlama, PedidosFsLlama, PedidosCpuLlama, PedidosKernelLlama
<1>3. \A s : Bien(s) => s \in Seq(Llamadas) /\ s # <<>>
  OBVIOUS
<1> HIDE DEF Bien
<1>4. /\ Bucle["kernel"] = Fin /\ Bucle["memoria"] = Fin
      /\ Bucle["ready"] = enviar_proceso_a_ready
      /\ Bucle["desalojo"] = manejo_desalojo_pcb
           /\ Bucle["cpu"] = atender_kernel
  BY DEF Bucle
<1>5. \A h \in Hilos : Bien(Bucle[h])
  BY <1>1, <1>2, <1>4, HilosSon
<1> QED
  BY <1>3, <1>5

Resto4 == <<escuchan, cola, mutex_memoria, inicializar>>

\* Thread h is left with x, and connection c with w.
HiloPasa(h, x) ==
    /\ por' \in [Hilos -> Seq(Llamadas)] /\ por'[h] = x
    /\ \A g \in Hilos \ {h} : por'[g] = por[g]
CanalPasa(c, w) ==
    /\ canal' \in [Canales -> Seq(Palabras)] /\ canal'[c] = w
    /\ \A e \in Canales \ {c} : canal'[e] = canal[e]

\* A thread that moves does the action of its next call.
LEMMA QueLlama ==
    ASSUME NEW h, Avanza(h)
    PROVE  /\ Ahora(h).paso = "send" => Send(h)
           /\ Ahora(h).paso = "recibir_operacion" => recibir_operacion(h)
           /\ Ahora(h).paso = "switch" => Switch(h)
           /\ Ahora(h).paso = "recibir_buffer" => recibir_buffer(h)
           /\ Ahora(h).paso = "elegir" => ElegirUna(h)
           /\ Ahora(h).paso = "lanzado" => Launch(h)
           /\ Ahora(h).paso = "connect" => Connect(h)
           /\ Ahora(h).paso = "listen" => Listen(h)
           /\ Ahora(h).paso = "accept" => esperar_cliente(h)
           /\ Ahora(h).paso = "pthread_create" => PthreadCreate(h)
           /\ Ahora(h).paso = "lock" => Lock(h)
           /\ Ahora(h).paso = "unlock" => Unlock(h)
           /\ Ahora(h).paso = "sem_wait" => SemWait(h)
           /\ Ahora(h).paso # "fin"
BY DEF Avanza, Llama, Ahora, Send, recibir_operacion, Switch, recibir_buffer,
       ElegirUna, Launch, Connect, Listen, esperar_cliente, PthreadCreate, Lock,
       Unlock, SemWait

\* At call k of s the next call is s[k + 1].
LEMMA Posicion ==
    ASSUME Tipos, NEW h \in Hilos, NEW s \in Seq(Llamadas),
           NEW k \in 0..Len(s) - 1,
           En(h, s, k)
    PROVE  /\ Ahora(h) = s[k + 1] /\ Tail(por[h]) = Quedan(s, k + 1)
           /\ Tras(h, s, k + 1) \in Seq(Llamadas)
           /\ SigueCon(h, <<>>) => HiloPasa(h, Tras(h, s, k + 1))
<1>1. /\ Ahora(h) = s[k + 1] /\ Tail(por[h]) = Quedan(s, k + 1)
  BY LoQueQueda DEF En, Ahora
<1>2. k + 1 = Len(s) => Quedan(s, k + 1) = <<>>
  BY QuedaTodoONada
<1>3. k + 1 # Len(s) => Quedan(s, k + 1) # <<>>
        /\ Quedan(s, k + 1) \in Seq(Llamadas)
  <2>1. k + 1 # Len(s) => k + 1 \in 0..Len(s) - 1
    OBVIOUS
  <2> QED
    BY <2>1, LoQueQueda
<1>4. Tras(h, s, k + 1) \in Seq(Llamadas)
  BY <1>3, BucleTipos DEF Tras
<1>5. Quedan(s, k + 1) \in Seq(Llamadas)
  BY <1>2, <1>3, EmptySeq
<1>6. <<>> \o Quedan(s, k + 1) = Quedan(s, k + 1)
  BY <1>5, ConcatEmptySeq
<1>7. SigueCon(h, <<>>) => por' = [por EXCEPT ![h] = Tras(h, s, k + 1)]
  BY <1>1, <1>2, <1>3, <1>4, <1>6 DEF SigueCon, Tras
<1>8. SigueCon(h, <<>>) => HiloPasa(h, Tras(h, s, k + 1))
  BY <1>4, <1>7 DEF Tipos, HiloPasa
<1> QED
  BY <1>1, <1>4, <1>8

\* What is left after the last call.
LEMMA PosicionFinal ==
    ASSUME Tipos, NEW h \in Hilos, NEW s \in Seq(Llamadas),
           NEW k \in 0..Len(s) - 1,
           En(h, s, k), k + 1 = Len(s), NEW t \in Seq(Llamadas), SigueCon(h, t)
    PROVE  HiloPasa(h, IF t = <<>> THEN Bucle[h] ELSE t)
<1>3. Tail(por[h]) = Quedan(s, k + 1)
  BY Posicion
<1>1. Tail(por[h]) = <<>>
  BY <1>3, QuedaTodoONada
<1>2. t \o <<>> = t
  BY ConcatEmptySeq
<1>4. por' = [por EXCEPT ![h] = IF t = <<>> THEN Bucle[h] ELSE t]
  BY <1>1, <1>2 DEF SigueCon
<1> QED
  BY <1>4, BucleTipos DEF Tipos, HiloPasa

\* The next call of thread h is x, and then y is left.
Toca(h, x, y) ==
    Ahora(h) = x /\ (SigueCon(h, <<>>) => HiloPasa(h, y))
\* The last call of thread h is x: then what x asks for, or the loop, is left.
TocaUltima(h, x) ==
    /\ Ahora(h) = x
    /\ \A t \in Seq(Llamadas) : SigueCon(h, t)
         => HiloPasa(h, IF t = <<>> THEN Bucle[h] ELSE t)
Hay(de, a, w) == canal[<<de, a>>] = w

\* ... and what is left after it.
LEMMA EnPosicion ==
    ASSUME Tipos, NEW h \in Hilos, NEW s \in Seq(Llamadas),
           NEW k \in 0..Len(s) - 1,
           En(h, s, k)
    PROVE  /\ Toca(h, s[k + 1], Tras(h, s, k + 1))
           /\ k + 1 = Len(s) => TocaUltima(h, s[k + 1])
<1>1. Toca(h, s[k + 1], Tras(h, s, k + 1))
  BY Posicion DEF Toca
<1>2. ASSUME k + 1 = Len(s)
      PROVE  TocaUltima(h, s[k + 1])
  <2>1. Ahora(h) = s[k + 1]
    BY Posicion
  <2>2. ASSUME NEW t \in Seq(Llamadas), SigueCon(h, t)
        PROVE  HiloPasa(h, IF t = <<>> THEN Bucle[h] ELSE t)
    BY <1>2, <2>2, PosicionFinal
  <2> QED
    BY <2>1, <2>2 DEF TocaUltima
<1> QED
  BY <1>1, <1>2

\* A step that gives a thread calls and a connection words keeps the types.
LEMMA TiposDe ==
    ASSUME Tipos, NEW h, NEW x, HiloPasa(h, x), UNCHANGED Resto4,
           NEW c, NEW w, canal' = canal \/ CanalPasa(c, w)
    PROVE  Tipos'
BY DEF Tipos, HiloPasa, CanalPasa, Resto4

\* A connection is given words.
LEMMA CanalDe ==
    ASSUME Tipos, NEW c \in Canales, NEW w \in Seq(Palabras),
           canal' = [canal EXCEPT ![c] = w]
    PROVE  CanalPasa(c, w)
BY DEF Tipos, CanalPasa

\* send puts words at the end of a connection.
LEMMA Envia ==
    ASSUME Tipos, NEW h, NEW y, NEW c \in Canales, NEW w \in Seq(Palabras),
           Send(h), SigueCon(h, <<>>) => HiloPasa(h, y),
           Ahora(h).canal = c, Ahora(h).palabras = w
    PROVE  /\ Tipos' /\ UNCHANGED Resto4 /\ HiloPasa(h, y)
           /\ CanalPasa(c, canal[c] \o w)
<1>1. canal[c] \o w \in Seq(Palabras)
  BY DEF Tipos
<1>2. canal' = [canal EXCEPT ![c] = canal[c] \o w]
  BY DEF Send
<1>3. CanalPasa(c, canal[c] \o w)
  BY <1>1, <1>2, CanalDe
<1>4. HiloPasa(h, y) /\ UNCHANGED Resto4
  BY DEF Send, Resto4
<1> QED
  BY <1>3, <1>4, TiposDe

\* Thread h makes its call: it is left with y, and connection c with w.
Va(h, y, c, w) ==
    Tipos' /\ UNCHANGED Resto4 /\ HiloPasa(h, y) /\ CanalPasa(c, w)

\* ... a packet,
LEMMA PasoEnvia ==
    ASSUME Tipos, NEW h, NEW y, NEW de, NEW a, <<de, a>> \in Canales,
           NEW op \in Int, NEW d \in Seq(Palabras), NEW w,
           Toca(h, envia(de, a, op, d), y), Hay(de, a, w), Avanza(h)
    PROVE  Va(h, y, <<de, a>>, w \o Paquete(op, d))
<1>1. Ahora(h) = envia(de, a, op, d) /\ (SigueCon(h, <<>>) => HiloPasa(h, y))
  BY DEF Toca
<1>2. /\ Ahora(h).paso = "send" /\ Ahora(h).canal = <<de, a>>
      /\ Ahora(h).palabras = Paquete(op, d)
  BY <1>1 DEF envia
<1>3. Send(h)
  BY <1>2, QueLlama
<1>4. Paquete(op, d) \in Seq(Palabras)
  BY PaqueteTipo
<1>5. /\ Tipos' /\ UNCHANGED Resto4 /\ HiloPasa(h, y)
      /\ CanalPasa(<<de, a>>, canal[<<de, a>>] \o Paquete(op, d))
  BY <1>1, <1>2, <1>3, <1>4, Envia
<1> QED
  BY <1>5 DEF Hay, Va

\* ... or the answer to a greeting.
LEMMA PasoResponde ==
    ASSUME Tipos, NEW h, NEW y, NEW de, NEW a, <<de, a>> \in Canales, NEW w,
           Toca(h, responde(de, a), y), Hay(de, a, w), Avanza(h)
    PROVE  Va(h, y, <<de, a>>, w \o <<Dato(0)>>)
<1>1. Ahora(h) = responde(de, a) /\ (SigueCon(h, <<>>) => HiloPasa(h, y))
  BY DEF Toca
<1>2. /\ Ahora(h).paso = "send" /\ Ahora(h).canal = <<de, a>>
      /\ Ahora(h).palabras = <<Dato(0)>>
  BY <1>1 DEF responde
<1>3. Send(h)
  BY <1>2, QueLlama
<1>4. <<Dato(0)>> \in Seq(Palabras)
  BY DatosTipos
<1>5. /\ Tipos' /\ UNCHANGED Resto4 /\ HiloPasa(h, y)
      /\ CanalPasa(<<de, a>>, canal[<<de, a>>] \o <<Dato(0)>>)
  BY <1>1, <1>2, <1>3, <1>4, Envia
<1> QED
  BY <1>5 DEF Hay, Va

\* One word is taken from a connection.
LEMMA Saca ==
    ASSUME Tipos, NEW c \in Canales, canal[c] # <<>>, Sacar(c, 1)
    PROVE  CanalPasa(c, Tail(canal[c]))
<1>1. canal[c] \in Seq(Palabras)
  BY DEF Tipos
<1>2. Tail(canal[c]) = SubSeq(canal[c], 2, Len(canal[c]))
        /\ Tail(canal[c]) \in Seq(Palabras)
  BY <1>1, TailIsSubSeq, HeadTailProperties
<1> DEFINE v == SubSeq(canal[c], 1 + 1, Len(canal[c]))
<1>3. canal' = [canal EXCEPT ![c] = v]
  BY DEF Sacar
<1>4. v = Tail(canal[c])
  BY <1>2
<1> HIDE DEF v
<1>5. CanalPasa(c, v)
  BY <1>2, <1>3, <1>4, CanalDe
<1> QED
  BY <1>4, <1>5

\* recibir_operacion takes the first word.
LEMMA PasoRecibe ==
    ASSUME Tipos, NEW h, NEW y, NEW de, NEW a, <<de, a>> \in Canales, NEW w,
           Toca(h, recibe(de, a), y), Hay(de, a, w), Avanza(h)
    PROVE  Va(h, y, <<de, a>>, Tail(w)) /\ w # <<>>
<1>1. Ahora(h) = recibe(de, a) /\ (SigueCon(h, <<>>) => HiloPasa(h, y))
  BY DEF Toca
<1>2. Ahora(h).paso = "recibir_operacion" /\ Ahora(h).canal = <<de, a>>
  BY <1>1 DEF recibe
<1>3. recibir_operacion(h)
  BY <1>2, QueLlama
<1>4. canal[<<de, a>>] # <<>> /\ Sacar(<<de, a>>, 1)
  BY <1>2, <1>3 DEF recibir_operacion
<1>5. HiloPasa(h, y) /\ UNCHANGED Resto4
  BY <1>1, <1>3 DEF recibir_operacion, Resto4
<1>6. CanalPasa(<<de, a>>, Tail(canal[<<de, a>>]))
  BY <1>4, Saca
<1>7. Tipos'
  BY <1>5, <1>6, TiposDe
<1> QED
  BY <1>4, <1>5, <1>6, <1>7 DEF Hay, Va

\* A buffer that starts where its size is.
LEMMA PasoBuffer ==
    ASSUME Tipos, NEW h, NEW y, NEW de, NEW a, <<de, a>> \in Canales,
           NEW d \in Seq(Palabras), NEW r \in Seq(Palabras),
           Toca(h, recibeBuffer(de, a), y), Hay(de, a, Resto(d) \o r), Avanza(h)
    PROVE  Va(h, y, <<de, a>>, r)
<1>1. Ahora(h) = recibeBuffer(de, a) /\ (SigueCon(h, <<>>) => HiloPasa(h, y))
  BY DEF Toca
<1>2. Ahora(h).paso = "recibir_buffer" /\ Ahora(h).canal = <<de, a>>
  BY <1>1 DEF recibeBuffer
<1>3. recibir_buffer(h)
  BY <1>2, QueLlama
<1>4. Head(canal[<<de, a>>]).vale = 4 * Len(d)
  <2>1. Head(Resto(d) \o r) = Palabra("tam", 4 * Len(d))
    BY RestoDe
  <2>2. Palabra("tam", 4 * Len(d)).vale = 4 * Len(d)
    BY DEF Palabra
  <2> QED
    BY <2>1, <2>2 DEF Hay
<1>5. Sacar(<<de, a>>, 1 + ((4 * Len(d)) \div 4))
  BY <1>2, <1>3, <1>4 DEF recibir_buffer
<1>6. Len(d) \in Nat /\ (4 * Len(d)) \div 4 = Len(d)
  OBVIOUS
<1>7. Sacar(<<de, a>>, 1 + Len(d))
  BY <1>5, <1>6
<1> DEFINE v == SubSeq(canal[<<de, a>>], (1 + Len(d)) + 1,
      Len(canal[<<de, a>>]))
<1>8. canal' = [canal EXCEPT ![<<de, a>>] = v]
  BY <1>7 DEF Sacar
<1>9. v = r
  <2>1. Quedan(Resto(d) \o r, 1 + Len(d)) = r
    BY RestoDe
  <2> QED
    BY <2>1 DEF Quedan, Hay
<1> HIDE DEF v
<1>10. CanalPasa(<<de, a>>, v)
  BY <1>8, <1>9, CanalDe
<1>11. HiloPasa(h, y) /\ UNCHANGED Resto4
  BY <1>1, <1>3 DEF recibir_buffer, Resto4
<1>12. Tipos'
  BY <1>10, <1>11, TiposDe
<1> QED
  BY <1>9, <1>10, <1>11, <1>12 DEF Va

\* recibir_buffer leaves nothing behind the last packet.
LEMMA PasoBufferSolo ==
    ASSUME Tipos, NEW h, NEW y, NEW de, NEW a, <<de, a>> \in Canales,
           NEW d \in Seq(Palabras),
           Toca(h, recibeBuffer(de, a), y), Hay(de, a, Resto(d)), Avanza(h)
    PROVE  Va(h, y, <<de, a>>, <<>>)
<1>1. Resto(d) \in Seq(Palabras) /\ <<>> \in Seq(Palabras)
  BY RestoSolo, EmptySeq
<1>2. ASSUME NEW r \in Seq(Palabras), Hay(de, a, Resto(d) \o r)
      PROVE  Va(h, y, <<de, a>>, r)
  BY <1>2, PasoBuffer
<1>3. Resto(d) = Resto(d) \o <<>>
  BY <1>1, ConcatEmptySeq
<1> QED
  BY <1>1, <1>2, <1>3

\* A switch is the last call: what comes next, t, depends on the word it reads.

\* The switch takes the operation and goes to its case.
LEMMA PasoMira ==
    ASSUME Tipos, NEW h \in Hilos, NEW de, NEW a, <<de, a>> \in Canales,
           NEW como,
           NEW w, NEW v, NEW t \in Seq(Llamadas), w # <<>> => Head(w).vale = v,
           TocaUltima(h, mira(de, a, como)), Hay(de, a, w), Avanza(h),
           Sigue(como, v) = t, t # <<>>
    PROVE  Va(h, t, <<de, a>>, Tail(w)) /\ w # <<>>
<1>1. /\ Ahora(h) = mira(de, a, como) /\ (SigueCon(h, t) => HiloPasa(h, t))
  BY DEF TocaUltima
<1>2. Ahora(h).paso = "switch" /\ Ahora(h).canal = <<de, a>>
        /\ Ahora(h).como = como
  BY <1>1 DEF mira
<1>3. Switch(h)
  BY <1>2, QueLlama
<1>4. canal[<<de, a>>] # <<>> /\ Sacar(<<de, a>>, 1)
  BY <1>2, <1>3 DEF Switch
<1>5. Sigue(como, Head(canal[<<de, a>>]).vale) = t
  BY <1>4 DEF Hay
<1>6. HiloPasa(h, t) /\ UNCHANGED Resto4
  BY <1>1, <1>2, <1>3, <1>5 DEF Switch, Resto4
<1>7. CanalPasa(<<de, a>>, Tail(canal[<<de, a>>]))
  BY <1>4, Saca
<1>8. Tipos'
  BY <1>6, <1>7, TiposDe
<1> QED
  BY <1>4, <1>6, <1>7, <1>8 DEF Hay, Va

\* The same, of the packets that are sent and read.
LEMMA PasoEnviaSolo ==
    ASSUME Tipos, NEW h, NEW y, NEW de, NEW a, <<de, a>> \in Canales,
           NEW op \in Int, NEW d \in Seq(Palabras),
           Toca(h, envia(de, a, op, d), y), Hay(de, a, <<>>), Avanza(h)
    PROVE  Va(h, y, <<de, a>>, Paquete(op, d))
<1>1. Va(h, y, <<de, a>>, <<>> \o Paquete(op, d))
  BY PasoEnvia
<1>2. <<>> \o Paquete(op, d) = Paquete(op, d)
  BY PaqueteTipo, ConcatEmptySeq
<1> QED
  BY <1>1, <1>2

\* recibir_operacion of a packet leaves its size and its data,
LEMMA PasoRecibePaquete ==
    ASSUME Tipos, NEW h, NEW y, NEW de, NEW a, <<de, a>> \in Canales,
           NEW op \in Int, NEW d \in Seq(Palabras),
           Toca(h, recibe(de, a), y), Hay(de, a, Paquete(op, d)), Avanza(h)
    PROVE  Va(h, y, <<de, a>>, Resto(d))
<1>1. Va(h, y, <<de, a>>, Tail(Paquete(op, d)))
  BY PasoRecibe
<1> QED
  BY <1>1, PaqueteSolo

\* ... of an empty packet whose operation is read, its data,
LEMMA PasoRecibeResto ==
    ASSUME Tipos, NEW h, NEW y, NEW de, NEW a, <<de, a>> \in Canales,
           NEW d \in Seq(Palabras),
           Toca(h, recibe(de, a), y), Hay(de, a, Resto(d)), Avanza(h)
    PROVE  Va(h, y, <<de, a>>, d)
<1>1. Va(h, y, <<de, a>>, Tail(Resto(d)))
  BY PasoRecibe
<1> QED
  BY <1>1, RestoSolo

\* ... of one number, nothing,
LEMMA PasoRecibeDato ==
    ASSUME Tipos, NEW h, NEW y, NEW de, NEW a, <<de, a>> \in Canales,
           NEW n \in Int,
           Toca(h, recibe(de, a), y), Hay(de, a, <<Dato(n)>>), Avanza(h)
    PROVE  Va(h, y, <<de, a>>, <<>>)
<1>1. Va(h, y, <<de, a>>, Tail(<<Dato(n)>>))
  BY PasoRecibe
<1> QED
  BY <1>1

\* ... and of one word, nothing.
LEMMA PasoRecibeUno ==
    ASSUME Tipos, NEW h, NEW y, NEW de, NEW a, <<de, a>> \in Canales, NEW w,
           Toca(h, recibe(de, a), y), Hay(de, a, <<w>>), Avanza(h)
    PROVE  Va(h, y, <<de, a>>, <<>>)
<1>1. Va(h, y, <<de, a>>, Tail(<<w>>))
  BY PasoRecibe
<1>2. Tail(<<w>>) = <<>>
  OBVIOUS
<1> QED
  BY <1>1, <1>2

\* The switch on the operation of a packet,
LEMMA PasoMiraPaquete ==
    ASSUME Tipos, NEW h \in Hilos, NEW de, NEW a, <<de, a>> \in Canales,
           NEW como,
           NEW op \in Int, NEW d \in Seq(Palabras), NEW t \in Seq(Llamadas),
           TocaUltima(h, mira(de, a, como)), Hay(de, a, Paquete(op, d)),
             Avanza(h),
           Sigue(como, op) = t, t # <<>>
    PROVE  Va(h, t, <<de, a>>, Resto(d))
<1>1. Head(Paquete(op, d)).vale = op /\ Tail(Paquete(op, d)) = Resto(d)
  BY PaqueteSolo DEF Palabra
<1>2. \A w : w = Paquete(op, d) => (w # <<>> => Head(w).vale = op)
  BY <1>1
<1>3. Va(h, t, <<de, a>>, Tail(Paquete(op, d)))
  BY <1>2, PasoMira
<1> QED
  BY <1>1, <1>3

\* ... with words behind it.
LEMMA PasoMiraPaqueteY ==
    ASSUME Tipos, NEW h \in Hilos, NEW de, NEW a, <<de, a>> \in Canales,
           NEW como,
           NEW op \in Int, NEW d \in Seq(Palabras), NEW r \in Seq(Palabras),
           NEW t \in Seq(Llamadas),
           TocaUltima(h, mira(de, a, como)), Hay(de, a, Paquete(op, d) \o r),
             Avanza(h),
           Sigue(como, op) = t, t # <<>>
    PROVE  Va(h, t, <<de, a>>, Resto(d) \o r)
<1> DEFINE w == Paquete(op, d) \o r
<1>1. Head(w) = Palabra("op", op)
  BY PaqueteDe
<1>2. Tail(w) = Resto(d) \o r
  BY PaqueteDe, ZenonT(40)
<1>3. Hay(de, a, w)
  OBVIOUS
<1> HIDE DEF w
<1>4. w # <<>> => Head(w).vale = op
  BY <1>1 DEF Palabra
<1>5. Va(h, t, <<de, a>>, Tail(w))
  BY <1>3, <1>4, PasoMira
<1> QED
  BY <1>2, <1>5

\* A thread that chooses takes one of its options.
LEMMA PasoElige ==
    ASSUME Tipos, NEW h \in Hilos, NEW que, TocaUltima(h, elige(que)),
           Avanza(h),
           \A o \in Opciones(que) : o \in Seq(Llamadas) /\ o # <<>>
    PROVE  /\ Tipos' /\ UNCHANGED Resto4 /\ canal' = canal
           /\ \E o \in Opciones(que) : HiloPasa(h, o)
<1>1. Ahora(h) = elige(que)
  BY DEF TocaUltima
<1>2. Ahora(h).paso = "elegir" /\ Ahora(h).que = que
  BY <1>1 DEF elige
<1>3. ElegirUna(h)
  BY <1>2, QueLlama
<1>4. PICK o \in Opciones(que) : SigueCon(h, o)
  BY <1>2, <1>3 DEF ElegirUna
<1>5. o \in Seq(Llamadas) /\ o # <<>>
  BY <1>4
<1>6. HiloPasa(h, o)
  BY <1>4, <1>5 DEF TocaUltima
<1>7. canal' = canal /\ UNCHANGED Resto4
  BY <1>3 DEF ElegirUna, Resto4
<1>8. Tipos'
  BY <1>6, <1>7, TiposDe
<1> QED
  BY <1>4, <1>6, <1>7, <1>8

\* A thread whose next word has not been sent waits.
LEMMA NoHay ==
    ASSUME NEW h, NEW y, NEW de, NEW a, NEW como, Hay(de, a, <<>>),
           \/ Toca(h, recibe(de, a), y) \/ Toca(h, recibeBuffer(de, a), y)
           \/ TocaUltima(h, mira(de, a, como))
    PROVE  ~Avanza(h)
<1> SUFFICES ASSUME Avanza(h) PROVE FALSE
  OBVIOUS
<1>1. CASE Toca(h, recibe(de, a), y)
  <2>1. Ahora(h).paso = "recibir_operacion" /\ Ahora(h).canal = <<de, a>>
    BY <1>1 DEF recibe, Toca
  <2> QED
    BY <2>1, QueLlama DEF recibir_operacion, Hay
<1>2. CASE Toca(h, recibeBuffer(de, a), y)
  <2>1. Ahora(h).paso = "recibir_buffer" /\ Ahora(h).canal = <<de, a>>
    BY <1>2 DEF recibeBuffer, Toca
  <2> QED
    BY <2>1, QueLlama DEF recibir_buffer, Hay
<1>3. CASE TocaUltima(h, mira(de, a, como))
  <2>1. Ahora(h).paso = "switch" /\ Ahora(h).canal = <<de, a>>
    BY <1>3 DEF mira, TocaUltima
  <2> QED
    BY <2>1, QueLlama DEF Switch, Hay
<1> QED
  BY <1>1, <1>2, <1>3

\* A thread that has ended, or that nobody has created, does not move.
LEMMA NoSigueFin ==
    ASSUME NEW h, Ahora(h) = [paso |-> "fin"]
    PROVE  ~Avanza(h)
<1>1. Ahora(h).paso = "fin"
  OBVIOUS
<1> QED
  BY <1>1, QueLlama

\* The connections that are used.
LEMMA CanalesSon ==
    /\ <<"kernel", "cpu">> \in Canales /\ <<"cpu", "kernel">> \in Canales
    /\ <<"kernel", "fs">> \in Canales /\ <<"fs", "kernel">> \in Canales
    /\ <<"kernel", "memoria">> \in Canales
         /\ <<"memoria", "kernel">> \in Canales
    /\ <<"cpu", "memoria">> \in Canales /\ <<"memoria", "cpu">> \in Canales
    /\ <<"fs", "memoria">> \in Canales /\ <<"memoria", "fs">> \in Canales
    /\ <<"cpu", "fs">> \in Canales /\ <<"fs", "cpu">> \in Canales
BY DEF Canales, Modulos

-----------------------------------------------------------------------------
(* What a step leaves alone *)

IgualKC == kc' = kc /\ ck' = ck
IgualKF == kf' = kf /\ fk' = fk
IgualKM == km' = km /\ mk' = mk
IgualCM == cm' = cm /\ mc' = mc
IgualFM == fm' = fm /\ mf' = mf
IgualCF == cf' = cf /\ fc' = fc

\* A call changes one connection.
LEMMA CanalesDe ==
    ASSUME NEW w
    PROVE  /\ CanalPasa(<<"kernel", "cpu">>, w) =>
                 kc' = w /\ ck' = ck /\ IgualKF /\ IgualKM /\ IgualCM /\ IgualFM
                   /\ IgualCF
           /\ CanalPasa(<<"cpu", "kernel">>, w) =>
                 ck' = w /\ kc' = kc /\ IgualKF /\ IgualKM /\ IgualCM /\ IgualFM
                   /\ IgualCF
           /\ CanalPasa(<<"kernel", "fs">>, w) =>
                 kf' = w /\ fk' = fk /\ IgualKC /\ IgualKM /\ IgualCM /\ IgualFM
                   /\ IgualCF
           /\ CanalPasa(<<"fs", "kernel">>, w) =>
                 fk' = w /\ kf' = kf /\ IgualKC /\ IgualKM /\ IgualCM /\ IgualFM
                   /\ IgualCF
           /\ CanalPasa(<<"kernel", "memoria">>, w) =>
                 km' = w /\ mk' = mk /\ IgualKC /\ IgualKF /\ IgualCM /\ IgualFM
                   /\ IgualCF
           /\ CanalPasa(<<"memoria", "kernel">>, w) =>
                 mk' = w /\ km' = km /\ IgualKC /\ IgualKF /\ IgualCM /\ IgualFM
                   /\ IgualCF
           /\ CanalPasa(<<"cpu", "memoria">>, w) =>
                 cm' = w /\ mc' = mc /\ IgualKC /\ IgualKF /\ IgualKM /\ IgualFM
                   /\ IgualCF
           /\ CanalPasa(<<"memoria", "cpu">>, w) =>
                 mc' = w /\ cm' = cm /\ IgualKC /\ IgualKF /\ IgualKM /\ IgualFM
                   /\ IgualCF
           /\ CanalPasa(<<"fs", "memoria">>, w) =>
                 fm' = w /\ mf' = mf /\ IgualKC /\ IgualKF /\ IgualKM /\ IgualCM
                   /\ IgualCF
           /\ CanalPasa(<<"memoria", "fs">>, w) =>
                 mf' = w /\ fm' = fm /\ IgualKC /\ IgualKF /\ IgualKM /\ IgualCM
                   /\ IgualCF
<1> USE DEF CanalPasa, kc, ck, kf, fk, km, mk, cm, mc, fm, mf, cf, fc, IgualKC,
           IgualKF, IgualKM, IgualCM, IgualFM, IgualCF
<1>2. ASSUME CanalPasa(<<"kernel", "cpu">>, w)
      PROVE  kc' = w /\ ck' = ck /\ IgualKF /\ IgualKM /\ IgualCM /\ IgualFM
               /\ IgualCF
  BY CanalesSon, <1>2
<1>3. ASSUME CanalPasa(<<"cpu", "kernel">>, w)
      PROVE  ck' = w /\ kc' = kc /\ IgualKF /\ IgualKM /\ IgualCM /\ IgualFM
               /\ IgualCF
  BY CanalesSon, <1>3
<1>4. ASSUME CanalPasa(<<"kernel", "fs">>, w)
      PROVE  kf' = w /\ fk' = fk /\ IgualKC /\ IgualKM /\ IgualCM /\ IgualFM
               /\ IgualCF
  BY CanalesSon, <1>4
<1>5. ASSUME CanalPasa(<<"fs", "kernel">>, w)
      PROVE  fk' = w /\ kf' = kf /\ IgualKC /\ IgualKM /\ IgualCM /\ IgualFM
               /\ IgualCF
  BY CanalesSon, <1>5
<1>6. ASSUME CanalPasa(<<"kernel", "memoria">>, w)
      PROVE  km' = w /\ mk' = mk /\ IgualKC /\ IgualKF /\ IgualCM /\ IgualFM
               /\ IgualCF
  BY CanalesSon, <1>6
<1>7. ASSUME CanalPasa(<<"memoria", "kernel">>, w)
      PROVE  mk' = w /\ km' = km /\ IgualKC /\ IgualKF /\ IgualCM /\ IgualFM
               /\ IgualCF
  BY CanalesSon, <1>7
<1>8. ASSUME CanalPasa(<<"cpu", "memoria">>, w)
      PROVE  cm' = w /\ mc' = mc /\ IgualKC /\ IgualKF /\ IgualKM /\ IgualFM
               /\ IgualCF
  BY CanalesSon, <1>8
<1>9. ASSUME CanalPasa(<<"memoria", "cpu">>, w)
      PROVE  mc' = w /\ cm' = cm /\ IgualKC /\ IgualKF /\ IgualKM /\ IgualFM
               /\ IgualCF
  BY CanalesSon, <1>9
<1>10. ASSUME CanalPasa(<<"fs", "memoria">>, w)
       PROVE  fm' = w /\ mf' = mf /\ IgualKC /\ IgualKF /\ IgualKM /\ IgualCM
                /\ IgualCF
  BY CanalesSon, <1>10
<1>11. ASSUME CanalPasa(<<"memoria", "fs">>, w)
       PROVE  mf' = w /\ fm' = fm /\ IgualKC /\ IgualKF /\ IgualKM /\ IgualCM
                /\ IgualCF
  BY CanalesSon, <1>11
<1> QED
  BY <1>2, <1>3, <1>4, <1>5, <1>6, <1>7, <1>8, <1>9, <1>10, <1>11
-----------------------------------------------------------------------------
(* The next call of each handler, and what is left after it *)

\* One lemma per handler: at each of its calls, which one it is and where the
\* thread goes after it.

\* At the first call all of them are left.
LEMMA AlEmpezar ==
    ASSUME NEW h, NEW s \in Seq(Llamadas)
    PROVE  En(h, s, 0) <=> por[h] = s
BY QuedaTodoONada DEF En

\* Call k of s is x, and j = k + 1 are made with it; or x is the last of s.
Paso(s, k, j, x) ==
    s \in Seq(Llamadas) /\ k \in 0..Len(s) - 1 /\ j = k + 1 /\ j # Len(s)
      /\ s[j] = x
Ultima(s, k, x) ==
    s \in Seq(Llamadas) /\ k \in 0..Len(s) - 1 /\ k + 1 = Len(s) /\ s[k + 1] = x

\* The next call of a thread, from its position.
LEMMA Ahi ==
    ASSUME Tipos, NEW h \in Hilos, NEW s, NEW k, NEW x, En(h, s, k)
    PROVE  /\ \A j : Paso(s, k, j, x) => Toca(h, x, Quedan(s, j))
           /\ Ultima(s, k, x) => Toca(h, x, Bucle[h]) /\ TocaUltima(h, x)
BY EnPosicion DEF Paso, Ultima, Tras

LEMMA ReadyToca ==
    ASSUME Tipos
    PROVE  /\ EnBucle("ready") =>
                 Toca("ready", solo("sem_wait"),
                   Quedan(enviar_proceso_a_ready, 1))
           /\ En("ready", enviar_proceso_a_ready, 1) =>
                 Toca("ready", solo("lock"), Quedan(enviar_proceso_a_ready, 2))
           /\ En("ready", enviar_proceso_a_ready, 2) =>
                 Toca("ready", envia("kernel", "memoria", Op.AUX_CREATE_PCB,
                   Entero), Quedan(enviar_proceso_a_ready, 3))
           /\ En("ready", enviar_proceso_a_ready, 3) =>
                 Toca("ready", recibe("memoria", "kernel"),
                   Quedan(enviar_proceso_a_ready, 4))
           /\ En("ready", enviar_proceso_a_ready, 4) =>
                 Toca("ready", recibeBuffer("memoria", "kernel"),
                   Quedan(enviar_proceso_a_ready, 5))
           /\ En("ready", enviar_proceso_a_ready, 5) =>
                 Toca("ready", solo("unlock"), Bucle["ready"])
<1>1. /\ Paso(enviar_proceso_a_ready, 0, 1, solo("sem_wait"))
      /\ Paso(enviar_proceso_a_ready, 1, 2, solo("lock"))
      /\ Paso(enviar_proceso_a_ready, 2, 3,
           envia("kernel", "memoria", Op.AUX_CREATE_PCB, Entero))
      /\ Paso(enviar_proceso_a_ready, 3, 4, recibe("memoria", "kernel"))
      /\ Paso(enviar_proceso_a_ready, 4, 5, recibeBuffer("memoria", "kernel"))
      /\ Ultima(enviar_proceso_a_ready, 5, solo("unlock"))
  BY ReadyLlama DEF Paso, Ultima
<1>2. "ready" \in Hilos
  BY HilosSon
<1>3. EnBucle("ready") => En("ready", enviar_proceso_a_ready, 0)
  BY ReadyLlama, AlEmpezar DEF Bucle, EnBucle
<1> QED
  BY <1>1, <1>2, <1>3, Ahi

LEMMA DesalojoToca ==
    ASSUME Tipos
    PROVE  /\ EnBucle("desalojo") =>
                 Toca("desalojo", envia("kernel", "cpu", Op.OP_EXECUTE_PCB,
                   Pcb), Quedan(manejo_desalojo_pcb, 1))
           /\ En("desalojo", manejo_desalojo_pcb, 1) =>
                 TocaUltima("desalojo",
                   mira("cpu", "kernel", "manejo_instrucciones"))
<1>1. /\ Paso(manejo_desalojo_pcb, 0, 1,
           envia("kernel", "cpu", Op.OP_EXECUTE_PCB, Pcb))
      /\ Ultima(manejo_desalojo_pcb, 1,
           mira("cpu", "kernel", "manejo_instrucciones"))
  BY DesalojoLlama DEF Paso, Ultima
<1>2. "desalojo" \in Hilos
  BY HilosSon
<1>3. EnBucle("desalojo") => En("desalojo", manejo_desalojo_pcb, 0)
  BY DesalojoLlama, AlEmpezar DEF Bucle, EnBucle
<1> QED
  BY <1>1, <1>2, <1>3, Ahi

LEMMA AtenderKernelToca ==
    ASSUME Tipos
    PROVE  /\ EnBucle("cpu") =>
                 Toca("cpu", recibe("kernel", "cpu"), Quedan(atender_kernel, 1))
           /\ En("cpu", atender_kernel, 1) =>
                 Toca("cpu", recibeBuffer("kernel", "cpu"),
                   Quedan(atender_kernel, 2))
           /\ En("cpu", atender_kernel, 2) =>
                 TocaUltima("cpu", elige("instruccion"))
<1>1. /\ Paso(atender_kernel, 0, 1, recibe("kernel", "cpu"))
      /\ Paso(atender_kernel, 1, 2, recibeBuffer("kernel", "cpu"))
      /\ Ultima(atender_kernel, 2, elige("instruccion"))
  BY AtenderKernelLlama DEF Paso, Ultima
<1>2. "cpu" \in Hilos
  BY HilosSon
<1>3. EnBucle("cpu") => En("cpu", atender_kernel, 0)
  BY AtenderKernelLlama, AlEmpezar DEF Bucle, EnBucle
<1> QED
  BY <1>1, <1>2, <1>3, Ahi

LEMMA FsToca ==
    ASSUME Tipos
    PROVE  /\ EnBucle("fs") =>
                 TocaUltima("fs", mira("kernel", "fs", "fs"))
<1>1. /\ Ultima(Bucle.fs, 0, mira("kernel", "fs", "fs"))
  BY FsLlama DEF Paso, Ultima
<1>2. "fs" \in Hilos
  BY HilosSon
<1>3. EnBucle("fs") => En("fs", Bucle.fs, 0)
  BY FsLlama, AlEmpezar DEF Bucle, EnBucle
<1> QED
  BY <1>1, <1>2, <1>3, Ahi

LEMMA PedidosFsToca ==
    ASSUME Tipos
    PROVE  /\ EnBucle("pedidos_fs") =>
                 Toca("pedidos_fs", recibe("fs", "memoria"),
                   Quedan(Bucle.pedidos_fs, 1))
           /\ En("pedidos_fs", Bucle.pedidos_fs, 1) =>
                 TocaUltima("pedidos_fs", mira("fs", "memoria", "pedidos_fs"))
<1>1. /\ Paso(Bucle.pedidos_fs, 0, 1, recibe("fs", "memoria"))
      /\ Ultima(Bucle.pedidos_fs, 1, mira("fs", "memoria", "pedidos_fs"))
  BY PedidosFsLlama DEF Paso, Ultima
<1>2. "pedidos_fs" \in Hilos
  BY HilosSon
<1>3. EnBucle("pedidos_fs") => En("pedidos_fs", Bucle.pedidos_fs, 0)
  BY PedidosFsLlama, AlEmpezar DEF Bucle, EnBucle
<1> QED
  BY <1>1, <1>2, <1>3, Ahi

LEMMA PedidosCpuToca ==
    ASSUME Tipos
    PROVE  /\ EnBucle("pedidos_cpu") =>
                 TocaUltima("pedidos_cpu",
                   mira("cpu", "memoria", "pedidos_cpu"))
<1>1. /\ Ultima(Bucle.pedidos_cpu, 0, mira("cpu", "memoria", "pedidos_cpu"))
  BY PedidosCpuLlama DEF Paso, Ultima
<1>2. "pedidos_cpu" \in Hilos
  BY HilosSon
<1>3. EnBucle("pedidos_cpu") => En("pedidos_cpu", Bucle.pedidos_cpu, 0)
  BY PedidosCpuLlama, AlEmpezar DEF Bucle, EnBucle
<1> QED
  BY <1>1, <1>2, <1>3, Ahi

LEMMA PedidosKernelToca ==
    ASSUME Tipos
    PROVE  /\ EnBucle("pedidos_kernel") =>
                 TocaUltima("pedidos_kernel",
                   mira("kernel", "memoria", "pedidos_kernel"))
<1>1. /\ Ultima(Bucle.pedidos_kernel, 0,
           mira("kernel", "memoria", "pedidos_kernel"))
  BY PedidosKernelLlama DEF Paso, Ultima
<1>2. "pedidos_kernel" \in Hilos
  BY HilosSon
<1>3. EnBucle("pedidos_kernel") => En("pedidos_kernel", Bucle.pedidos_kernel, 0)
  BY PedidosKernelLlama, AlEmpezar DEF Bucle, EnBucle
<1> QED
  BY <1>1, <1>2, <1>3, Ahi

LEMMA AbrirToca ==
    ASSUME Tipos
    PROVE  /\ En("desalojo", Abrir, 0) =>
                 Toca("desalojo", recibeBuffer("cpu", "kernel"),
                   Quedan(Abrir, 1))
           /\ En("desalojo", Abrir, 1) =>
                 Toca("desalojo", envia("kernel", "fs", Op.I_F_OPEN, Nombre),
                   Quedan(Abrir, 2))
           /\ En("desalojo", Abrir, 2) =>
                 TocaUltima("desalojo", mira("fs", "kernel", "f_open"))
<1>1. /\ Paso(Abrir, 0, 1, recibeBuffer("cpu", "kernel"))
      /\ Paso(Abrir, 1, 2, envia("kernel", "fs", Op.I_F_OPEN, Nombre))
      /\ Ultima(Abrir, 2, mira("fs", "kernel", "f_open"))
  BY AbrirLlama DEF Paso, Ultima
<1>2. "desalojo" \in Hilos
  BY HilosSon
<1> QED
  BY <1>1, <1>2, Ahi

LEMMA TruncarToca ==
    ASSUME Tipos
    PROVE  /\ En("desalojo", Truncar, 0) =>
                 Toca("desalojo", recibeBuffer("cpu", "kernel"),
                   Quedan(Truncar, 1))
           /\ En("desalojo", Truncar, 1) =>
                 Toca("desalojo", envia("kernel", "fs", Op.I_TRUNCATE,
                   Nombre \o Cifras), Quedan(Truncar, 2))
           /\ En("desalojo", Truncar, 2) =>
                 Toca("desalojo", recibe("fs", "kernel"), Quedan(Truncar, 3))
           /\ En("desalojo", Truncar, 3) =>
                 Toca("desalojo", recibe("fs", "kernel"), Bucle["desalojo"])
<1>1. /\ Paso(Truncar, 0, 1, recibeBuffer("cpu", "kernel"))
      /\ Paso(Truncar, 1, 2, envia("kernel", "fs", Op.I_TRUNCATE,
           Nombre \o Cifras))
      /\ Paso(Truncar, 2, 3, recibe("fs", "kernel"))
      /\ Ultima(Truncar, 3, recibe("fs", "kernel"))
  BY TruncarLlama DEF Paso, Ultima
<1>2. "desalojo" \in Hilos
  BY HilosSon
<1> QED
  BY <1>1, <1>2, Ahi

LEMMA CrearToca ==
    ASSUME Tipos
    PROVE  /\ En("desalojo", Crear, 0) =>
                 Toca("desalojo", recibeBuffer("cpu", "kernel"),
                   Quedan(Crear, 1))
           /\ En("desalojo", Crear, 1) =>
                 Toca("desalojo", solo("lock"), Quedan(Crear, 2))
           /\ En("desalojo", Crear, 2) =>
                 Toca("desalojo", envia("kernel", "memoria",
                   Op.I_CREATE_SEGMENT, Pcb), Quedan(Crear, 3))
           /\ En("desalojo", Crear, 3) =>
                 Toca("desalojo", envia("kernel", "memoria",
                   Op.I_CREATE_SEGMENT, Entero \o Entero), Quedan(Crear, 4))
           /\ En("desalojo", Crear, 4) =>
                 TocaUltima("desalojo", mira("memoria", "kernel", "crear"))
<1>1. /\ Paso(Crear, 0, 1, recibeBuffer("cpu", "kernel"))
      /\ Paso(Crear, 1, 2, solo("lock"))
      /\ Paso(Crear, 2, 3, envia("kernel", "memoria", Op.I_CREATE_SEGMENT, Pcb))
      /\ Paso(Crear, 3, 4, envia("kernel", "memoria", Op.I_CREATE_SEGMENT,
           Entero \o Entero))
      /\ Ultima(Crear, 4, mira("memoria", "kernel", "crear"))
  BY CrearLlama DEF Paso, Ultima
<1>2. "desalojo" \in Hilos
  BY HilosSon
<1> QED
  BY <1>1, <1>2, Ahi

LEMMA BorrarToca ==
    ASSUME Tipos
    PROVE  /\ En("desalojo", Borrar, 0) =>
                 Toca("desalojo", recibeBuffer("cpu", "kernel"),
                   Quedan(Borrar, 1))
           /\ En("desalojo", Borrar, 1) =>
                 Toca("desalojo", solo("lock"), Quedan(Borrar, 2))
           /\ En("desalojo", Borrar, 2) =>
                 Toca("desalojo", envia("kernel", "memoria",
                   Op.I_DELETE_SEGMENT, Pcb), Quedan(Borrar, 3))
           /\ En("desalojo", Borrar, 3) =>
                 Toca("desalojo", envia("kernel", "memoria",
                   Op.I_DELETE_SEGMENT, Entero), Quedan(Borrar, 4))
           /\ En("desalojo", Borrar, 4) =>
                 TocaUltima("desalojo", mira("memoria", "kernel", "borrar"))
<1>1. /\ Paso(Borrar, 0, 1, recibeBuffer("cpu", "kernel"))
      /\ Paso(Borrar, 1, 2, solo("lock"))
      /\ Paso(Borrar, 2, 3, envia("kernel", "memoria", Op.I_DELETE_SEGMENT,
           Pcb))
      /\ Paso(Borrar, 3, 4, envia("kernel", "memoria", Op.I_DELETE_SEGMENT,
           Entero))
      /\ Ultima(Borrar, 4, mira("memoria", "kernel", "borrar"))
  BY BorrarLlama DEF Paso, Ultima
<1>2. "desalojo" \in Hilos
  BY HilosSon
<1> QED
  BY <1>1, <1>2, Ahi

LEMMA OtraToca ==
    ASSUME Tipos
    PROVE  /\ En("desalojo", Otra, 0) =>
                 Toca("desalojo", recibeBuffer("cpu", "kernel"),
                   Bucle["desalojo"])
<1>1. /\ Ultima(Otra, 0, recibeBuffer("cpu", "kernel"))
  BY OtraLlama DEF Paso, Ultima
<1>2. "desalojo" \in Hilos
  BY HilosSon
<1> QED
  BY <1>1, <1>2, Ahi

LEMMA AbiertoToca ==
    ASSUME Tipos
    PROVE  /\ En("desalojo", TrasAbrir(Op.AUX_OK), 0) =>
                 Toca("desalojo", recibe("fs", "kernel"), Bucle["desalojo"])
<1>1. /\ Ultima(TrasAbrir(Op.AUX_OK), 0, recibe("fs", "kernel"))
  BY AbiertoLlama DEF Paso, Ultima
<1>2. "desalojo" \in Hilos
  BY HilosSon
<1> QED
  BY <1>1, <1>2, Ahi

LEMMA NoAbiertoToca ==
    ASSUME Tipos
    PROVE  /\ En("desalojo", NoAbierto, 0) =>
                 Toca("desalojo", recibe("fs", "kernel"), Quedan(NoAbierto, 1))
           /\ En("desalojo", NoAbierto, 1) =>
                 Toca("desalojo", envia("kernel", "fs", Op.KERNEL_CREAR_ARCHIVO,
                   Nombre), Quedan(NoAbierto, 2))
           /\ En("desalojo", NoAbierto, 2) =>
                 Toca("desalojo", recibe("fs", "kernel"), Quedan(NoAbierto, 3))
           /\ En("desalojo", NoAbierto, 3) =>
                 Toca("desalojo", recibe("fs", "kernel"), Bucle["desalojo"])
<1>1. /\ Paso(NoAbierto, 0, 1, recibe("fs", "kernel"))
      /\ Paso(NoAbierto, 1, 2, envia("kernel", "fs", Op.KERNEL_CREAR_ARCHIVO,
           Nombre))
      /\ Paso(NoAbierto, 2, 3, recibe("fs", "kernel"))
      /\ Ultima(NoAbierto, 3, recibe("fs", "kernel"))
  BY NoAbiertoLlama DEF Paso, Ultima
<1>2. "desalojo" \in Hilos
  BY HilosSon
<1> QED
  BY <1>1, <1>2, Ahi

LEMMA CreadoToca ==
    ASSUME Tipos
    PROVE  /\ En("desalojo", Creado, 0) =>
                 Toca("desalojo", recibeBuffer("memoria", "kernel"),
                   Quedan(Creado, 1))
           /\ En("desalojo", Creado, 1) =>
                 Toca("desalojo", solo("unlock"), Bucle["desalojo"])
<1>1. /\ Paso(Creado, 0, 1, recibeBuffer("memoria", "kernel"))
      /\ Ultima(Creado, 1, solo("unlock"))
  BY CreadoLlama DEF Paso, Ultima
<1>2. "desalojo" \in Hilos
  BY HilosSon
<1> QED
  BY <1>1, <1>2, Ahi

LEMMA CompactaToca ==
    ASSUME Tipos
    PROVE  /\ En("desalojo", Compacta, 0) =>
                 Toca("desalojo", envia("kernel", "memoria", Op.COMPACTACION,
                   <<>>), Quedan(Compacta, 1))
           /\ En("desalojo", Compacta, 1) =>
                 Toca("desalojo", recibe("memoria", "kernel"),
                   Quedan(Compacta, 2))
           /\ En("desalojo", Compacta, 2) =>
                 Toca("desalojo", recibe("memoria", "kernel"),
                   Quedan(Compacta, 3))
           /\ En("desalojo", Compacta, 3) =>
                 Toca("desalojo", recibeBuffer("memoria", "kernel"),
                   Quedan(Compacta, 4))
           /\ En("desalojo", Compacta, 4) =>
                 Toca("desalojo", solo("unlock"), Quedan(Compacta, 5))
           /\ En("desalojo", Compacta, 5) =>
                 Toca("desalojo", solo("lock"), Quedan(Compacta, 6))
           /\ En("desalojo", Compacta, 6) =>
                 Toca("desalojo", envia("kernel", "memoria",
                   Op.I_CREATE_SEGMENT, Pcb), Quedan(Compacta, 7))
           /\ En("desalojo", Compacta, 7) =>
                 Toca("desalojo", envia("kernel", "memoria",
                   Op.I_CREATE_SEGMENT, Entero \o Entero), Quedan(Compacta, 8))
           /\ En("desalojo", Compacta, 8) =>
                 TocaUltima("desalojo",
                   mira("memoria", "kernel", "crear_de_nuevo"))
<1>1. /\ Paso(Compacta, 0, 1, envia("kernel", "memoria", Op.COMPACTACION, <<>>))
      /\ Paso(Compacta, 1, 2, recibe("memoria", "kernel"))
      /\ Paso(Compacta, 2, 3, recibe("memoria", "kernel"))
      /\ Paso(Compacta, 3, 4, recibeBuffer("memoria", "kernel"))
      /\ Paso(Compacta, 4, 5, solo("unlock"))
      /\ Paso(Compacta, 5, 6, solo("lock"))
      /\ Paso(Compacta, 6, 7, envia("kernel", "memoria", Op.I_CREATE_SEGMENT,
           Pcb))
      /\ Paso(Compacta, 7, 8, envia("kernel", "memoria", Op.I_CREATE_SEGMENT,
           Entero \o Entero))
      /\ Ultima(Compacta, 8, mira("memoria", "kernel", "crear_de_nuevo"))
  BY CompactaLlama DEF Paso, Ultima
<1>2. "desalojo" \in Hilos
  BY HilosSon
<1> QED
  BY <1>1, <1>2, Ahi

LEMMA CompactaOtraVezToca ==
    ASSUME Tipos
    PROVE  /\ En("desalojo", CompactaOtraVez, 0) =>
                 Toca("desalojo", envia("kernel", "memoria", Op.COMPACTACION,
                   <<>>), Quedan(CompactaOtraVez, 1))
           /\ En("desalojo", CompactaOtraVez, 1) =>
                 Toca("desalojo", recibe("memoria", "kernel"),
                   Quedan(CompactaOtraVez, 2))
           /\ En("desalojo", CompactaOtraVez, 2) =>
                 Toca("desalojo", recibe("memoria", "kernel"),
                   Quedan(CompactaOtraVez, 3))
           /\ En("desalojo", CompactaOtraVez, 3) =>
                 Toca("desalojo", recibeBuffer("memoria", "kernel"),
                   Quedan(CompactaOtraVez, 4))
           /\ En("desalojo", CompactaOtraVez, 4) =>
                 Toca("desalojo", solo("unlock"), Bucle["desalojo"])
<1>1. /\ Paso(CompactaOtraVez, 0, 1,
           envia("kernel", "memoria", Op.COMPACTACION, <<>>))
      /\ Paso(CompactaOtraVez, 1, 2, recibe("memoria", "kernel"))
      /\ Paso(CompactaOtraVez, 2, 3, recibe("memoria", "kernel"))
      /\ Paso(CompactaOtraVez, 3, 4, recibeBuffer("memoria", "kernel"))
      /\ Ultima(CompactaOtraVez, 4, solo("unlock"))
  BY CompactaOtraVezLlama DEF Paso, Ultima
<1>2. "desalojo" \in Hilos
  BY HilosSon
<1> QED
  BY <1>1, <1>2, Ahi

LEMMA BorradoToca ==
    ASSUME Tipos
    PROVE  /\ En("desalojo", Borrado, 0) =>
                 Toca("desalojo", recibeBuffer("memoria", "kernel"),
                   Quedan(Borrado, 1))
           /\ En("desalojo", Borrado, 1) =>
                 Toca("desalojo", solo("unlock"), Bucle["desalojo"])
<1>1. /\ Paso(Borrado, 0, 1, recibeBuffer("memoria", "kernel"))
      /\ Ultima(Borrado, 1, solo("unlock"))
  BY BorradoLlama DEF Paso, Ultima
<1>2. "desalojo" \in Hilos
  BY HilosSon
<1> QED
  BY <1>1, <1>2, Ahi

LEMMA MovInToca ==
    ASSUME Tipos
    PROVE  /\ En("cpu", MovIn, 0) =>
                 Toca("cpu", envia("cpu", "memoria", Op.I_MOV_IN,
                   Entero \o Entero \o Entero), Quedan(MovIn, 1))
           /\ En("cpu", MovIn, 1) =>
                 Toca("cpu", recibe("memoria", "cpu"), Quedan(MovIn, 2))
           /\ En("cpu", MovIn, 2) =>
                 Toca("cpu", recibeBuffer("memoria", "cpu"), Quedan(MovIn, 3))
           /\ En("cpu", MovIn, 3) =>
                 TocaUltima("cpu", elige("instruccion"))
<1>1. /\ Paso(MovIn, 0, 1, envia("cpu", "memoria", Op.I_MOV_IN,
           Entero \o Entero \o Entero))
      /\ Paso(MovIn, 1, 2, recibe("memoria", "cpu"))
      /\ Paso(MovIn, 2, 3, recibeBuffer("memoria", "cpu"))
      /\ Ultima(MovIn, 3, elige("instruccion"))
  BY MovInLlama DEF Paso, Ultima
<1>2. "cpu" \in Hilos
  BY HilosSon
<1> QED
  BY <1>1, <1>2, Ahi

LEMMA MovOutToca ==
    ASSUME Tipos
    PROVE  /\ En("cpu", MovOut, 0) =>
                 Toca("cpu", envia("cpu", "memoria", Op.I_MOV_OUT,
                   Entero \o Entero \o Entero \o Nombre), Quedan(MovOut, 1))
           /\ En("cpu", MovOut, 1) =>
                 Toca("cpu", recibe("memoria", "cpu"), Quedan(MovOut, 2))
           /\ En("cpu", MovOut, 2) =>
                 Toca("cpu", recibe("memoria", "cpu"), Quedan(MovOut, 3))
           /\ En("cpu", MovOut, 3) =>
                 TocaUltima("cpu", elige("instruccion"))
<1>1. /\ Paso(MovOut, 0, 1, envia("cpu", "memoria", Op.I_MOV_OUT,
           Entero \o Entero \o Entero \o Nombre))
      /\ Paso(MovOut, 1, 2, recibe("memoria", "cpu"))
      /\ Paso(MovOut, 2, 3, recibe("memoria", "cpu"))
      /\ Ultima(MovOut, 3, elige("instruccion"))
  BY MovOutLlama DEF Paso, Ultima
<1>2. "cpu" \in Hilos
  BY HilosSon
<1> QED
  BY <1>1, <1>2, Ahi

LEMMA DevolverToca ==
    ASSUME Tipos, NEW op \in Int, op \notin {Op.I_F_READ, Op.I_F_WRITE}
    PROVE  /\ En("cpu", Devolver(op), 0) =>
                 Toca("cpu", envia("cpu", "kernel", op, Pcb), Bucle["cpu"])
<1>1. /\ Ultima(Devolver(op), 0, envia("cpu", "kernel", op, Pcb))
  BY DevolverLlama DEF Paso, Ultima
<1>2. "cpu" \in Hilos
  BY HilosSon
<1> QED
  BY <1>1, <1>2, Ahi

LEMMA FsPedidoToca ==
    ASSUME Tipos, NEW op \in {Op.KERNEL_CREAR_ARCHIVO, Op.I_F_OPEN,
           Op.I_TRUNCATE}
    PROVE  /\ En("fs", ejecutar_instrucciones_kernel(op), 0) =>
                 Toca("fs", recibeBuffer("kernel", "fs"),
                   Quedan(ejecutar_instrucciones_kernel(op), 1))
           /\ En("fs", ejecutar_instrucciones_kernel(op), 1) =>
                 TocaUltima("fs", elige("confirmar"))
<1>1. /\ Paso(ejecutar_instrucciones_kernel(op), 0, 1,
           recibeBuffer("kernel", "fs"))
      /\ Ultima(ejecutar_instrucciones_kernel(op), 1, elige("confirmar"))
  BY FsPedidoLlama DEF Paso, Ultima
<1>2. "fs" \in Hilos
  BY HilosSon
<1> QED
  BY <1>1, <1>2, Ahi

LEMMA ConfirmarToca ==
    ASSUME Tipos, NEW r \in Int
    PROVE  /\ En("fs", Confirmar(r), 0) =>
                 Toca("fs", envia("fs", "kernel", r, <<>>), Bucle["fs"])
<1>1. /\ Ultima(Confirmar(r), 0, envia("fs", "kernel", r, <<>>))
  BY ConfirmarLlama DEF Paso, Ultima
<1>2. "fs" \in Hilos
  BY HilosSon
<1> QED
  BY <1>1, <1>2, Ahi

LEMMA PedidoMovInToca ==
    ASSUME Tipos
    PROVE  /\ En("pedidos_cpu", ejecutar_cpu_pedido(Op.I_MOV_IN), 0) =>
                 Toca("pedidos_cpu", recibeBuffer("cpu", "memoria"),
                   Quedan(ejecutar_cpu_pedido(Op.I_MOV_IN), 1))
           /\ En("pedidos_cpu", ejecutar_cpu_pedido(Op.I_MOV_IN), 1) =>
                 Toca("pedidos_cpu", envia("memoria", "cpu", Op.AUX_OK, Nombre),
                   Bucle["pedidos_cpu"])
<1>1. /\ Paso(ejecutar_cpu_pedido(Op.I_MOV_IN), 0, 1,
           recibeBuffer("cpu", "memoria"))
      /\ Ultima(ejecutar_cpu_pedido(Op.I_MOV_IN), 1,
           envia("memoria", "cpu", Op.AUX_OK, Nombre))
  BY PedidoMovInLlama DEF Paso, Ultima
<1>2. "pedidos_cpu" \in Hilos
  BY HilosSon
<1> QED
  BY <1>1, <1>2, Ahi

LEMMA PedidoMovOutToca ==
    ASSUME Tipos
    PROVE  /\ En("pedidos_cpu", ejecutar_cpu_pedido(Op.I_MOV_OUT), 0) =>
                 Toca("pedidos_cpu", recibeBuffer("cpu", "memoria"),
                   Quedan(ejecutar_cpu_pedido(Op.I_MOV_OUT), 1))
           /\ En("pedidos_cpu", ejecutar_cpu_pedido(Op.I_MOV_OUT), 1) =>
                 Toca("pedidos_cpu", envia("memoria", "cpu", Op.AUX_OK, <<>>),
                   Bucle["pedidos_cpu"])
<1>1. /\ Paso(ejecutar_cpu_pedido(Op.I_MOV_OUT), 0, 1,
           recibeBuffer("cpu", "memoria"))
      /\ Ultima(ejecutar_cpu_pedido(Op.I_MOV_OUT), 1,
           envia("memoria", "cpu", Op.AUX_OK, <<>>))
  BY PedidoMovOutLlama DEF Paso, Ultima
<1>2. "pedidos_cpu" \in Hilos
  BY HilosSon
<1> QED
  BY <1>1, <1>2, Ahi

LEMMA PedidoPcbToca ==
    ASSUME Tipos
    PROVE  /\ En("pedidos_kernel", ejecutar_kernel_pedido(Op.AUX_CREATE_PCB),
                0) =>
                 Toca("pedidos_kernel", recibeBuffer("kernel", "memoria"),
                   Quedan(ejecutar_kernel_pedido(Op.AUX_CREATE_PCB), 1))
           /\ En("pedidos_kernel", ejecutar_kernel_pedido(Op.AUX_CREATE_PCB),
                1) =>
                 Toca("pedidos_kernel",
                   envia("memoria", "kernel", Op.AUX_CREATE_PCB, Tabla),
                     Bucle["pedidos_kernel"])
<1>1. /\ Paso(ejecutar_kernel_pedido(Op.AUX_CREATE_PCB), 0, 1,
           recibeBuffer("kernel", "memoria"))
      /\ Ultima(ejecutar_kernel_pedido(Op.AUX_CREATE_PCB), 1,
           envia("memoria", "kernel", Op.AUX_CREATE_PCB, Tabla))
  BY PedidoPcbLlama DEF Paso, Ultima
<1>2. "pedidos_kernel" \in Hilos
  BY HilosSon
<1> QED
  BY <1>1, <1>2, Ahi

LEMMA PedidoCrearToca ==
    ASSUME Tipos
    PROVE  /\ En("pedidos_kernel", ejecutar_kernel_pedido(Op.I_CREATE_SEGMENT),
                0) =>
                 Toca("pedidos_kernel", recibeBuffer("kernel", "memoria"),
                   Quedan(ejecutar_kernel_pedido(Op.I_CREATE_SEGMENT), 1))
           /\ En("pedidos_kernel", ejecutar_kernel_pedido(Op.I_CREATE_SEGMENT),
                1) =>
                 Toca("pedidos_kernel", recibe("kernel", "memoria"),
                   Quedan(ejecutar_kernel_pedido(Op.I_CREATE_SEGMENT), 2))
           /\ En("pedidos_kernel", ejecutar_kernel_pedido(Op.I_CREATE_SEGMENT),
                2) =>
                 Toca("pedidos_kernel", recibeBuffer("kernel", "memoria"),
                   Quedan(ejecutar_kernel_pedido(Op.I_CREATE_SEGMENT), 3))
           /\ En("pedidos_kernel", ejecutar_kernel_pedido(Op.I_CREATE_SEGMENT),
                3) =>
                 TocaUltima("pedidos_kernel", elige("crear_segmento"))
<1>1. /\ Paso(ejecutar_kernel_pedido(Op.I_CREATE_SEGMENT), 0, 1,
           recibeBuffer("kernel", "memoria"))
      /\ Paso(ejecutar_kernel_pedido(Op.I_CREATE_SEGMENT), 1, 2,
           recibe("kernel", "memoria"))
      /\ Paso(ejecutar_kernel_pedido(Op.I_CREATE_SEGMENT), 2, 3,
           recibeBuffer("kernel", "memoria"))
      /\ Ultima(ejecutar_kernel_pedido(Op.I_CREATE_SEGMENT), 3,
           elige("crear_segmento"))
  BY PedidoCrearLlama DEF Paso, Ultima
<1>2. "pedidos_kernel" \in Hilos
  BY HilosSon
<1> QED
  BY <1>1, <1>2, Ahi

LEMMA PedidoBorrarToca ==
    ASSUME Tipos
    PROVE  /\ En("pedidos_kernel", ejecutar_kernel_pedido(Op.I_DELETE_SEGMENT),
                0) =>
                 Toca("pedidos_kernel", recibeBuffer("kernel", "memoria"),
                   Quedan(ejecutar_kernel_pedido(Op.I_DELETE_SEGMENT), 1))
           /\ En("pedidos_kernel", ejecutar_kernel_pedido(Op.I_DELETE_SEGMENT),
                1) =>
                 Toca("pedidos_kernel", recibe("kernel", "memoria"),
                   Quedan(ejecutar_kernel_pedido(Op.I_DELETE_SEGMENT), 2))
           /\ En("pedidos_kernel", ejecutar_kernel_pedido(Op.I_DELETE_SEGMENT),
                2) =>
                 Toca("pedidos_kernel", recibeBuffer("kernel", "memoria"),
                   Quedan(ejecutar_kernel_pedido(Op.I_DELETE_SEGMENT), 3))
           /\ En("pedidos_kernel", ejecutar_kernel_pedido(Op.I_DELETE_SEGMENT),
                3) =>
                 Toca("pedidos_kernel",
                   envia("memoria", "kernel", Op.AUX_OK, Tabla),
                     Bucle["pedidos_kernel"])
<1>1. /\ Paso(ejecutar_kernel_pedido(Op.I_DELETE_SEGMENT), 0, 1,
           recibeBuffer("kernel", "memoria"))
      /\ Paso(ejecutar_kernel_pedido(Op.I_DELETE_SEGMENT), 1, 2,
           recibe("kernel", "memoria"))
      /\ Paso(ejecutar_kernel_pedido(Op.I_DELETE_SEGMENT), 2, 3,
           recibeBuffer("kernel", "memoria"))
      /\ Ultima(ejecutar_kernel_pedido(Op.I_DELETE_SEGMENT), 3,
           envia("memoria", "kernel", Op.AUX_OK, Tabla))
  BY PedidoBorrarLlama DEF Paso, Ultima
<1>2. "pedidos_kernel" \in Hilos
  BY HilosSon
<1> QED
  BY <1>1, <1>2, Ahi

LEMMA CompactarToca ==
    ASSUME Tipos
    PROVE  /\ En("pedidos_kernel", Compactar, 0) =>
                 Toca("pedidos_kernel", recibe("kernel", "memoria"),
                   Quedan(Compactar, 1))
           /\ En("pedidos_kernel", Compactar, 1) =>
                 Toca("pedidos_kernel",
                   envia("memoria", "kernel", Op.AUX_OK, Tabla),
                     Bucle["pedidos_kernel"])
<1>1. /\ Paso(Compactar, 0, 1, recibe("kernel", "memoria"))
      /\ Ultima(Compactar, 1, envia("memoria", "kernel", Op.AUX_OK, Tabla))
  BY CompactarLlama DEF Paso, Ultima
<1>2. "pedidos_kernel" \in Hilos
  BY HilosSon
<1> QED
  BY <1>1, <1>2, Ahi

LEMMA CrearSegmentoToca ==
    ASSUME Tipos, NEW r \in Int
    PROVE  /\ En("pedidos_kernel", crear_segmento(r), 0) =>
                 Toca("pedidos_kernel",
                   envia("memoria", "kernel", r, DatosDe(r)),
                     Bucle["pedidos_kernel"])
<1>1. /\ Ultima(crear_segmento(r), 0, envia("memoria", "kernel", r, DatosDe(r)))
  BY CrearSegmentoLlama DEF Paso, Ultima
<1>2. "pedidos_kernel" \in Hilos
  BY HilosSon
<1> QED
  BY <1>1, <1>2, Ahi

LEMMA InicioKernelToca ==
    ASSUME Tipos
    PROVE  /\ En("kernel", Inicio.kernel, 0) =>
                 Toca("kernel", solo("lanzado"), Quedan(Inicio.kernel, 1))
           /\ En("kernel", Inicio.kernel, 1) =>
                 Toca("kernel", conecta("kernel", "memoria"),
                   Quedan(Inicio.kernel, 2))
           /\ En("kernel", Inicio.kernel, 2) =>
                 Toca("kernel", recibe("memoria", "kernel"),
                   Quedan(Inicio.kernel, 3))
           /\ En("kernel", Inicio.kernel, 3) =>
                 Toca("kernel", envia("kernel", "memoria", Op.AUX_SOY_KERNEL,
                   <<>>), Quedan(Inicio.kernel, 4))
           /\ En("kernel", Inicio.kernel, 4) =>
                 Toca("kernel", conecta("kernel", "cpu"),
                   Quedan(Inicio.kernel, 5))
           /\ En("kernel", Inicio.kernel, 5) =>
                 Toca("kernel", recibe("cpu", "kernel"),
                   Quedan(Inicio.kernel, 6))
           /\ En("kernel", Inicio.kernel, 6) =>
                 Toca("kernel", conecta("kernel", "fs"),
                   Quedan(Inicio.kernel, 7))
           /\ En("kernel", Inicio.kernel, 7) =>
                 Toca("kernel", recibe("fs", "kernel"),
                   Quedan(Inicio.kernel, 8))
           /\ En("kernel", Inicio.kernel, 8) =>
                 Toca("kernel", lanza({"ready", "desalojo"}),
                   Quedan(Inicio.kernel, 9))
<1>1. /\ Paso(Inicio.kernel, 0, 1, solo("lanzado"))
      /\ Paso(Inicio.kernel, 1, 2, conecta("kernel", "memoria"))
      /\ Paso(Inicio.kernel, 2, 3, recibe("memoria", "kernel"))
      /\ Paso(Inicio.kernel, 3, 4, envia("kernel", "memoria", Op.AUX_SOY_KERNEL,
           <<>>))
      /\ Paso(Inicio.kernel, 4, 5, conecta("kernel", "cpu"))
      /\ Paso(Inicio.kernel, 5, 6, recibe("cpu", "kernel"))
      /\ Paso(Inicio.kernel, 6, 7, conecta("kernel", "fs"))
      /\ Paso(Inicio.kernel, 7, 8, recibe("fs", "kernel"))
      /\ Paso(Inicio.kernel, 8, 9, lanza({"ready", "desalojo"}))
      /\ Ultima(Inicio.kernel, 9, solo("fin"))
  BY InicioKernelLlama DEF Paso, Ultima
<1>2. "kernel" \in Hilos
  BY HilosSon
<1> QED
  BY <1>1, <1>2, Ahi

=============================================================================
