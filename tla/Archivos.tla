------------------------------ MODULE Archivos ------------------------------
(***************************************************************************)
(* FileSystem as a system of files: each is the words its FCB leads to,    *)
(* and the blocks, the bitmap and the FCBs are how they are kept.          *)
(***************************************************************************)
EXTENDS FileSystem

Durables == INSTANCE ArchivosDurables WITH archivo <- archivos

\* The FileSystem keeps the promise of ArchivosDurables, through requests and
\* crashes, of every file that is whole.
ImplementaArchivos == Durables!Spec

=============================================================================
