---------------------------- MODULE MCFileSystem -----------------------------
(***************************************************************************)
(* Small instances of FileSystem.                                          *)
(***************************************************************************)
EXTENDS FileSystem, TLC

\* A piece of the first block, and one that crosses into the second.
AccesosQueCruzan == {<<1, 1>>, <<1, 3>>}
SinAccesos == {}
Simetria == Permutations(Archivo)

=============================================================================
