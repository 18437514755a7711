----------------------------- MODULE MCInstaller -----------------------------
(* Instances of Installer for TLC: the archive file holds a good package,  *)
(* one without the gfx906 markers, or one whose ELF files do not resolve.  *)
EXTENDS Installer, TLC

CONSTANTS good, unmarked, unsound

MCContents == {good, unmarked, unsound}
MCMarked == {good, unsound}
MCSound == {good, unmarked}

(* Without a faulty archive: the runs that are not about its content. *)
GoodOnly == {good}

(* Invocations are interchangeable: no property names one of them. *)
Symmetry == Permutations(Installers)
=============================================================================
