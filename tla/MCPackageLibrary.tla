-------------------------- MODULE MCPackageLibrary --------------------------
(* Accounts, and contents with the same kind of configuration, are          *)
(* interchangeable in PackageLibrary and its properties.                    *)
EXTENDS PackageLibrary, TLC

Symmetric == Permutations(Owner) \union Permutations(Content \ Yaml)
=============================================================================
