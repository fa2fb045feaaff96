------------------------------ MODULE MCFuse9p ------------------------------
(* Fuse9p with three files: the root is the server's file 2, and its file  *)
(* 1 takes the number 2 for the kernel.                                    *)
EXTENDS Fuse9p

ThreeFiles == {1, 2, 3}

=============================================================================
