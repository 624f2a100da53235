--------------------------- MODULE MCKeyboardTask ---------------------------
(***************************************************************************)
(* Instances of KeyboardTask for TLC: the two tasks of kernel_main.        *)
(***************************************************************************)
EXTENDS KeyboardTask

MCTasks == {"example", "keyboard"}

KernelMainOrder == <<"example", "keyboard">>
=============================================================================
