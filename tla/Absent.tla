--------------------------------- MODULE Absent ---------------------------------
(* The value that stands for Python's None, shared by modules that are       *)
(* checked side by side.                                                     *)
CONSTANT None
===============================================================================
