--------------------------- MODULE MCToolActivity ---------------------------
(* ToolActivity for Python and one other tool and files of three lines.     *)
EXTENDS ToolActivity
=============================================================================
