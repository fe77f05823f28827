------------------------------ MODULE MCSidebar ------------------------------
(* A small instance of Sidebar for TLC.                                    *)
EXTENDS Sidebar
=============================================================================
