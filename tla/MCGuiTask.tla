----------------------------- MODULE MCGuiTask -----------------------------
(* An archive with up to two archives nested in each other.                *)
EXTENDS GuiTask
=============================================================================
